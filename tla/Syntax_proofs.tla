---------------------------- MODULE Syntax_proofs -----------------------------
(* Proofs about Syntax: for any texts of any depth, what Format writes of a   *)
(* model is read as that model, unless it is garbled, and written again it is *)
(* the same.  The module goes up from what a line says to what a file says:   *)
(* sequences and lookups; trees, and the recursive functions on them; the     *)
(* lines and blocks; members, at every depth; each kind of declaration; each  *)
(* section; the model; and last the ways of storing it.                       *)
EXTENDS Syntax, FiniteSetTheorems, WellFoundedInduction, TLAPS

-------------------------------------------------------------------------------
(* Numbers and sequences.                                                     *)

(* A set of numbers has a least one.                                          *)
LEMMA LeastOf == ASSUME NEW T, T \subseteq Nat, T # {} PROVE \E m \in T : \A k \in T : m <= k
<1> DEFINE U == {0..m : m \in T}
<1>1. U \subseteq FiniteSubsetsOf(Nat) /\ U # {}
  <2>1. \A m \in T : IsFiniteSet(0..m) /\ 0..m \in SUBSET Nat
    BY FS_Interval
  <2> QED BY <2>1, Zenon DEF FiniteSubsetsOf
<1>2. \E x \in U : \A y \in U : ~(<<y, x>> \in StrictSubsetOrdering(Nat))
  <2> HIDE DEF U
  <2> QED BY <1>1, FS_StrictSubsetOrderingWellFounded, WFMin
<1>3. PICK m \in T : \A k \in T : <<0..k, 0..m>> \notin StrictSubsetOrdering(Nat)
  BY <1>2
<1>4. ASSUME NEW k \in T, k < m PROVE FALSE
  <2>1. 0..k \in SUBSET Nat /\ 0..m \in SUBSET Nat /\ 0..k \subseteq 0..m /\ m \in 0..m /\ m \notin 0..k
    BY <1>4
  <2> QED BY <2>1, <1>3 DEF StrictSubsetOrdering
<1> QED BY <1>3, <1>4

(* What holds of 0, and of k + 1 if of k, holds of every number: the set of   *)
(* those it holds of is given, since no prover instantiates a predicate.      *)
LEMMA Induction == ASSUME NEW T, 0 \in T, \A k \in Nat : k \in T => k + 1 \in T
  PROVE Nat \subseteq T
<1> SUFFICES ASSUME Nat \ T # {} PROVE FALSE
  OBVIOUS
<1>1. PICK m \in Nat \ T : \A k \in Nat \ T : m <= k
  <2> DEFINE U == Nat \ T
  <2>1. U \subseteq Nat /\ U # {}  OBVIOUS
  <2> HIDE DEF U
  <2>2. \E m \in U : \A k \in U : m <= k  BY <2>1, LeastOf
  <2> QED BY <2>2 DEF U
<1>2. m # 0 /\ m - 1 \in Nat /\ ~(m <= m - 1)
  BY <1>1
<1>3. m - 1 \in T
  BY <1>1, <1>2
<1> QED BY <1>1, <1>2, <1>3

IsSeq(s) == s \in Seq(In(s))

(* A function of 1 .. n is a sequence of its values.                          *)
LEMMA SequenceIs ==
    ASSUME NEW n \in Nat, NEW s, DOMAIN s = 1 .. n, s = [i \in 1 .. n |-> s[i]]
    PROVE  IsSeq(s) /\ Len(s) = n
<1>1. \A i \in 1 .. n : s[i] \in In(s)
    BY DEF In
<1> DEFINE T == In(s)
<1>2. \A i \in 1 .. n : s[i] \in T
    BY <1>1
<1> HIDE DEF T
<1>3. s \in [1 .. n -> T]
    BY <1>2
<1>4. s \in Seq(T) /\ Len(s) = n
    BY <1>3
<1> QED BY <1>4 DEF IsSeq, T

(* A sequence is one of its own values, ...                                   *)
LEMMA SequenceOf ==
    ASSUME NEW S, NEW s \in Seq(S)
    PROVE  IsSeq(s) /\ Len(s) \in Nat /\ DOMAIN s = 1 .. Len(s) /\ \A i \in 1 .. Len(s) : s[i] \in S
<1>1. Len(s) \in Nat /\ DOMAIN s = 1 .. Len(s) /\ s = [i \in 1 .. Len(s) |-> s[i]]
      /\ \A i \in 1 .. Len(s) : s[i] \in S
    OBVIOUS
<1> QED BY <1>1, SequenceIs

(* ... and a function of its positions.                                       *)
LEMMA SequenceFacts ==
    ASSUME NEW s, IsSeq(s)
    PROVE  Len(s) \in Nat /\ DOMAIN s = 1 .. Len(s) /\ s = [i \in 1 .. Len(s) |-> s[i]]
           /\ (s = <<>> <=> Len(s) = 0)
<1> DEFINE S == In(s)
<1>1. s \in Seq(S)  BY DEF IsSeq
<1> HIDE DEF S
<1> QED BY <1>1

(* The lines of two blocks.                                                   *)
LEMMA ConcatIs ==
    ASSUME NEW s, NEW t, IsSeq(s), IsSeq(t)
    PROVE  /\ IsSeq(s \o t) /\ Len(s \o t) = Len(s) + Len(t)
           /\ \A i \in 1 .. Len(s) : (s \o t)[i] = s[i]
           /\ \A i \in 1 .. Len(t) : (s \o t)[Len(s) + i] = t[i]
           /\ In(s \o t) = In(s) \cup In(t)
<1> DEFINE S == In(s) \cup In(t)
           u == s \o t
<1>0. s \in Seq(S) /\ t \in Seq(S)
    <2> DEFINE A == In(s)
               B == In(t)
    <2>1. s \in Seq(A) /\ t \in Seq(B)  BY DEF IsSeq
    <2>2. s \in Seq(A \cup B) /\ t \in Seq(A \cup B)
        <3> HIDE DEF A, B
        <3> QED BY <2>1
    <2> QED BY <2>2
<1>1. /\ u \in Seq(S) /\ Len(u) = Len(s) + Len(t) /\ DOMAIN u = 1 .. Len(u)
      /\ \A i \in 1 .. Len(s) : u[i] = s[i]
      /\ \A i \in 1 .. Len(t) : u[Len(s) + i] = t[i]
    <2> HIDE DEF S
    <2> QED BY <1>0
<1>2. Len(s) \in Nat /\ Len(t) \in Nat /\ DOMAIN s = 1 .. Len(s) /\ DOMAIN t = 1 .. Len(t)
    BY SequenceFacts
<1>3. IsSeq(u)
    <2> HIDE DEF u, S
    <2> QED BY <1>1, SequenceOf
<1> HIDE DEF u
<1>4. ASSUME NEW x \in In(u) PROVE x \in In(s) \cup In(t)
    <2>1. PICK i \in 1 .. Len(u) : x = u[i]  BY <1>1 DEF In
    <2>2. CASE i <= Len(s)
        BY <2>1, <2>2, <1>1, <1>2 DEF In
    <2>3. CASE ~(i <= Len(s))
        <3>1. i - Len(s) \in 1 .. Len(t) /\ i = Len(s) + (i - Len(s))
            BY <2>1, <2>3, <1>1, <1>2
        <3>2. x = t[i - Len(s)]  BY <3>1, <2>1, <1>1
        <3> QED BY <3>1, <3>2, <1>2 DEF In
    <2> QED BY <2>2, <2>3
<1>5. ASSUME NEW x \in In(s) PROVE x \in In(u)
    <2>1. PICK i \in 1 .. Len(s) : x = s[i]  BY <1>2 DEF In
    <2>2. i \in 1 .. Len(u) /\ x = u[i]  BY <2>1, <1>1, <1>2
    <2> QED BY <2>2, <1>1 DEF In
<1>6. ASSUME NEW x \in In(t) PROVE x \in In(u)
    <2>1. PICK i \in 1 .. Len(t) : x = t[i]  BY <1>2 DEF In
    <2>2. Len(s) + i \in 1 .. Len(u) /\ x = u[Len(s) + i]  BY <2>1, <1>1, <1>2
    <2> QED BY <2>2, <1>1 DEF In
<1>7. In(u) = In(s) \cup In(t)
    BY <1>4, <1>5, <1>6
<1> QED BY <1>1, <1>3, <1>7 DEF u

(* The sequences that blocks are put together from.                           *)
LEMMA EmptyIs == IsSeq(<<>>) /\ In(<<>>) = {}
<1>1. <<>> \in Seq({})  OBVIOUS
<1>2. In(<<>>) = {}  BY DEF In
<1> QED BY <1>1, <1>2 DEF IsSeq

LEMMA SingletonIs == ASSUME NEW x PROVE IsSeq(<<x>>) /\ In(<<x>>) = {x} /\ Len(<<x>>) = 1 /\ <<x>>[1] = x
<1>1. <<x>> \in Seq({x}) /\ Len(<<x>>) = 1 /\ <<x>>[1] = x /\ DOMAIN <<x>> = 1 .. 1  OBVIOUS
<1> DEFINE s == <<x>>
<1>2. IsSeq(s)  BY <1>1, SequenceOf
<1>3. DOMAIN s = {1} /\ s[1] = x  BY <1>1
<1> HIDE DEF s
<1>4. In(s) = {x}
    BY <1>3 DEF In
<1> QED BY <1>1, <1>2, <1>4 DEF s

-------------------------------------------------------------------------------
(* Looking up what was written.                                               *)
LEMMA KeysIs == ASSUME NEW n, NEW k PROVE k \in Keys(n) <=> \E e \in In(n.entries) : e.key = k
BY DEF Keys
LEMMA UnderIs == ASSUME NEW n, NEW k, NEW v
    PROVE v \in Under(n, k) <=> \E e \in In(n.entries) : e.key = k /\ e.val = v
BY DEF Under

(* Of an entry with the key that has none such behind it, At gives the value. *)
LEMMA AtIs ==
    ASSUME NEW n, IsSeq(n.entries), NEW k, NEW d
    PROVE  /\ k \notin Keys(n) => At(n, k, d) = d
           /\ \A i \in DOMAIN n.entries :
                n.entries[i].key = k /\ (\A j \in DOMAIN n.entries : j > i => n.entries[j].key # k)
                => At(n, k, d) = n.entries[i].val
<1>1. k \notin Keys(n) => At(n, k, d) = d
    BY DEF At
<1>2. ASSUME NEW i \in DOMAIN n.entries, n.entries[i].key = k,
             \A j \in DOMAIN n.entries : j > i => n.entries[j].key # k
      PROVE  At(n, k, d) = n.entries[i].val
    <2> DEFINE Is(c) == n.entries[c].key = k /\ \A j \in DOMAIN n.entries : j > c => n.entries[j].key # k
               c == CHOOSE x \in DOMAIN n.entries : Is(x)
    <2>1. k \in Keys(n)
        BY <1>2 DEF Keys, In
    <2>2. At(n, k, d) = n.entries[c].val
        BY <2>1 DEF At
    <2>3. c \in DOMAIN n.entries /\ Is(c)
        BY <1>2
    <2>4. c \in Nat /\ i \in Nat
        BY <2>3, SequenceFacts
    <2> HIDE DEF c
    <2>5. c = i
        BY <1>2, <2>3, <2>4
    <2> QED BY <2>2, <2>5
<1> QED BY <1>1, <1>2

(* If there is an entry with the key, there is a last one.                    *)
LEMMA LastWith ==
    ASSUME NEW n, IsSeq(n.entries), NEW k \in Keys(n)
    PROVE  \E i \in DOMAIN n.entries :
              n.entries[i].key = k /\ \A j \in DOMAIN n.entries : j > i => n.entries[j].key # k
<1> DEFINE D == {i \in DOMAIN n.entries : n.entries[i].key = k}
           L == Len(n.entries)
<1>1. L \in Nat /\ DOMAIN n.entries = 1 .. L
    BY SequenceFacts
<1>2. D # {}
    BY DEF Keys, In
<1>3. \E m \in D : \A j \in D : j <= m
    <2> DEFINE T == {L - i : i \in D}
    <2>1. T \subseteq Nat /\ T # {}
        <3> HIDE DEF L
        <3> QED BY <1>1, <1>2
    <2> HIDE DEF T
    <2>2. PICK m \in T : \A j \in T : m <= j  BY <2>1, LeastOf
    <2>3. PICK i \in D : m = L - i  BY <2>2 DEF T
    <2>4. \A j \in D : L - j \in T  BY DEF T
    <2>5. \A j \in D : j \in Int  BY <1>1
    <2> HIDE DEF L, D
    <2>6. \A j \in D : j <= i
        BY <2>2, <2>3, <2>4, <2>5, <1>1
    <2> QED BY <2>6
<1>4. PICK i \in D : \A j \in D : j <= i  BY <1>3
<1>5. \A j \in DOMAIN n.entries : j > i => n.entries[j].key # k
    BY <1>1, <1>4
<1> QED BY <1>4, <1>5

(* At gives the default, or something that is under the key.                  *)
LEMMA AtOneOf ==
    ASSUME NEW n, IsSeq(n.entries), NEW k, NEW d
    PROVE  \/ k \notin Keys(n) /\ At(n, k, d) = d
           \/ k \in Keys(n) /\ At(n, k, d) \in Under(n, k)
<1> SUFFICES ASSUME k \in Keys(n) PROVE At(n, k, d) \in Under(n, k)
    BY AtIs
<1>1. PICK i \in DOMAIN n.entries :
          n.entries[i].key = k /\ \A j \in DOMAIN n.entries : j > i => n.entries[j].key # k
    BY LastWith
<1>2. At(n, k, d) = n.entries[i].val
    BY <1>1, AtIs
<1>3. n.entries[i] \in In(n.entries)
    BY DEF In
<1> QED BY <1>1, <1>2, <1>3, UnderIs

(* The same of a block that is being put together.                            *)
LEMMA AtBlock ==
    ASSUME NEW s, IsSeq(s), NEW k, NEW d, NEW i \in DOMAIN s, s[i].key = k,
           \A j \in DOMAIN s : j > i => s[j].key # k
    PROVE  At(Mapping(s), k, d) = s[i].val
<1> DEFINE n == Mapping(s)
<1>1. n.entries = s
    BY DEF Mapping
<1> HIDE DEF n
<1>2. At(n, k, d) = n.entries[i].val
    BY <1>1, AtIs
<1> QED BY <1>1, <1>2 DEF n

Clean(s) == \A e \in In(s) : e.val # Garbled

(* A line more: what the longer block u says, next to the block s.            *)
Longer(s, c, k, n, u) ==
    /\ IsSeq(u) /\ Clean(s) /\ (c => n # Garbled)
    /\ u = <<>> <=> s = <<>> /\ ~c
    /\ \A q, d : At(Mapping(u), q, d) = IF c /\ q = k THEN n ELSE At(Mapping(s), q, d)
    /\ \A q, v : v \in Under(Mapping(u), q) <=> v \in Under(Mapping(s), q) \/ (c /\ q = k /\ v = n)
    /\ \A q : q \in Keys(Mapping(u)) <=> q \in Keys(Mapping(s)) \/ (c /\ q = k)
    /\ \A e : e \in In(u) <=> e \in In(s) \/ (c /\ e = Pair(k, n))

(* A line that can be read has the key and the value it was made of.          *)
LEMMA LineIs == ASSUME NEW k, NEW n
    PROVE  /\ Line(k, n).key = k
           /\ Line(k, n).val # Garbled => Line(k, n) = Pair(k, n) /\ k \notin Unsafe
BY DEF Line, Pair

(* Appending a line makes a block longer by that line.                        *)
LEMMA LongerIs ==
    ASSUME NEW s, IsSeq(s), NEW c \in BOOLEAN, NEW k, NEW n, Clean(s \o LineIf(c, k, n))
    PROVE  Longer(s, c, k, n, s \o LineIf(c, k, n))
<1> DEFINE t == LineIf(c, k, n)
           u == s \o t
<1>1. IsSeq(t) /\ In(t) = IF c THEN {Line(k, n)} ELSE {}
    BY EmptyIs, SingletonIs DEF LineIf
<1>2. IsSeq(u) /\ In(u) = In(s) \cup In(t) /\ Len(u) = Len(s) + Len(t)
      /\ (\A i \in 1 .. Len(s) : u[i] = s[i]) /\ \A i \in 1 .. Len(t) : u[Len(s) + i] = t[i]
    <2> HIDE DEF t
    <2> QED BY <1>1, ConcatIs
<1>3. c => Line(k, n) = Pair(k, n) /\ n # Garbled
    <2> SUFFICES ASSUME c PROVE Line(k, n) = Pair(k, n) /\ n # Garbled
        OBVIOUS
    <2>1. Line(k, n) \in In(u)
        BY <1>1, <1>2
    <2>2. Line(k, n).val # Garbled
        BY <2>1 DEF Clean
    <2> QED BY <2>2, LineIs DEF Pair
<1>4. \A e : e \in In(u) <=> e \in In(s) \/ (c /\ e = Pair(k, n))
    <2> HIDE DEF t, u
    <2> QED BY <1>1, <1>2, <1>3
<1>5. Clean(s)
    <2>1. Clean(u)  OBVIOUS
    <2> HIDE DEF u
    <2> QED BY <1>4, <2>1 DEF Clean
<1>6. Mapping(u).entries = u /\ Mapping(s).entries = s
    BY DEF Mapping
<1>7. Pair(k, n).key = k /\ Pair(k, n).val = n
    BY DEF Pair
<1>8. \A q : q \in Keys(Mapping(u)) <=> q \in Keys(Mapping(s)) \/ (c /\ q = k)
    <2> HIDE DEF u
    <2> QED BY <1>4, <1>6, <1>7, KeysIs
<1>9. \A q, v : v \in Under(Mapping(u), q) <=> v \in Under(Mapping(s), q) \/ (c /\ q = k /\ v = n)
    <2> HIDE DEF u
    <2> QED BY <1>4, <1>6, <1>7, UnderIs
<1>10. /\ Len(t) = IF c THEN 1 ELSE 0
       /\ c => t[1] = Pair(k, n)
    BY <1>3, SingletonIs DEF LineIf
<1>11. Len(s) \in Nat /\ DOMAIN s = 1 .. Len(s) /\ Len(u) \in Nat /\ DOMAIN u = 1 .. Len(u)
    <2> HIDE DEF u
    <2> QED BY <1>2, SequenceFacts
<1>12. u = <<>> <=> s = <<>> /\ ~c
    <2>1. (u = <<>> <=> Len(u) = 0) /\ (s = <<>> <=> Len(s) = 0)
        <3> HIDE DEF u
        <3> QED BY <1>2, SequenceFacts
    <2> HIDE DEF u, t
    <2> QED BY <2>1, <1>2, <1>10, <1>11
<1>13. ASSUME NEW q, NEW d PROVE At(Mapping(u), q, d) = IF c /\ q = k THEN n ELSE At(Mapping(s), q, d)
    <2> HIDE DEF u, t
    <2>1. CASE c /\ q = k
        <3>0. Len(u) = Len(s) + 1 /\ 1 \in 1 .. Len(t) /\ t[1] = Pair(k, n)
            BY <2>1, <1>2, <1>10, <1>11
        <3>1. Len(u) \in DOMAIN u /\ u[Len(u)] = Pair(k, n)
            BY <3>0, <1>2, <1>11
        <3>2. u[Len(u)].key = q /\ \A j \in DOMAIN u : j > Len(u) => u[j].key # q
            BY <2>1, <3>1, <1>7, <1>11
        <3>3. At(Mapping(u), q, d) = u[Len(u)].val
            <4>1. IsSeq(u)  BY <1>2
            <4> QED BY <4>1, <3>1, <3>2, AtBlock
        <3> QED BY <2>1, <3>1, <3>3, <1>7
    <2>2. CASE ~(c /\ q = k) /\ q \notin Keys(Mapping(s))
        <3>1. q \notin Keys(Mapping(u))
            BY <2>2, <1>8
        <3> QED BY <2>2, <3>1, <1>2, <1>6, AtIs
    <2>3. CASE ~(c /\ q = k) /\ q \in Keys(Mapping(s))
        <3>1. \E i \in DOMAIN s : s[i].key = q /\ \A j \in DOMAIN s : j > i => s[j].key # q
            BY <2>3, <1>6, LastWith
        <3>2. PICK i \in DOMAIN s : s[i].key = q /\ \A j \in DOMAIN s : j > i => s[j].key # q
            BY <3>1
        <3>3. i \in DOMAIN u /\ u[i] = s[i]
            BY <1>2, <1>10, <1>11
        <3>4. ASSUME NEW j \in DOMAIN u, j > i PROVE u[j].key # q
            <4>1. CASE j \in DOMAIN s
                BY <3>2, <3>4, <4>1, <1>2, <1>11
            <4>2. CASE j \notin DOMAIN s
                <5>0. j \in 1 .. Len(u) /\ j \notin 1 .. Len(s) /\ Len(u) = Len(s) + Len(t)
                    BY <3>4, <4>2, <1>2, <1>11
                <5>1. c /\ j = Len(s) + 1 /\ 1 \in 1 .. Len(t)
                    <6>1. CASE c
                        <7>1. Len(t) = 1  BY <6>1, <1>10
                        <7> QED BY <6>1, <7>1, <5>0, <1>11
                    <6>2. CASE ~c
                        <7>1. Len(t) = 0  BY <6>2, <1>10
                        <7> QED BY <7>1, <5>0, <1>11
                    <6> QED BY <6>1, <6>2
                <5>2. u[j] = Pair(k, n)
                    BY <5>1, <1>2, <1>10
                <5> QED BY <5>1, <5>2, <2>3, <1>7
            <4> QED BY <4>1, <4>2
        <3>5. At(Mapping(u), q, d) = u[i].val
            <4>1. IsSeq(u)  BY <1>2
            <4>2. i \in DOMAIN u /\ u[i].key = q  BY <3>2, <3>3
            <4>3. \A j \in DOMAIN u : j > i => u[j].key # q  BY <3>4
            <4> QED BY <4>1, <4>2, <4>3, AtBlock
        <3>6. At(Mapping(s), q, d) = s[i].val
            BY <3>2, AtBlock
        <3> QED BY <2>3, <3>3, <3>5, <3>6
    <2> QED BY <2>1, <2>2, <2>3
<1> HIDE DEF u
<1>14. c => n # Garbled  BY <1>3
<1>15. Longer(s, c, k, n, u)
    BY <1>2, <1>4, <1>5, <1>8, <1>9, <1>12, <1>13, <1>14 DEF Longer
<1> QED BY <1>15 DEF u, t

-------------------------------------------------------------------------------
(* The recursive functions exist: what they are defined to be, they are.  The *)
(* two that give the trees and the members of each depth are of one form, and *)
(* so is the proof.                                                           *)
TreesOver(below) ==
    [kind : Kinds, value : STRING, entries : Seq([key : STRING, val : below]), items : Seq(below)]
MembersOver(below) ==
    [name : STRING, suffix : STRING, kind : STRING, type : STRING, rule : STRING,
     access : STRING, unit : STRING, doc : STRING, in : Seq(Arguments),
     out : Seq(Arguments), children : Seq(below)]
Over(trees, below) == IF trees THEN TreesOver(below) ELSE MembersOver(below)
Level(f, k) == IF k = 0 THEN {} ELSE f[k - 1]

(* There is a function with the equation of TreesTo, or of MembersTo.         *)
LEMMA LevelsExist ==
    ASSUME NEW w
    PROVE  \E f : f = [k \in Nat |-> Over(w, Level(f, k))]
<1> DEFINE Upto(n, g) == DOMAIN g = 0 .. n /\ \A k \in 0 .. n : g[k] = Over(w, Level(g, k))
           T == {n \in Nat : \E g : Upto(n, g)}
<1>1. 0 \in T
    <2> DEFINE g == [k \in 0 .. 0 |-> Over(w, {})]
    <2>1. DOMAIN g = 0 .. 0 /\ \A k \in 0 .. 0 : k = 0 /\ g[k] = Over(w, {})
        OBVIOUS
    <2> HIDE DEF g
    <2>2. Upto(0, g)
        BY <2>1 DEF Level
    <2> QED BY <2>2
<1>2. ASSUME NEW n \in Nat, n \in T PROVE n + 1 \in T
    <2>1. PICK g : Upto(n, g)
        BY <1>2
    <2> DEFINE h == [k \in 0 .. (n + 1) |-> IF k = n + 1 THEN Over(w, g[n]) ELSE g[k]]
    <2>2. DOMAIN h = 0 .. (n + 1) /\ h[n + 1] = Over(w, g[n]) /\ \A k \in 0 .. n : h[k] = g[k]
        OBVIOUS
    <2> HIDE DEF h
    <2>3. ASSUME NEW k \in 0 .. (n + 1) PROVE h[k] = Over(w, Level(h, k))
        <3>1. CASE k = n + 1
            <4>1. k # 0 /\ k - 1 = n /\ n \in 0 .. n  BY <3>1
            <4>2. Level(h, k) = g[n]  BY <4>1, <2>2 DEF Level
            <4> QED BY <3>1, <4>2, <2>2
        <3>2. CASE k # n + 1
            <4>1. k \in 0 .. n /\ (k # 0 => k - 1 \in 0 .. n)  BY <3>2
            <4>2. Level(h, k) = Level(g, k)  BY <4>1, <2>2 DEF Level
            <4> QED BY <4>1, <4>2, <2>1, <2>2
        <3> QED BY <3>1, <3>2
    <2>4. Upto(n + 1, h)
        BY <2>2, <2>3
    <2> QED BY <2>4
<1>3. Nat \subseteq T
    <2> HIDE DEF T
    <2> QED BY <1>1, <1>2, Induction
<1> DEFINE G(n) == CHOOSE g : Upto(n, g)
<1>4. \A n \in Nat : Upto(n, G(n))
    <2> HIDE DEF Upto
    <2> QED BY <1>3
<1> HIDE DEF G
<1>5. ASSUME NEW m \in Nat, NEW n \in Nat
      PROVE  \A k \in Nat : k <= m /\ k <= n => G(m)[k] = G(n)[k]
    <2> DEFINE E == {k \in Nat : k <= m /\ k <= n => G(m)[k] = G(n)[k]}
    <2>0. Upto(n, G(n)) /\ Upto(m, G(m))  BY <1>4
    <2>1. 0 \in E
        <3>1. 0 \in 0 .. m /\ 0 \in 0 .. n  OBVIOUS
        <3>2. Level(G(m), 0) = {} /\ Level(G(n), 0) = {}  BY DEF Level
        <3>3. G(m)[0] = G(n)[0]  BY <2>0, <3>1, <3>2
        <3> QED BY <3>3
    <2>2. ASSUME NEW k \in Nat, k \in E PROVE k + 1 \in E
        <3>1. SUFFICES ASSUME k + 1 <= m, k + 1 <= n PROVE G(m)[k + 1] = G(n)[k + 1]
            OBVIOUS
        <3>2. G(m)[k] = G(n)[k] /\ k + 1 \in 0 .. m /\ k + 1 \in 0 .. n /\ (k + 1) - 1 = k /\ k + 1 # 0
            BY <2>2, <3>1
        <3>3. Level(G(m), k + 1) = Level(G(n), k + 1)
            BY <3>2 DEF Level
        <3> QED BY <3>2, <3>3, <2>0
    <2> HIDE DEF E
    <2>3. Nat \subseteq E
        BY <2>1, <2>2, Induction
    <2> QED BY <2>3 DEF E
<1> DEFINE f == [k \in Nat |-> G(k)[k]]
<1>6. ASSUME NEW k \in Nat PROVE G(k)[k] = Over(w, Level(f, k))
    <2>0. k \in 0 .. k /\ Upto(k, G(k))
        BY <1>4
    <2>1. G(k)[k] = Over(w, Level(G(k), k))
        BY <2>0
    <2>2. Level(G(k), k) = Level(f, k)
        <3>1. CASE k = 0  BY <3>1 DEF Level
        <3>2. CASE k # 0
            <4>1. k - 1 \in Nat /\ k - 1 <= k /\ k - 1 <= k - 1  BY <3>2
            <4>2. G(k)[k - 1] = G(k - 1)[k - 1]  BY <4>1, <1>5
            <4>3. f[k - 1] = G(k - 1)[k - 1]  BY <4>1
            <4> HIDE DEF f
            <4> QED BY <3>2, <4>2, <4>3 DEF Level
        <3> QED BY <3>1, <3>2
    <2> QED BY <2>1, <2>2
<1>7. f = [k \in Nat |-> Over(w, Level(f, k))]
    <2> DEFINE A(k) == G(k)[k]
               B(k) == Over(w, Level(f, k))
    <2>1. \A k \in Nat : A(k) = B(k)
        BY <1>6
    <2> HIDE DEF A, B
    <2>2. [k \in Nat |-> A(k)] = [k \in Nat |-> B(k)]
        BY <2>1
    <2> QED BY <2>2 DEF A, B
<1> QED BY <1>7

(* So TreesTo satisfies its equation ...                                      *)
LEMMA TreesToIs ==
    /\ TreesTo[0] = TreesOver({})
    /\ \A d \in Nat : TreesTo[d + 1] = TreesOver(TreesTo[d])
<1> DEFINE Body(f) == [k \in Nat |-> TreesOver(Level(f, k))]
<1>1. TreesTo = CHOOSE f : f = Body(f)
    BY DEF TreesTo, Level, TreesOver
<1>2. \A b : Over(TRUE, b) = TreesOver(b)
    BY DEF Over
<1>3. PICK f : f = [k \in Nat |-> Over(TRUE, Level(f, k))]
    BY LevelsExist
<1>4. f = Body(f)
    BY <1>2, <1>3
<1> HIDE DEF Body
<1>5. TreesTo = Body(TreesTo)
    BY <1>1, <1>4
<1>6. TreesTo = [k \in Nat |-> TreesOver(Level(TreesTo, k))]
    BY <1>5 DEF Body
<1>7. \A k \in Nat : TreesTo[k] = TreesOver(Level(TreesTo, k))
    BY <1>6
<1>8. Level(TreesTo, 0) = {} /\ \A d \in Nat : d + 1 \in Nat /\ Level(TreesTo, d + 1) = TreesTo[d]
    BY DEF Level
<1> QED BY <1>7, <1>8

(* ... and MembersTo.                                                         *)
LEMMA MembersToIs ==
    /\ MembersTo[0] = MembersOver({})
    /\ \A d \in Nat : MembersTo[d + 1] = MembersOver(MembersTo[d])
<1> DEFINE Body(f) == [k \in Nat |-> MembersOver(Level(f, k))]
<1>1. MembersTo = CHOOSE f : f = Body(f)
    BY DEF MembersTo, Level, MembersOver
<1>2. \A b : Over(FALSE, b) = MembersOver(b)
    BY DEF Over
<1>3. PICK f : f = [k \in Nat |-> Over(FALSE, Level(f, k))]
    BY LevelsExist
<1>4. f = Body(f)
    BY <1>2, <1>3
<1> HIDE DEF Body
<1>5. MembersTo = Body(MembersTo)
    BY <1>1, <1>4
<1>6. MembersTo = [k \in Nat |-> MembersOver(Level(MembersTo, k))]
    BY <1>5 DEF Body
<1>7. \A k \in Nat : MembersTo[k] = MembersOver(Level(MembersTo, k))
    BY <1>6
<1>8. Level(MembersTo, 0) = {} /\ \A d \in Nat : d + 1 \in Nat /\ Level(MembersTo, d + 1) = MembersTo[d]
    BY DEF Level
<1> QED BY <1>7, <1>8

(* What a tree of some depth is, and that of a greater depth there are more.  *)
LEMMA OverGrows ==
    ASSUME NEW a, NEW b, a \subseteq b
    PROVE  TreesOver(a) \subseteq TreesOver(b) /\ MembersOver(a) \subseteq MembersOver(b)
<1>1. Seq(a) \subseteq Seq(b)
    OBVIOUS
<1>2. [key : STRING, val : a] \subseteq [key : STRING, val : b]
    OBVIOUS
<1>0. \A C, D : C \subseteq D => Seq(C) \subseteq Seq(D)
    OBVIOUS
<1>3. Seq([key : STRING, val : a]) \subseteq Seq([key : STRING, val : b])
    BY <1>0, <1>2
<1> DEFINE A == Seq([key : STRING, val : a])
           B == Seq([key : STRING, val : b])
           SA == Seq(a)
           SB == Seq(b)
<1>4. A \subseteq B /\ SA \subseteq SB  BY <1>1, <1>3
<1> HIDE DEF A, B, SA, SB
<1>5. [kind : Kinds, value : STRING, entries : A, items : SA]
      \subseteq [kind : Kinds, value : STRING, entries : B, items : SB]
    BY <1>4
<1>6. TreesOver(a) \subseteq TreesOver(b)
    BY <1>5 DEF TreesOver, A, B, SA, SB
<1> DEFINE S == Seq(Arguments)
<1> HIDE DEF S
<1>7. [name : STRING, suffix : STRING, kind : STRING, type : STRING, rule : STRING,
       access : STRING, unit : STRING, doc : STRING, in : S, out : S, children : SA]
      \subseteq
      [name : STRING, suffix : STRING, kind : STRING, type : STRING, rule : STRING,
       access : STRING, unit : STRING, doc : STRING, in : S, out : S, children : SB]
    BY <1>4
<1>8. MembersOver(a) \subseteq MembersOver(b)
    BY <1>7 DEF MembersOver, SA, SB, S
<1> QED BY <1>6, <1>8

(* What nests to some depth nests to any greater one.                         *)
LEMMA DeeperStep == \A d \in Nat : TreesTo[d] \subseteq TreesTo[d + 1] /\ MembersTo[d] \subseteq MembersTo[d + 1]
<1> DEFINE T == {d \in Nat : TreesTo[d] \subseteq TreesTo[d + 1] /\ MembersTo[d] \subseteq MembersTo[d + 1]}
<1>1. 0 \in T
    <2>1. TreesTo[0 + 1] = TreesOver(TreesTo[0]) /\ MembersTo[0 + 1] = MembersOver(MembersTo[0])
        BY TreesToIs, MembersToIs
    <2>2. TreesTo[0] = TreesOver({}) /\ MembersTo[0] = MembersOver({})
        BY TreesToIs, MembersToIs
    <2>3. {} \subseteq TreesTo[0] /\ {} \subseteq MembersTo[0]
        OBVIOUS
    <2>4. TreesOver({}) \subseteq TreesOver(TreesTo[0])
        BY <2>3, OverGrows
    <2>5. MembersOver({}) \subseteq MembersOver(MembersTo[0])
        BY <2>3, OverGrows
    <2> QED BY <2>1, <2>2, <2>4, <2>5
<1>2. ASSUME NEW d \in Nat, d \in T PROVE d + 1 \in T
    <2>1. TreesTo[d] \subseteq TreesTo[d + 1] /\ MembersTo[d] \subseteq MembersTo[d + 1]
        BY <1>2
    <2>2. /\ TreesTo[d + 1] = TreesOver(TreesTo[d]) /\ TreesTo[(d + 1) + 1] = TreesOver(TreesTo[d + 1])
          /\ MembersTo[d + 1] = MembersOver(MembersTo[d]) /\ MembersTo[(d + 1) + 1] = MembersOver(MembersTo[d + 1])
        BY TreesToIs, MembersToIs
    <2>3. TreesTo[d + 1] \subseteq TreesTo[(d + 1) + 1]
        BY <2>1, <2>2, OverGrows
    <2>4. MembersTo[d + 1] \subseteq MembersTo[(d + 1) + 1]
        <3>1. MembersOver(MembersTo[d]) \subseteq MembersOver(MembersTo[d + 1])
            BY <2>1, OverGrows
        <3> QED BY <3>1, <2>2
    <2> QED BY <2>3, <2>4
<1> HIDE DEF T
<1>3. Nat \subseteq T
    BY <1>1, <1>2, Induction
<1> QED BY <1>3 DEF T

LEMMA Deeper ==
    ASSUME NEW d \in Nat, NEW k \in Nat
    PROVE  TreesTo[d] \subseteq TreesTo[d + k] /\ MembersTo[d] \subseteq MembersTo[d + k]
<1> DEFINE T == {j \in Nat : TreesTo[d] \subseteq TreesTo[d + j] /\ MembersTo[d] \subseteq MembersTo[d + j]}
<1>1. 0 \in T
    OBVIOUS
<1>2. ASSUME NEW j \in Nat, j \in T PROVE j + 1 \in T
    <2>1. d + j \in Nat /\ d + (j + 1) = (d + j) + 1  OBVIOUS
    <2>2. TreesTo[d + j] \subseteq TreesTo[(d + j) + 1] /\ MembersTo[d + j] \subseteq MembersTo[(d + j) + 1]
        BY <2>1, DeeperStep
    <2>3. TreesTo[d] \subseteq TreesTo[d + (j + 1)] /\ MembersTo[d] \subseteq MembersTo[d + (j + 1)]
        BY <1>2, <2>1, <2>2
    <2> QED BY <2>3
<1> HIDE DEF T
<1>3. Nat \subseteq T
    BY <1>1, <1>2, Induction
<1> QED BY <1>3 DEF T

(* The parts of a tree are trees of a smaller depth, or there are none.       *)
LEMMA PartsOfTree ==
    ASSUME NEW d \in Nat, NEW n \in TreesTo[d]
    PROVE  /\ n = [kind |-> n.kind, value |-> n.value, entries |-> n.entries, items |-> n.items]
           /\ n.kind \in Kinds /\ n.value \in STRING /\ IsSeq(n.entries) /\ IsSeq(n.items)
           /\ \A e \in In(n.entries) :
                e = Pair(e.key, e.val) /\ e.key \in STRING /\ d # 0 /\ e.val \in TreesTo[d - 1]
           /\ \A x \in In(n.items) : d # 0 /\ x \in TreesTo[d - 1]
<1> DEFINE b == IF d = 0 THEN {} ELSE TreesTo[d - 1]
           P == [key : STRING, val : b]
<1>1. TreesTo[d] = TreesOver(b)
    <2>1. CASE d = 0  BY <2>1, TreesToIs
    <2>2. CASE d # 0
        <3>1. d - 1 \in Nat /\ (d - 1) + 1 = d  BY <2>2
        <3> QED BY <2>2, <3>1, TreesToIs
    <2> QED BY <2>1, <2>2
<1>2. n \in [kind : Kinds, value : STRING, entries : Seq(P), items : Seq(b)]
    BY <1>1 DEF TreesOver
<1>3. \A p \in P : p = Pair(p.key, p.val) /\ p.key \in STRING /\ p.val \in b
    BY DEF Pair
<1>4. \A x \in b : d # 0 /\ x \in TreesTo[d - 1]
    OBVIOUS
<1> HIDE DEF b, P
<1> DEFINE SP == Seq(P)
           SB == Seq(b)
<1>5. n \in [kind : Kinds, value : STRING, entries : SP, items : SB]
    BY <1>2
<1> HIDE DEF SP, SB
<1>6. /\ n = [kind |-> n.kind, value |-> n.value, entries |-> n.entries, items |-> n.items]
      /\ n.kind \in Kinds /\ n.value \in STRING /\ n.entries \in SP /\ n.items \in SB
    BY <1>5
<1>7. n.entries \in Seq(P) /\ n.items \in Seq(b)
    BY <1>6 DEF SP, SB
<1>8. IsSeq(n.entries) /\ In(n.entries) \subseteq P /\ IsSeq(n.items) /\ In(n.items) \subseteq b
    BY <1>7, SequenceOf DEF In
<1> QED BY <1>3, <1>4, <1>6, <1>8

(* What is looked up in a tree is a tree, or the default.                     *)
LEMMA FoundIs ==
    ASSUME NEW d \in Nat, NEW n \in TreesTo[d], NEW k, NEW default
    PROVE  /\ \A v \in Under(n, k) : d # 0 /\ v \in TreesTo[d - 1]
           /\ \/ k \notin Keys(n) /\ At(n, k, default) = default
              \/ /\ k \in Keys(n) /\ d # 0 /\ At(n, k, default) \in TreesTo[d - 1]
                 /\ At(n, k, default) \in Under(n, k)
<1>1. IsSeq(n.entries) /\ \A e \in In(n.entries) : d # 0 /\ e.val \in TreesTo[d - 1]
    BY PartsOfTree
<1>2. \A v \in Under(n, k) : d # 0 /\ v \in TreesTo[d - 1]
    BY <1>1, UnderIs
<1>3. \/ k \notin Keys(n) /\ At(n, k, default) = default
      \/ k \in Keys(n) /\ At(n, k, default) \in Under(n, k)
    BY <1>1, AtOneOf
<1> QED BY <1>2, <1>3

(* The entries under a key are pairs of a string and a lesser tree.           *)
LEMMA ChildrenAre ==
    ASSUME NEW d \in Nat, NEW n \in TreesTo[d], NEW k
    PROVE  /\ IsSeq(Children(n, k))
           /\ \A e \in In(Children(n, k)) :
                e = Pair(e.key, e.val) /\ e.key \in STRING /\ d # 0 /\ e.val \in TreesTo[d - 1]
<1> DEFINE v == At(n, k, Mapping(<<>>))
<1>1. v = Mapping(<<>>) \/ (d # 0 /\ v \in TreesTo[d - 1])
    BY FoundIs
<1>2. Children(n, k) = v.entries
    BY DEF Children
<1> HIDE DEF v
<1>3. CASE v = Mapping(<<>>)
    <2>1. v.entries = <<>>  BY <1>3 DEF Mapping
    <2> QED BY <1>2, <2>1, EmptyIs
<1>4. CASE d # 0 /\ v \in TreesTo[d - 1]
    <2>1. d - 1 \in Nat /\ v \in TreesTo[d - 1]  BY <1>4
    <2>2. IsSeq(v.entries) /\ \A e \in In(v.entries) :
              e = Pair(e.key, e.val) /\ e.key \in STRING /\ d - 1 # 0 /\ e.val \in TreesTo[(d - 1) - 1]
        BY <2>1, PartsOfTree
    <2>3. d - 1 # 0 => TreesTo[(d - 1) - 1] \subseteq TreesTo[d - 1]
        <3> SUFFICES ASSUME d - 1 # 0 PROVE TreesTo[(d - 1) - 1] \subseteq TreesTo[d - 1]
            OBVIOUS
        <3>1. (d - 1) - 1 \in Nat /\ ((d - 1) - 1) + 1 = d - 1  BY <1>4
        <3> QED BY <3>1, DeeperStep
    <2> QED BY <1>2, <1>4, <2>2, <2>3
<1> QED BY <1>1, <1>3, <1>4

(* The members of a member are members.                                       *)
LEMMA PartsOfMember ==
    ASSUME NEW d \in Nat, NEW mem \in MembersTo[d]
    PROVE  /\ mem = [name |-> mem.name, suffix |-> mem.suffix, kind |-> mem.kind, type |-> mem.type,
                     rule |-> mem.rule, access |-> mem.access, unit |-> mem.unit, doc |-> mem.doc,
                     in |-> mem.in, out |-> mem.out, children |-> mem.children]
           /\ mem.name \in STRING /\ mem.suffix \in STRING /\ mem.kind \in STRING
           /\ mem.type \in STRING /\ mem.rule \in STRING /\ mem.access \in STRING
           /\ mem.unit \in STRING /\ mem.doc \in STRING
           /\ mem.in \in Seq(Arguments) /\ mem.out \in Seq(Arguments)
           /\ IsSeq(mem.children)
           /\ \A x \in In(mem.children) : d # 0 /\ x \in MembersTo[d - 1]
<1> DEFINE b == IF d = 0 THEN {} ELSE MembersTo[d - 1]
<1>1. MembersTo[d] = MembersOver(b)
    <2>1. CASE d = 0  BY <2>1, MembersToIs
    <2>2. CASE d # 0
        <3>1. d - 1 \in Nat /\ (d - 1) + 1 = d  BY <2>2
        <3> QED BY <2>2, <3>1, MembersToIs
    <2> QED BY <2>1, <2>2
<1>4. \A x \in b : d # 0 /\ x \in MembersTo[d - 1]
    OBVIOUS
<1> HIDE DEF b
<1> DEFINE SA == Seq(Arguments)
           SB == Seq(b)
<1>5. mem \in [name : STRING, suffix : STRING, kind : STRING, type : STRING, rule : STRING,
               access : STRING, unit : STRING, doc : STRING, in : SA, out : SA, children : SB]
    BY <1>1 DEF MembersOver
<1> HIDE DEF SA, SB
<1>6. /\ mem = [name |-> mem.name, suffix |-> mem.suffix, kind |-> mem.kind, type |-> mem.type,
                rule |-> mem.rule, access |-> mem.access, unit |-> mem.unit, doc |-> mem.doc,
                in |-> mem.in, out |-> mem.out, children |-> mem.children]
      /\ mem.name \in STRING /\ mem.suffix \in STRING /\ mem.kind \in STRING
      /\ mem.type \in STRING /\ mem.rule \in STRING /\ mem.access \in STRING
      /\ mem.unit \in STRING /\ mem.doc \in STRING
      /\ mem.in \in SA /\ mem.out \in SA /\ mem.children \in SB
    BY <1>5
<1>7. mem.in \in Seq(Arguments) /\ mem.out \in Seq(Arguments) /\ mem.children \in Seq(b)
    BY <1>6 DEF SA, SB
<1>8. IsSeq(mem.children) /\ In(mem.children) \subseteq b
    BY <1>7, SequenceOf DEF In
<1> QED BY <1>4, <1>6, <1>7, <1>8

-------------------------------------------------------------------------------
(* The four functions that follow the nesting of the members, each by what it *)
(* makes of one level; that they exist is proved once.                        *)
OKStep(f, n) ==
    /\ Named(n, MemberKeys)
    /\ \A e \in In(n.entries) :
        /\ \A v \in Under(e.val, "in") \cup Under(e.val, "out") : ArgumentsOK(v)
        /\ \A v \in Under(e.val, "children") : f[v]
ReadStep(f, e) ==
    [name |-> IF e.key \in DOMAIN Suffixed THEN Suffixed[e.key][1] ELSE e.key,
     suffix |-> IF e.key \in DOMAIN Suffixed THEN Suffixed[e.key][2] ELSE "",
     kind |-> Value(e.val, "kind", "variable"),
     type |-> Value(e.val, "type", ""),
     rule |-> Value(e.val, "rule", "mandatory"),
     access |-> Value(e.val, "access", "r"),
     unit |-> Value(e.val, "unit", ""),
     doc |-> CleanDoc(e.val),
     in |-> ReadArguments(e.val, "in"),
     out |-> ReadArguments(e.val, "out"),
     children |-> [i \in DOMAIN Children(e.val, "children") |-> f[Children(e.val, "children")[i]]]]
OwnLines(mem) == InlineFields(mem) \o ArgumentLines("in", mem.in) \o ArgumentLines("out", mem.out)
WriteStep(f, mem) ==
    Line(MemberKey(mem), Braces(OwnLines(mem) \o
        LineIf(mem.children # <<>>, "children",
               Block([i \in DOMAIN mem.children |-> f[mem.children[i]]]))))
CanonicalStep(f, mem) ==
    [mem EXCEPT !.access = IF mem.kind \in {"variable", "property"} THEN @ ELSE "r",
                !.children = [i \in DOMAIN mem.children |-> f[mem.children[i]]]]

Along(w, f, x) ==
    IF w = "ok" THEN OKStep(f, x)
    ELSE IF w = "read" THEN ReadStep(f, x)
    ELSE IF w = "write" THEN WriteStep(f, x) ELSE CanonicalStep(f, x)
LevelOf(w, d) ==
    IF w = "ok" THEN TreesTo[d]
    ELSE IF w = "read" THEN [key : STRING, val : TreesTo[d]] ELSE MembersTo[d]

LEMMA LevelOfGrows == ASSUME NEW w, NEW d \in Nat PROVE LevelOf(w, d) \subseteq LevelOf(w, d + 1)
<1> DEFINE A == TreesTo[d]
           B == TreesTo[d + 1]
<1>1. A \subseteq B /\ MembersTo[d] \subseteq MembersTo[d + 1]
    BY DeeperStep
<1>2. [key : STRING, val : A] \subseteq [key : STRING, val : B]
    <2> HIDE DEF A, B
    <2> QED BY <1>1
<1> QED BY <1>1, <1>2 DEF LevelOf

(* The equation at depth d asks the function for depth d - 1 only.            *)
LEMMA AlongDeeper ==
    ASSUME NEW w, NEW d \in Nat, NEW f, NEW g, NEW x \in LevelOf(w, d),
           \A y : d # 0 /\ y \in LevelOf(w, d - 1) => f[y] = g[y]
    PROVE  Along(w, f, x) = Along(w, g, x)
<1>1. CASE w = "ok"
    <2>1. x \in TreesTo[d] /\ \A y : d # 0 /\ y \in TreesTo[d - 1] => f[y] = g[y]
        BY <1>1 DEF LevelOf
    <2>2. ASSUME NEW e \in In(x.entries), NEW v \in Under(e.val, "children") PROVE f[v] = g[v]
        <3>1. d # 0 /\ d - 1 \in Nat /\ e.val \in TreesTo[d - 1]
            BY <2>1, PartsOfTree
        <3>2. d - 1 # 0 /\ v \in TreesTo[(d - 1) - 1]
            BY <3>1, FoundIs
        <3>3. (d - 1) - 1 \in Nat /\ ((d - 1) - 1) + 1 = d - 1  BY <3>1, <3>2
        <3>4. v \in TreesTo[d - 1]  BY <3>2, <3>3, DeeperStep
        <3> QED BY <2>1, <3>1, <3>4
    <2>3. OKStep(f, x) = OKStep(g, x)
        <3> DEFINE C(e) == Under(e.val, "children")
                   A(e) == \A v \in Under(e.val, "in") \cup Under(e.val, "out") : ArgumentsOK(v)
        <3> HIDE DEF C, A
        <3>1. (\A e \in In(x.entries) : A(e) /\ \A v \in C(e) : f[v])
              = \A e \in In(x.entries) : A(e) /\ \A v \in C(e) : g[v]
            BY <2>2 DEF C
        <3> QED BY <3>1 DEF OKStep, C, A
    <2> QED BY <1>1, <2>3 DEF Along
<1>2. CASE w = "read"
    <2> DEFINE c == Children(x.val, "children")
    <2>1. x.val \in TreesTo[d] /\ \A y : d # 0 /\ y \in [key : STRING, val : TreesTo[d - 1]] => f[y] = g[y]
        BY <1>2 DEF LevelOf
    <2>2. IsSeq(c) /\ \A e \in In(c) : e = Pair(e.key, e.val) /\ e.key \in STRING /\ d # 0 /\ e.val \in TreesTo[d - 1]
        BY <2>1, ChildrenAre
    <2>3. ASSUME NEW i \in DOMAIN c PROVE f[c[i]] = g[c[i]]
        <3>1. c[i] \in In(c)  BY DEF In
        <3> HIDE DEF c
        <3>2. d # 0 /\ c[i] \in [key : STRING, val : TreesTo[d - 1]]
            BY <3>1, <2>2 DEF Pair
        <3> QED BY <2>1, <3>2
    <2> HIDE DEF c
    <2>4. [i \in DOMAIN c |-> f[c[i]]] = [i \in DOMAIN c |-> g[c[i]]]
        BY <2>3
    <2>5. ReadStep(f, x) = ReadStep(g, x)
        BY <2>4 DEF ReadStep, c
    <2> QED BY <1>2, <2>5 DEF Along
<1>3. CASE w \notin {"ok", "read"}
    <2> DEFINE c == x.children
    <2>1. x \in MembersTo[d] /\ \A y : d # 0 /\ y \in MembersTo[d - 1] => f[y] = g[y]
        BY <1>3 DEF LevelOf
    <2>2. IsSeq(c) /\ \A e \in In(c) : d # 0 /\ e \in MembersTo[d - 1]
        BY <2>1, PartsOfMember
    <2>3. ASSUME NEW i \in DOMAIN c PROVE f[c[i]] = g[c[i]]
        <3>1. c[i] \in In(c)  BY DEF In
        <3> QED BY <3>1, <2>1, <2>2
    <2> HIDE DEF c
    <2>4. [i \in DOMAIN c |-> f[c[i]]] = [i \in DOMAIN c |-> g[c[i]]]
        BY <2>3
    <2>5. WriteStep(f, x) = WriteStep(g, x)
        BY <2>4 DEF WriteStep, c
    <2>6. CanonicalStep(f, x) = CanonicalStep(g, x)
        BY <2>4 DEF CanonicalStep, c
    <2> QED BY <1>3, <2>5, <2>6 DEF Along
<1> QED BY <1>1, <1>2, <1>3

(* There is a function with the equation of MembersOK, ReadMember, ...        *)
LEMMA AlongExists ==
    ASSUME NEW w, NEW top \in Nat
    PROVE  \E f : f = [x \in LevelOf(w, top) |-> Along(w, f, x)]
<1> DEFINE Is(d, f) == f = [x \in LevelOf(w, d) |-> f[x]] /\ \A x \in LevelOf(w, d) : f[x] = Along(w, f, x)
           T == {d \in Nat : \E f : Is(d, f)}
<1>1. 0 \in T
    <2> DEFINE f == [x \in LevelOf(w, 0) |-> Along(w, <<>>, x)]
    <2>1. ASSUME NEW x \in LevelOf(w, 0) PROVE f[x] = Along(w, f, x)
        <3>1. f[x] = Along(w, <<>>, x)  OBVIOUS
        <3> HIDE DEF f
        <3>2. Along(w, <<>>, x) = Along(w, f, x)
            BY AlongDeeper
        <3> QED BY <3>1, <3>2
    <2>2. f = [x \in LevelOf(w, 0) |-> f[x]]  OBVIOUS
    <2> HIDE DEF f
    <2>3. Is(0, f)  BY <2>1, <2>2
    <2> QED BY <2>3
<1>2. ASSUME NEW d \in Nat, d \in T PROVE d + 1 \in T
    <2>1. PICK g : Is(d, g)
        BY <1>2
    <2> DEFINE f == [x \in LevelOf(w, d + 1) |-> Along(w, g, x)]
    <2>2. f = [x \in LevelOf(w, d + 1) |-> f[x]] /\ \A x \in LevelOf(w, d + 1) : f[x] = Along(w, g, x)
        OBVIOUS
    <2> HIDE DEF f
    <2>3. \A y \in LevelOf(w, d) : g[y] = f[y]
        BY <2>1, <2>2, LevelOfGrows
    <2>4. ASSUME NEW x \in LevelOf(w, d + 1) PROVE Along(w, g, x) = Along(w, f, x)
        <3>1. d + 1 \in Nat /\ (d + 1) - 1 = d  OBVIOUS
        <3>2. \A y : d + 1 # 0 /\ y \in LevelOf(w, (d + 1) - 1) => g[y] = f[y]
            BY <3>1, <2>3
        <3> QED BY <3>1, <3>2, AlongDeeper
    <2>5. Is(d + 1, f)
        BY <2>2, <2>4
    <2> QED BY <2>5
<1>3. Nat \subseteq T
    <2> HIDE DEF T
    <2> QED BY <1>1, <1>2, Induction
<1>4. PICK f : Is(top, f)
    BY <1>3
<1> DEFINE A(x) == f[x]
           B(x) == Along(w, f, x)
           S == LevelOf(w, top)
<1>5. \A x \in S : A(x) = B(x)
    BY <1>4
<1>6. f = [x \in S |-> A(x)]
    BY <1>4
<1> HIDE DEF A, B, S
<1>7. [x \in S |-> A(x)] = [x \in S |-> B(x)]
    BY <1>5
<1>8. f = [x \in S |-> B(x)]
    BY <1>6, <1>7
<1> QED BY <1>8 DEF B, S

LEMMA DepthIsNat == Depth \in Nat /\ 2 * Depth + 8 \in Nat
BY TextsAssumption

(* So each of the four satisfies its equation.                                *)
LEMMA MembersOKIs == ASSUME NEW n \in Trees PROVE MembersOK[n] = OKStep(MembersOK, n)
<1> DEFINE Body(f) == [x \in Trees |-> OKStep(f, x)]
<1>1. MembersOK = CHOOSE f : f = Body(f)
    BY Zenon DEF MembersOK, OKStep, MemberKeys
<1>2. PICK f : f = [x \in LevelOf("ok", 2 * Depth + 8) |-> Along("ok", f, x)]
    BY AlongExists, DepthIsNat
<1>3. f = Body(f)
    BY <1>2 DEF LevelOf, Along, Trees
<1> HIDE DEF Body
<1>4. MembersOK = Body(MembersOK)
    BY <1>1, <1>3
<1> QED BY <1>4 DEF Body

LEMMA ReadMemberIs ==
    ASSUME NEW e \in [key : STRING, val : Trees] PROVE ReadMember[e] = ReadStep(ReadMember, e)
<1> DEFINE Body(f) == [x \in [key : STRING, val : Trees] |-> ReadStep(f, x)]
<1>1. ReadMember = CHOOSE f : f = Body(f)
    BY Zenon DEF ReadMember, ReadStep, Each
<1>2. PICK f : f = [x \in LevelOf("read", 2 * Depth + 8) |-> Along("read", f, x)]
    BY AlongExists, DepthIsNat
<1>3. f = Body(f)
    BY <1>2 DEF LevelOf, Along, Trees
<1> HIDE DEF Body
<1>4. ReadMember = Body(ReadMember)
    BY <1>1, <1>3
<1> QED BY <1>4 DEF Body

LEMMA WriteMemberIs == ASSUME NEW mem \in Members PROVE WriteMember[mem] = WriteStep(WriteMember, mem)
<1> DEFINE Body(f) == [x \in Members |-> WriteStep(f, x)]
<1>1. WriteMember = CHOOSE f : f = Body(f)
    BY Zenon DEF WriteMember, WriteStep, Each, Section, OwnLines
<1>2. PICK f : f = [x \in LevelOf("write", Depth) |-> Along("write", f, x)]
    BY AlongExists, DepthIsNat
<1>3. f = Body(f)
    BY <1>2 DEF LevelOf, Along, Members
<1> HIDE DEF Body
<1>4. WriteMember = Body(WriteMember)
    BY <1>1, <1>3
<1> QED BY <1>4 DEF Body

LEMMA CanonicalIs == ASSUME NEW mem \in Members PROVE Canonical[mem] = CanonicalStep(Canonical, mem)
<1> DEFINE Body(f) == [x \in Members |-> CanonicalStep(f, x)]
<1>1. Canonical = CHOOSE f : f = Body(f)
    BY Zenon DEF Canonical, CanonicalStep, Each
<1>2. PICK f : f = [x \in LevelOf("canonical", Depth) |-> Along("canonical", f, x)]
    BY AlongExists, DepthIsNat
<1>3. f = Body(f)
    BY <1>2 DEF LevelOf, Along, Members
<1> HIDE DEF Body
<1>4. Canonical = Body(Canonical)
    BY <1>1, <1>3
<1> QED BY <1>4 DEF Body

-------------------------------------------------------------------------------
(* What is made of a sequence item by item.                                   *)
LEMMA ItemwiseIs ==
    ASSUME NEW s, IsSeq(s), NEW f, f = [i \in DOMAIN s |-> f[i]]
    PROVE  /\ IsSeq(f) /\ Len(f) = Len(s) /\ DOMAIN f = DOMAIN s
           /\ f = <<>> <=> s = <<>>
           /\ \A S : (\A i \in DOMAIN s : f[i] \in S) => f \in Seq(S)
           /\ \A x \in In(f) : \E i \in DOMAIN s : x = f[i]
           /\ \A i \in DOMAIN s : s[i] \in In(s) /\ f[i] \in In(f)
<1>1. Len(s) \in Nat /\ DOMAIN s = 1 .. Len(s) /\ (s = <<>> <=> Len(s) = 0)
    BY SequenceFacts
<1>2. f = [i \in 1 .. Len(s) |-> f[i]] /\ DOMAIN f = 1 .. Len(s)
    BY <1>1
<1>3. IsSeq(f) /\ Len(f) = Len(s)
    BY <1>1, <1>2, SequenceIs
<1>4. f = <<>> <=> Len(f) = 0
    BY <1>3, SequenceFacts
<1>5. ASSUME NEW S, \A i \in DOMAIN s : f[i] \in S PROVE f \in Seq(S)
    <2>1. f \in [1 .. Len(s) -> S]
        BY <1>1, <1>2, <1>5
    <2> QED BY <1>1, <2>1
<1> QED BY <1>1, <1>2, <1>3, <1>4, <1>5 DEF In

-------------------------------------------------------------------------------
(* Trees from their parts.                                                    *)
LEMMA TreeFrom ==
    ASSUME NEW d \in Nat, NEW b, TreesTo[d] = TreesOver(b), NEW k \in Kinds, NEW t \in STRING,
           NEW es \in Seq([key : STRING, val : b]), NEW is \in Seq(b)
    PROVE  [kind |-> k, value |-> t, entries |-> es, items |-> is] \in TreesTo[d]
<1> DEFINE A == Seq([key : STRING, val : b])
           B == Seq(b)
<1>1. es \in A /\ is \in B  OBVIOUS
<1> HIDE DEF A, B
<1>2. [kind |-> k, value |-> t, entries |-> es, items |-> is]
      \in [kind : Kinds, value : STRING, entries : A, items : B]
    BY <1>1
<1> QED BY <1>2 DEF A, B, TreesOver

(* A level of trees is made of some level below.                              *)
LEMMA TreesBelow ==
    ASSUME NEW d \in Nat
    PROVE  \E b : TreesTo[d] = TreesOver(b) /\ \A e : d # 0 => TreesTo[d] = TreesOver(TreesTo[d - 1])
<1>1. CASE d = 0  BY <1>1, TreesToIs
<1>2. CASE d # 0
    <2>1. d - 1 \in Nat /\ (d - 1) + 1 = d  BY <1>2
    <2> QED BY <2>1, TreesToIs
<1> QED BY <1>1, <1>2

LEMMA ScalarIsTree == ASSUME NEW d \in Nat, NEW t \in STRING PROVE Scalar(t) \in TreesTo[d]
<1>1. PICK b : TreesTo[d] = TreesOver(b)  BY TreesBelow
<1>2. "scalar" \in Kinds /\ <<>> \in Seq(b) /\ <<>> \in Seq([key : STRING, val : b])
    BY DEF Kinds
<1> QED BY <1>1, <1>2, TreeFrom DEF Scalar

LEMMA EmptyString == "" \in STRING
BY WordsAssumption

LEMMA MappingIsTree ==
    ASSUME NEW d \in Nat, NEW s, IsSeq(s),
           \A e \in In(s) : e = Pair(e.key, e.val) /\ e.key \in STRING /\ e.val \in TreesTo[d]
    PROVE  Mapping(s) \in TreesTo[d + 1]
<1> DEFINE b == TreesTo[d]
           P == [key : STRING, val : b]
<1>1. TreesTo[d + 1] = TreesOver(b) /\ d + 1 \in Nat  BY TreesToIs
<1>2. \A e \in In(s) : e \in P
    <2> HIDE DEF b
    <2>1. \A e \in In(s) : e = Pair(e.key, e.val) /\ e.key \in STRING /\ e.val \in b
        BY DEF b
    <2> QED BY <2>1 DEF Pair
<1> HIDE DEF P, b
<1>3. s \in Seq(P)
    <2> DEFINE S == In(s)
    <2>1. s \in Seq(S) /\ S \subseteq P  BY <1>2 DEF IsSeq
    <2> HIDE DEF S
    <2> QED BY <2>1
<1>6. "mapping" \in Kinds /\ <<>> \in Seq(b)
    BY DEF Kinds
<1>4. "mapping" \in Kinds /\ "" \in STRING /\ <<>> \in Seq(b)
    BY <1>6, EmptyString
<1>5. s \in Seq([key : STRING, val : b])  BY <1>3 DEF P
<1> QED BY <1>1, <1>4, <1>5, TreeFrom DEF Mapping

LEMMA ListIsTree ==
    ASSUME NEW d \in Nat, NEW s, IsSeq(s), \A x \in In(s) : x \in TreesTo[d]
    PROVE  List(s) \in TreesTo[d + 1]
<1> DEFINE b == TreesTo[d]
<1>1. TreesTo[d + 1] = TreesOver(b) /\ d + 1 \in Nat  BY TreesToIs
<1>2. \A x \in In(s) : x \in b  OBVIOUS
<1> HIDE DEF b
<1>3. s \in Seq(b)
    <2> DEFINE S == In(s)
    <2>1. s \in Seq(S) /\ S \subseteq b  BY <1>2 DEF IsSeq
    <2> HIDE DEF S
    <2> QED BY <2>1
<1>6. "sequence" \in Kinds /\ <<>> \in Seq([key : STRING, val : b])
    BY DEF Kinds
<1>4. "sequence" \in Kinds /\ "" \in STRING /\ <<>> \in Seq([key : STRING, val : b])
    BY <1>6, EmptyString
<1> QED BY <1>1, <1>3, <1>4, TreeFrom DEF List

-------------------------------------------------------------------------------
(* What Parse reads.                                                          *)
LEMMA ValueIs ==
    ASSUME NEW d \in Nat, NEW n \in TreesTo[d], NEW k, NEW default \in STRING
    PROVE  Value(n, k, default) \in STRING
<1> DEFINE v == At(n, k, Scalar(default))
<1>0. d # 0 => d - 1 \in Nat  OBVIOUS
<1>1. v = Scalar(default) \/ (d - 1 \in Nat /\ v \in TreesTo[d - 1])
    BY <1>0, FoundIs
<1> HIDE DEF v
<1>2. v = Scalar(default) => v.value = default
    BY DEF Scalar
<1>3. d - 1 \in Nat /\ v \in TreesTo[d - 1] => v.value \in STRING
    BY PartsOfTree
<1> QED BY <1>1, <1>2, <1>3 DEF Value, v

(* Documentation that was read is clean: cleaning it again changes nothing.   *)
LEMMA CleanDocIs ==
    ASSUME NEW d \in Nat, NEW n \in TreesTo[d]
    PROVE  CleanDoc(n) \in STRING \ DOMAIN Cleaned
<1>1. Value(n, "doc", "") \in STRING
    BY ValueIs, WordsAssumption
<1> QED BY <1>1, StringsAssumption DEF CleanDoc

(* The items under a key are trees.                                           *)
LEMMA ItemsAre ==
    ASSUME NEW d \in Nat, NEW n \in TreesTo[d], NEW k
    PROVE  /\ IsSeq(At(n, k, List(<<>>)).items)
           /\ \A x \in In(At(n, k, List(<<>>)).items) : \E c \in Nat : x \in TreesTo[c]
<1> DEFINE v == At(n, k, List(<<>>))
<1>1. v = List(<<>>) \/ (d - 1 \in Nat /\ v \in TreesTo[d - 1])
    BY FoundIs
<1> HIDE DEF v
<1>2. CASE v = List(<<>>)
    <2>1. v.items = <<>>  BY <1>2 DEF List
    <2> QED BY <2>1, EmptyIs DEF v
<1>3. CASE d - 1 \in Nat /\ v \in TreesTo[d - 1]
    <2>1. IsSeq(v.items) /\ \A x \in In(v.items) : d - 1 # 0 /\ x \in TreesTo[(d - 1) - 1]
        BY <1>3, PartsOfTree
    <2>2. d - 1 # 0 => (d - 1) - 1 \in Nat  BY <1>3
    <2> QED BY <2>1, <2>2 DEF v
<1> QED BY <1>1, <1>2, <1>3

(* Arguments that are read are arguments.                                     *)
LEMMA ReadArgumentsIs ==
    ASSUME NEW d \in Nat, NEW n \in TreesTo[d], NEW k
    PROVE  ReadArguments(n, k) \in Seq(Arguments)
<1> DEFINE s == At(n, k, List(<<>>)).items
           f == ReadArguments(n, k)
<1>1. IsSeq(s) /\ \A x \in In(s) : \E c \in Nat : x \in TreesTo[c]
    BY ItemsAre
<1>2. f = [i \in DOMAIN s |-> ReadArgument(s[i])]
    BY DEF ReadArguments, Each
<1> HIDE DEF s, f
<1>3. ASSUME NEW i \in DOMAIN s PROVE f[i] \in Arguments
    <2>1. s[i] \in In(s)  BY DEF In
    <2>2. PICK c \in Nat : s[i] \in TreesTo[c]  BY <1>1, <2>1
    <2>3. Value(s[i], "name", "") \in STRING /\ Value(s[i], "type", "") \in STRING
        BY <2>2, ValueIs, WordsAssumption
    <2>4. ReadArgument(s[i]) \in Arguments
        BY <2>3 DEF ReadArgument, Arguments
    <2> QED BY <1>2, <2>4
<1>4. f = [i \in DOMAIN s |-> f[i]]
    BY <1>2
<1>5. f \in Seq(Arguments)
    BY <1>1, <1>3, <1>4, ItemwiseIs
<1> QED BY <1>5 DEF f

(* How a member's key is read.                                                *)
Keyed(name, suffix) ==
    \/ suffix = "" /\ name \notin DOMAIN Suffixed
    \/ suffix # "" /\ \E k \in DOMAIN Suffixed : Suffixed[k] = <<name, suffix>>

(* A record with the fields of a member is one.                               *)
LEMMA MemberFrom ==
    ASSUME NEW d \in Nat, NEW b, MembersTo[d] = MembersOver(b), NEW mem,
           mem = [name |-> mem.name, suffix |-> mem.suffix, kind |-> mem.kind, type |-> mem.type,
                  rule |-> mem.rule, access |-> mem.access, unit |-> mem.unit, doc |-> mem.doc,
                  in |-> mem.in, out |-> mem.out, children |-> mem.children],
           mem.name \in STRING, mem.suffix \in STRING, mem.kind \in STRING, mem.type \in STRING,
           mem.rule \in STRING, mem.access \in STRING, mem.unit \in STRING, mem.doc \in STRING,
           mem.in \in Seq(Arguments), mem.out \in Seq(Arguments), mem.children \in Seq(b)
    PROVE  mem \in MembersTo[d]
<1> DEFINE A == Seq(Arguments)
           B == Seq(b)
<1>1. mem.in \in A /\ mem.out \in A /\ mem.children \in B  OBVIOUS
<1> HIDE DEF A, B
<1>2. mem \in [name : STRING, suffix : STRING, kind : STRING, type : STRING, rule : STRING,
               access : STRING, unit : STRING, doc : STRING, in : A, out : A, children : B]
    BY <1>1
<1> QED BY <1>2 DEF A, B, MembersOver

(* The equation of ReadMember at a given depth.                               *)
LEMMA ReadMemberStep ==
    ASSUME NEW d \in Nat, d <= 2 * Depth + 8, NEW e \in [key : STRING, val : TreesTo[d]]
    PROVE  ReadMember[e] = ReadStep(ReadMember, e)
<1> DEFINE top == 2 * Depth + 8
           A == TreesTo[d]
           B == TreesTo[top]
<1>1. top - d \in Nat /\ d + (top - d) = top
    BY DepthIsNat
<1>2. A \subseteq B
    <2> HIDE DEF top
    <2> QED BY <1>1, Deeper
<1>3. e \in [key : STRING, val : B]
    <2> HIDE DEF A, B
    <2>1. e \in [key : STRING, val : A]  BY DEF A
    <2> QED BY <1>2, <2>1
<1> QED BY <1>3, ReadMemberIs DEF Trees

(* The name and the suffix of a key.                                          *)
LEMMA KeyIsRead ==
    ASSUME NEW k \in STRING
    PROVE  LET name == IF k \in DOMAIN Suffixed THEN Suffixed[k][1] ELSE k
               suffix == IF k \in DOMAIN Suffixed THEN Suffixed[k][2] ELSE ""
           IN  name \in STRING /\ suffix \in STRING /\ Keyed(name, suffix)
<1>1. CASE k \in DOMAIN Suffixed
    <2> DEFINE p == Suffixed[k]
               R == STRING \ {""}
    <2>1. p \in STRING \X R
        BY <1>1, StringsAssumption
    <2> HIDE DEF p, R
    <2>3. p[1] \in STRING /\ p[2] \in R /\ p = <<p[1], p[2]>>
        BY <2>1
    <2>2. Suffixed[k][1] \in STRING /\ Suffixed[k][2] \in STRING \ {""}
          /\ Suffixed[k] = <<Suffixed[k][1], Suffixed[k][2]>>
        BY <2>3 DEF p, R
    <2> QED BY <1>1, <2>2 DEF Keyed
<1>2. CASE k \notin DOMAIN Suffixed
    BY <1>2, WordsAssumption DEF Keyed
<1> QED BY <1>1, <1>2

(* Reading a tree of depth d gives a member of depth d.                       *)
LEMMA ReadMemberTyped ==
    \A d \in Nat : d <= 2 * Depth + 8 =>
        \A e \in [key : STRING, val : TreesTo[d]] : ReadMember[e] \in MembersTo[d]
<1> DEFINE P(d) == d <= 2 * Depth + 8 =>
                       \A e \in [key : STRING, val : TreesTo[d]] : ReadMember[e] \in MembersTo[d]
           T == {d \in Nat : P(d)}
<1>1. ASSUME NEW d \in Nat, d <= 2 * Depth + 8, NEW e \in [key : STRING, val : TreesTo[d]],
             d # 0 => d - 1 \in T
      PROVE  ReadMember[e] \in MembersTo[d]
    <2> DEFINE b == IF d = 0 THEN {} ELSE MembersTo[d - 1]
               c == Children(e.val, "children")
               f == [i \in DOMAIN c |-> ReadMember[c[i]]]
    <2>1. MembersTo[d] = MembersOver(b)
        <3>1. CASE d = 0  BY <3>1, MembersToIs
        <3>2. CASE d # 0
            <4>1. d - 1 \in Nat /\ (d - 1) + 1 = d  BY <3>2
            <4> QED BY <3>2, <4>1, MembersToIs
        <3> QED BY <3>1, <3>2
    <2>2. e.val \in TreesTo[d] /\ e.key \in STRING
        OBVIOUS
    <2>3. IsSeq(c) /\ \A x \in In(c) : x = Pair(x.key, x.val) /\ x.key \in STRING /\ d # 0 /\ x.val \in TreesTo[d - 1]
        BY <2>2, ChildrenAre
    <2>4. ASSUME NEW i \in DOMAIN c PROVE f[i] \in b
        <3>1. c[i] \in In(c)  BY DEF In
        <3> HIDE DEF c
        <3>2. c[i] \in [key : STRING, val : TreesTo[d - 1]] /\ d # 0
            BY <2>3, <3>1 DEF Pair
        <3>3. d - 1 \in Nat /\ d - 1 <= 2 * Depth + 8
            BY <1>1, <3>2, DepthIsNat
        <3>4. ReadMember[c[i]] \in MembersTo[d - 1]
            BY <1>1, <3>2, <3>3
        <3> QED BY <3>2, <3>4
    <2>5. f = [i \in DOMAIN c |-> f[i]]
        OBVIOUS
    <2>6. f \in Seq(b)
        <3> HIDE DEF f, c, b
        <3> QED BY <2>3, <2>4, <2>5, ItemwiseIs
    <2>7. /\ Value(e.val, "kind", "variable") \in STRING /\ Value(e.val, "type", "") \in STRING
          /\ Value(e.val, "rule", "mandatory") \in STRING /\ Value(e.val, "access", "r") \in STRING
          /\ Value(e.val, "unit", "") \in STRING /\ CleanDoc(e.val) \in STRING
        BY <2>2, ValueIs, CleanDocIs, WordsAssumption
    <2>8. ReadArguments(e.val, "in") \in Seq(Arguments) /\ ReadArguments(e.val, "out") \in Seq(Arguments)
        BY <2>2, ReadArgumentsIs
    <2> DEFINE name == IF e.key \in DOMAIN Suffixed THEN Suffixed[e.key][1] ELSE e.key
               suffix == IF e.key \in DOMAIN Suffixed THEN Suffixed[e.key][2] ELSE ""
    <2>9. name \in STRING /\ suffix \in STRING
        BY <2>2, KeyIsRead
    <2>10. ReadMember[e] = ReadStep(ReadMember, e)
        BY <1>1, ReadMemberStep
    <2> DEFINE mem == ReadStep(ReadMember, e)
    <2>11. mem =
             [name |-> name, suffix |-> suffix, kind |-> Value(e.val, "kind", "variable"),
              type |-> Value(e.val, "type", ""), rule |-> Value(e.val, "rule", "mandatory"),
              access |-> Value(e.val, "access", "r"), unit |-> Value(e.val, "unit", ""),
              doc |-> CleanDoc(e.val), in |-> ReadArguments(e.val, "in"),
              out |-> ReadArguments(e.val, "out"), children |-> f]
        BY DEF ReadStep
    <2> HIDE DEF name, suffix, f, b, c, mem
    <2>12. /\ mem = [name |-> mem.name, suffix |-> mem.suffix, kind |-> mem.kind, type |-> mem.type,
                     rule |-> mem.rule, access |-> mem.access, unit |-> mem.unit, doc |-> mem.doc,
                     in |-> mem.in, out |-> mem.out, children |-> mem.children]
           /\ mem.name \in STRING /\ mem.suffix \in STRING /\ mem.kind \in STRING
           /\ mem.type \in STRING /\ mem.rule \in STRING /\ mem.access \in STRING
           /\ mem.unit \in STRING /\ mem.doc \in STRING
           /\ mem.in \in Seq(Arguments) /\ mem.out \in Seq(Arguments) /\ mem.children \in Seq(b)
        <3>1. /\ mem = [name |-> mem.name, suffix |-> mem.suffix, kind |-> mem.kind, type |-> mem.type,
                       rule |-> mem.rule, access |-> mem.access, unit |-> mem.unit, doc |-> mem.doc,
                       in |-> mem.in, out |-> mem.out, children |-> mem.children]
              /\ mem.name = name /\ mem.suffix = suffix /\ mem.kind = Value(e.val, "kind", "variable")
              /\ mem.type = Value(e.val, "type", "") /\ mem.rule = Value(e.val, "rule", "mandatory")
              /\ mem.access = Value(e.val, "access", "r") /\ mem.unit = Value(e.val, "unit", "")
              /\ mem.doc = CleanDoc(e.val) /\ mem.in = ReadArguments(e.val, "in")
              /\ mem.out = ReadArguments(e.val, "out") /\ mem.children = f
            BY <2>11
        <3> QED BY <3>1, <2>6, <2>7, <2>8, <2>9
    <2>13. mem \in MembersTo[d]
        BY <2>1, <2>12, MemberFrom
    <2> QED BY <2>10, <2>13 DEF mem
<1>2. 0 \in T
    BY <1>1
<1>3. ASSUME NEW d \in Nat, d \in T PROVE d + 1 \in T
    <2>1. d + 1 \in Nat /\ (d + 1) - 1 = d  OBVIOUS
    <2>2. d + 1 # 0 => (d + 1) - 1 \in T  BY <1>3, <2>1
    <2>3. P(d + 1)
        BY <1>1, <2>1, <2>2
    <2> HIDE DEF P
    <2> QED BY <2>1, <2>3
<1>4. Nat \subseteq T
    <2> HIDE DEF T
    <2> QED BY <1>2, <1>3, Induction
<1> QED BY <1>4

-------------------------------------------------------------------------------
(* What Format writes, as it is read.                                         *)
LEMMA ScalarIs == ASSUME NEW t PROVE Scalar(t).value = t /\ Scalar(t).kind = "scalar" /\ Scalar(t) # Garbled
BY DEF Scalar, Garbled
LEMMA MappingIs == ASSUME NEW s
    PROVE Mapping(s).entries = s /\ Mapping(s).kind = "mapping" /\ Mapping(s).value = "" /\ Mapping(s) # Garbled
BY DEF Mapping, Garbled
LEMMA ListIs == ASSUME NEW s
    PROVE List(s).items = s /\ List(s).kind = "sequence" /\ List(s).value = "" /\ List(s) # Garbled
BY DEF List, Garbled

(* What is written of a string, if it can be read, is read as that string.    *)
LEMMA PlainIs == ASSUME NEW t
    PROVE (Plain(t) # Garbled => Plain(t) = Scalar(t)) /\ (Quoted(t) # Garbled => Quoted(t) = Scalar(t))
          /\ (Item(t) # Garbled => Item(t) = Scalar(t))
BY DEF Plain, Quoted, Item

(* A block that can be read has only lines that can be read.                  *)
LEMMA BracesIs == ASSUME NEW s
    PROVE /\ Braces(s) # Garbled => Clean(s) /\ Braces(s) = Mapping(s)
          /\ Block(s) # Garbled => Clean(s) /\ Block(s) = IF s = <<>> THEN Scalar("") ELSE Mapping(s)
          /\ Listed(s) # Garbled => (\A x \in In(s) : x # Garbled) /\ Listed(s) = List(s)
<1>1. In(<<>>) = {}  BY EmptyIs
<1> QED BY <1>1 DEF Braces, Block, Listed, Clean

(* Blocks line by line.                                                       *)
LEMMA LineIfIs == ASSUME NEW c \in BOOLEAN, NEW k, NEW n, NEW s, IsSeq(s)
    PROVE  /\ IsSeq(LineIf(c, k, n)) /\ <<>> \o LineIf(c, k, n) = LineIf(c, k, n)
           /\ IsSeq(s \o LineIf(c, k, n)) /\ <<Line(k, n)>> = LineIf(TRUE, k, n)
<1> DEFINE t == LineIf(c, k, n)
<1>1. IsSeq(t)
    BY EmptyIs, SingletonIs DEF LineIf
<1>2. <<>> \o t = t
    <2> DEFINE S == In(t)
    <2>1. t \in Seq(S)  BY <1>1 DEF IsSeq
    <2> HIDE DEF S, t
    <2> QED BY <2>1
<1>3. IsSeq(s \o t)
    <2> HIDE DEF t
    <2> QED BY <1>1, ConcatIs
<1>4. <<Line(k, n)>> = LineIf(TRUE, k, n)
    BY DEF LineIf
<1> QED BY <1>1, <1>2, <1>3, <1>4

(* A block starts with its first line.                                        *)
LEMMA FirstLine == ASSUME NEW c \in BOOLEAN, NEW k, NEW n, Clean(LineIf(c, k, n))
    PROVE  Longer(<<>>, c, k, n, LineIf(c, k, n))
<1> DEFINE t == LineIf(c, k, n)
<1>1. IsSeq(<<>>)  BY EmptyIs
<1>2. <<>> \o LineIf(c, k, n) = LineIf(c, k, n)  BY <1>1, LineIfIs
<1>3. Clean(<<>> \o LineIf(c, k, n))  BY <1>2
<1>4. Longer(<<>>, c, k, n, <<>> \o LineIf(c, k, n))
    BY <1>1, <1>3, LongerIs
<1> QED BY <1>2, <1>4

(* Nothing is in a block without lines.                                       *)
LEMMA NoLines ==
    /\ \A q, d : At(Mapping(<<>>), q, d) = d
    /\ \A q, v : v \notin Under(Mapping(<<>>), q)
    /\ Keys(Mapping(<<>>)) = {}
    /\ \A e : e \notin In(<<>>)
<1>1. Mapping(<<>>).entries = <<>> /\ In(<<>>) = {} /\ IsSeq(<<>>)
    BY MappingIs, EmptyIs
<1>2. Keys(Mapping(<<>>)) = {}
    BY <1>1, KeysIs
<1>3. \A q, v : v \notin Under(Mapping(<<>>), q)
    BY <1>1, UnderIs
<1>4. \A q, d : At(Mapping(<<>>), q, d) = d
    BY <1>1, <1>2, AtIs
<1> QED BY <1>1, <1>2, <1>3, <1>4

LEMMA JoinedIs == ASSUME NEW x, NEW y PROVE <<x>> \o <<y>> = <<x, y>>
<1> DEFINE a == <<x>>
           b == <<y>>
           u == a \o b
           v == <<x, y>>
<1>1. IsSeq(a) /\ Len(a) = 1 /\ a[1] = x /\ IsSeq(b) /\ Len(b) = 1 /\ b[1] = y
    BY SingletonIs
<1>2. v \in Seq({x, y}) /\ Len(v) = 2 /\ v[1] = x /\ v[2] = y
    OBVIOUS
<1> HIDE DEF a, b, v
<1>3. IsSeq(u) /\ Len(u) = 2 /\ u[1] = x /\ u[1 + 1] = y
    BY <1>1, ConcatIs
<1> HIDE DEF u
<1>4. IsSeq(v)  BY <1>2, SequenceOf
<1>5. u = [i \in 1 .. 2 |-> u[i]] /\ v = [i \in 1 .. 2 |-> v[i]]
    BY <1>2, <1>3, <1>4, SequenceFacts
<1>6. \A i \in 1 .. 2 : u[i] = v[i]
    BY <1>2, <1>3
<1>7. u = v
    BY <1>5, <1>6
<1> QED BY <1>7 DEF u, v, a, b

(* Arguments.                                                                 *)
LEMMA TwoLines ==
    ASSUME NEW j, NEW m, NEW k, NEW n, Clean(<<Line(j, m), Line(k, n)>>)
    PROVE  \E s : Longer(<<>>, TRUE, j, m, s) /\ Longer(s, TRUE, k, n, <<Line(j, m), Line(k, n)>>)
<1> DEFINE s == LineIf(TRUE, j, m)
           t == LineIf(TRUE, k, n)
           u == <<Line(j, m), Line(k, n)>>
<1>1. IsSeq(s) /\ s = <<Line(j, m)>> /\ t = <<Line(k, n)>>
    BY EmptyIs, LineIfIs
<1>2. s \o t = u
    <2>1. \A x, y : <<x>> \o <<y>> = <<x, y>>  BY JoinedIs
    <2> HIDE DEF s, t
    <2> QED BY <1>1, <2>1
<1>3. Longer(s, TRUE, k, n, u)
    <2>1. Clean(s \o t)  BY <1>2
    <2>2. Longer(s, TRUE, k, n, s \o t)
        <3> HIDE DEF s
        <3> QED BY <1>1, <2>1, LongerIs
    <2> QED BY <1>2, <2>2
<1>4. Clean(s)
    BY <1>3 DEF Longer
<1>5. Longer(<<>>, TRUE, j, m, s)
    BY <1>4, FirstLine
<1> QED BY <1>3, <1>5

(* An argument is accepted, and read as it was written.                       *)
LEMMA ArgumentIs ==
    ASSUME NEW a \in Arguments, WriteArgument(a) # Garbled
    PROVE  /\ WriteArgument(a) \in TreesTo[1] /\ MapOf(WriteArgument(a), {"name", "type"})
           /\ ReadArgument(WriteArgument(a)) = a
<1> DEFINE u == <<Line("name", Plain(a.name)), Line("type", Plain(a.type))>>
           n == WriteArgument(a)
<1>1. Clean(u) /\ n = Mapping(u)
    <2>1. n = Braces(u)  BY DEF WriteArgument
    <2> HIDE DEF u, n
    <2>2. n # Garbled  BY DEF n
    <2> QED BY <2>1, <2>2, BracesIs
<1>2. PICK s : Longer(<<>>, TRUE, "name", Plain(a.name), s) /\ Longer(s, TRUE, "type", Plain(a.type), u)
    BY <1>1, TwoLines
<1> HIDE DEF u, n
<1>3. Plain(a.name) = Scalar(a.name) /\ Plain(a.type) = Scalar(a.type)
    <2>1. Plain(a.name) # Garbled /\ Plain(a.type) # Garbled
        BY <1>2 DEF Longer
    <2> QED BY <2>1, PlainIs
<1>4. At(n, "name", Scalar("")) = Scalar(a.name) /\ At(n, "type", Scalar("")) = Scalar(a.type)
    BY <1>1, <1>2, <1>3 DEF Longer
<1>5. ReadArgument(n) = [name |-> a.name, type |-> a.type]
    BY <1>4, ScalarIs DEF ReadArgument, Value
<1>6. [name |-> a.name, type |-> a.type] = a /\ a.name \in STRING /\ a.type \in STRING
    BY DEF Arguments
<1>7. Keys(n) \subseteq {"name", "type"} /\ n.kind = "mapping"
    BY <1>1, <1>2, NoLines, MappingIs DEF Longer
<1>8. \A e \in In(u) : e = Pair("name", Scalar(a.name)) \/ e = Pair("type", Scalar(a.type))
    BY <1>2, <1>3, NoLines DEF Longer
<1>9. \A e \in In(u) : e = Pair(e.key, e.val) /\ e.key \in STRING /\ e.val \in TreesTo[0]
    <2>1. Scalar(a.name) \in TreesTo[0] /\ Scalar(a.type) \in TreesTo[0]
        BY <1>6, ScalarIsTree
    <2>2. "name" \in STRING /\ "type" \in STRING
        BY WordsAssumption
    <2> QED BY <1>8, <2>1, <2>2 DEF Pair
<1>10. IsSeq(u)  BY <1>2 DEF Longer
<1>11. n \in TreesTo[0 + 1]
    BY <1>1, <1>9, <1>10, MappingIsTree
<1> QED BY <1>5, <1>6, <1>7, <1>11 DEF n, MapOf

ArgumentList(args) == Listed(Each(args, WriteArgument))

(* So are the arguments of a method.                                          *)
LEMMA ArgumentLinesIs ==
    ASSUME NEW args \in Seq(Arguments), ArgumentList(args) # Garbled
    PROVE  /\ ArgumentList(args) \in TreesTo[2] /\ ArgumentsOK(ArgumentList(args))
           /\ Each(ArgumentList(args).items, ReadArgument) = args
<1> DEFINE f == Each(args, WriteArgument)
           n == ArgumentList(args)
<1>1. IsSeq(args) /\ DOMAIN args = 1 .. Len(args) /\ Len(args) \in Nat /\ \A i \in DOMAIN args : args[i] \in Arguments
    BY SequenceOf
<1>2. f = [i \in DOMAIN args |-> f[i]] /\ \A i \in DOMAIN args : f[i] = WriteArgument(args[i])
    BY DEF Each
<1>3. (\A x \in In(f) : x # Garbled) /\ n = List(f)
    <2>1. n = Listed(f) /\ n # Garbled  BY DEF ArgumentList
    <2> HIDE DEF f, n
    <2> QED BY <2>1, BracesIs
<1> HIDE DEF f, n
<1>4. IsSeq(f) /\ DOMAIN f = DOMAIN args /\ (\A x \in In(f) : \E i \in DOMAIN args : x = f[i])
      /\ \A i \in DOMAIN args : f[i] \in In(f)
    <2>1. IsSeq(args) /\ f = [i \in DOMAIN args |-> f[i]]  BY <1>1, <1>2
    <2> QED BY <2>1, ItemwiseIs
<1>5. \A i \in DOMAIN args : f[i] \in TreesTo[1] /\ MapOf(f[i], {"name", "type"}) /\ ReadArgument(f[i]) = args[i]
    BY <1>1, <1>2, <1>3, <1>4, ArgumentIs
<1>6. \A x \in In(f) : x \in TreesTo[1] /\ MapOf(x, {"name", "type"})
    BY <1>4, <1>5
<1>7. n.items = f /\ n.kind = "sequence"
    BY <1>3, ListIs
<1>8. n \in TreesTo[1 + 1]
    BY <1>3, <1>4, <1>6, ListIsTree
<1>9. ArgumentsOK(n)
    BY <1>6, <1>7 DEF ArgumentsOK
<1>10. Each(n.items, ReadArgument) = args
    <2>1. Each(n.items, ReadArgument) = [i \in DOMAIN args |-> ReadArgument(f[i])]
        BY <1>4, <1>7 DEF Each
    <2>2. [i \in DOMAIN args |-> ReadArgument(f[i])] = [i \in DOMAIN args |-> args[i]]
        BY <1>5
    <2>3. args = [i \in DOMAIN args |-> args[i]]
        BY <1>1
    <2> QED BY <2>1, <2>2, <2>3
<1> QED BY <1>8, <1>9, <1>10 DEF n

(* The block of a member, given that of the members in it.                    *)
MemberSays(mem, c, n) ==
    /\ Value(n, "kind", "variable") = mem.kind /\ Value(n, "type", "") = mem.type
    /\ Value(n, "rule", "mandatory") = mem.rule
    /\ Value(n, "access", "r") = (IF mem.kind \in {"variable", "property"} THEN mem.access ELSE "r")
    /\ Value(n, "unit", "") = mem.unit /\ Value(n, "doc", "") = mem.doc
    /\ At(n, "in", List(<<>>)) = (IF mem.in = <<>> THEN List(<<>>) ELSE ArgumentList(mem.in))
    /\ At(n, "out", List(<<>>)) = (IF mem.out = <<>> THEN List(<<>>) ELSE ArgumentList(mem.out))
    /\ At(n, "children", Mapping(<<>>)) = (IF mem.children = <<>> THEN Mapping(<<>>) ELSE c)
    /\ Keys(n) \subseteq MemberKeys
    /\ \A v \in Under(n, "in") : mem.in # <<>> /\ v = ArgumentList(mem.in)
    /\ \A v \in Under(n, "out") : mem.out # <<>> /\ v = ArgumentList(mem.out)
    /\ \A v \in Under(n, "children") : mem.children # <<>> /\ v = c
    /\ mem.in # <<>> => ArgumentList(mem.in) # Garbled
    /\ mem.out # <<>> => ArgumentList(mem.out) # Garbled
    /\ mem.children # <<>> => c # Garbled
    /\ IsSeq(n.entries)
    /\ \A e \in In(n.entries) :
         /\ e = Pair(e.key, e.val) /\ e.key \in MemberKeys
         /\ \/ e.val \in {Scalar(t) : t \in {mem.kind, mem.type, mem.rule, mem.access, mem.unit, mem.doc}}
            \/ mem.in # <<>> /\ e.val = ArgumentList(mem.in)
            \/ mem.out # <<>> /\ e.val = ArgumentList(mem.out)
            \/ mem.children # <<>> /\ e.val = c

(* The block of a member says what the member has.                            *)
LEMMA MemberLines ==
    ASSUME NEW mem, NEW c, Clean(OwnLines(mem) \o LineIf(mem.children # <<>>, "children", c))
    PROVE  MemberSays(mem, c, Mapping(OwnLines(mem) \o LineIf(mem.children # <<>>, "children", c)))
<1> DEFINE u == OwnLines(mem) \o LineIf(mem.children # <<>>, "children", c)
           c1 == mem.kind # "variable"
           t1 == LineIf(c1, "kind", Plain(mem.kind))
           s1 == t1
           c2 == mem.type # ""
           t2 == LineIf(c2, "type", Plain(mem.type))
           s2 == s1 \o t2
           c3 == mem.rule # "mandatory"
           t3 == LineIf(c3, "rule", Plain(mem.rule))
           s3 == s2 \o t3
           c4 == (mem.kind \in {"variable", "property"} /\ mem.access # "r")
           t4 == LineIf(c4, "access", Plain(mem.access))
           s4 == s3 \o t4
           c5 == mem.unit # ""
           t5 == LineIf(c5, "unit", Quoted(mem.unit))
           s5 == s4 \o t5
           c6 == mem.doc # ""
           t6 == LineIf(c6, "doc", Quoted(mem.doc))
           s6 == s5 \o t6
           c7 == mem.in # <<>>
           t7 == LineIf(c7, "in", ArgumentList(mem.in))
           s7 == s6 \o t7
           c8 == mem.out # <<>>
           t8 == LineIf(c8, "out", ArgumentList(mem.out))
           s8 == s7 \o t8
           c9 == mem.children # <<>>
           t9 == LineIf(c9, "children", c)
           s9 == s8 \o t9
<1>0. u = s9
    BY DEF OwnLines, InlineFields, ArgumentLines, ArgumentList
<1>00. c1 \in BOOLEAN /\ c2 \in BOOLEAN /\ c3 \in BOOLEAN /\ c4 \in BOOLEAN
       /\ c5 \in BOOLEAN /\ c6 \in BOOLEAN /\ c7 \in BOOLEAN /\ c8 \in BOOLEAN /\ c9 \in BOOLEAN
    OBVIOUS
<1>a1. IsSeq(s1)
    <2>1. IsSeq(<<>>)  BY EmptyIs
    <2> HIDE DEF c1
    <2> QED BY <2>1, <1>00, LineIfIs
<1>a2. IsSeq(s2)
    <2> HIDE DEF s1, c2
    <2> QED BY <1>a1, <1>00, LineIfIs
<1>a3. IsSeq(s3)
    <2> HIDE DEF s2, c3
    <2> QED BY <1>a2, <1>00, LineIfIs
<1>a4. IsSeq(s4)
    <2> HIDE DEF s3, c4
    <2> QED BY <1>a3, <1>00, LineIfIs
<1>a5. IsSeq(s5)
    <2> HIDE DEF s4, c5
    <2> QED BY <1>a4, <1>00, LineIfIs
<1>a6. IsSeq(s6)
    <2> HIDE DEF s5, c6
    <2> QED BY <1>a5, <1>00, LineIfIs
<1>a7. IsSeq(s7)
    <2> HIDE DEF s6, c7
    <2> QED BY <1>a6, <1>00, LineIfIs
<1>a8. IsSeq(s8)
    <2> HIDE DEF s7, c8
    <2> QED BY <1>a7, <1>00, LineIfIs
<1>a9. IsSeq(s9)
    <2> HIDE DEF s8, c9
    <2> QED BY <1>a8, <1>00, LineIfIs
<1>b9. Clean(s9)
    BY <1>0
<1>l9. Longer(s8, c9, "children", c, s9)
    <2> HIDE DEF s8, c9
    <2> QED BY <1>a8, <1>b9, <1>00, LongerIs
<1>b8. Clean(s8)
    BY <1>l9 DEF Longer
<1>l8. Longer(s7, c8, "out", ArgumentList(mem.out), s8)
    <2> HIDE DEF s7, c8
    <2> QED BY <1>a7, <1>b8, <1>00, LongerIs
<1>b7. Clean(s7)
    BY <1>l8 DEF Longer
<1>l7. Longer(s6, c7, "in", ArgumentList(mem.in), s7)
    <2> HIDE DEF s6, c7
    <2> QED BY <1>a6, <1>b7, <1>00, LongerIs
<1>b6. Clean(s6)
    BY <1>l7 DEF Longer
<1>l6. Longer(s5, c6, "doc", Quoted(mem.doc), s6)
    <2> HIDE DEF s5, c6
    <2> QED BY <1>a5, <1>b6, <1>00, LongerIs
<1>b5. Clean(s5)
    BY <1>l6 DEF Longer
<1>l5. Longer(s4, c5, "unit", Quoted(mem.unit), s5)
    <2> HIDE DEF s4, c5
    <2> QED BY <1>a4, <1>b5, <1>00, LongerIs
<1>b4. Clean(s4)
    BY <1>l5 DEF Longer
<1>l4. Longer(s3, c4, "access", Plain(mem.access), s4)
    <2> HIDE DEF s3, c4
    <2> QED BY <1>a3, <1>b4, <1>00, LongerIs
<1>b3. Clean(s3)
    BY <1>l4 DEF Longer
<1>l3. Longer(s2, c3, "rule", Plain(mem.rule), s3)
    <2> HIDE DEF s2, c3
    <2> QED BY <1>a2, <1>b3, <1>00, LongerIs
<1>b2. Clean(s2)
    BY <1>l3 DEF Longer
<1>l2. Longer(s1, c2, "type", Plain(mem.type), s2)
    <2> HIDE DEF s1, c2
    <2> QED BY <1>a1, <1>b2, <1>00, LongerIs
<1>b1. Clean(s1)
    BY <1>l2 DEF Longer
<1>l1. Longer(<<>>, c1, "kind", Plain(mem.kind), s1)
    <2> HIDE DEF c1
    <2> QED BY <1>b1, <1>00, FirstLine
<1> DEFINE n == Mapping(u)
<1> HIDE DEF s1, s2, s3, s4, s5, s6, s7, s8, s9, c1, c2, c3, c4, c5, c6, c7, c8, c9, u
<1>1. /\ c1 => Plain(mem.kind) = Scalar(mem.kind)
      /\ c2 => Plain(mem.type) = Scalar(mem.type)
      /\ c3 => Plain(mem.rule) = Scalar(mem.rule)
      /\ c4 => Plain(mem.access) = Scalar(mem.access)
      /\ c5 => Quoted(mem.unit) = Scalar(mem.unit)
      /\ c6 => Quoted(mem.doc) = Scalar(mem.doc)
    BY <1>l1, <1>l2, <1>l3, <1>l4, <1>l5, <1>l6, <1>l7, <1>l8, <1>l9, PlainIs DEF Longer
<1>v1. \A d : At(Mapping(s9), "kind", d) = IF c1 THEN Plain(mem.kind) ELSE d
    BY <1>l1, <1>l2, <1>l3, <1>l4, <1>l5, <1>l6, <1>l7, <1>l8, <1>l9, NoLines DEF Longer
<1>v2. \A d : At(Mapping(s9), "type", d) = IF c2 THEN Plain(mem.type) ELSE d
    BY <1>l1, <1>l2, <1>l3, <1>l4, <1>l5, <1>l6, <1>l7, <1>l8, <1>l9, NoLines DEF Longer
<1>v3. \A d : At(Mapping(s9), "rule", d) = IF c3 THEN Plain(mem.rule) ELSE d
    BY <1>l1, <1>l2, <1>l3, <1>l4, <1>l5, <1>l6, <1>l7, <1>l8, <1>l9, NoLines DEF Longer
<1>v4. \A d : At(Mapping(s9), "access", d) = IF c4 THEN Plain(mem.access) ELSE d
    BY <1>l1, <1>l2, <1>l3, <1>l4, <1>l5, <1>l6, <1>l7, <1>l8, <1>l9, NoLines DEF Longer
<1>v5. \A d : At(Mapping(s9), "unit", d) = IF c5 THEN Quoted(mem.unit) ELSE d
    BY <1>l1, <1>l2, <1>l3, <1>l4, <1>l5, <1>l6, <1>l7, <1>l8, <1>l9, NoLines DEF Longer
<1>v6. \A d : At(Mapping(s9), "doc", d) = IF c6 THEN Quoted(mem.doc) ELSE d
    BY <1>l1, <1>l2, <1>l3, <1>l4, <1>l5, <1>l6, <1>l7, <1>l8, <1>l9, NoLines DEF Longer
<1>v7. \A d : At(Mapping(s9), "in", d) = IF c7 THEN ArgumentList(mem.in) ELSE d
    BY <1>l1, <1>l2, <1>l3, <1>l4, <1>l5, <1>l6, <1>l7, <1>l8, <1>l9, NoLines DEF Longer
<1>v8. \A d : At(Mapping(s9), "out", d) = IF c8 THEN ArgumentList(mem.out) ELSE d
    BY <1>l1, <1>l2, <1>l3, <1>l4, <1>l5, <1>l6, <1>l7, <1>l8, <1>l9, NoLines DEF Longer
<1>v9. \A d : At(Mapping(s9), "children", d) = IF c9 THEN c ELSE d
    BY <1>l1, <1>l2, <1>l3, <1>l4, <1>l5, <1>l6, <1>l7, <1>l8, <1>l9, NoLines DEF Longer
<1>u7. \A v : v \in Under(Mapping(s9), "in") => c7 /\ v = ArgumentList(mem.in)
    BY <1>l1, <1>l2, <1>l3, <1>l4, <1>l5, <1>l6, <1>l7, <1>l8, <1>l9, NoLines DEF Longer
<1>u8. \A v : v \in Under(Mapping(s9), "out") => c8 /\ v = ArgumentList(mem.out)
    BY <1>l1, <1>l2, <1>l3, <1>l4, <1>l5, <1>l6, <1>l7, <1>l8, <1>l9, NoLines DEF Longer
<1>u9. \A v : v \in Under(Mapping(s9), "children") => c9 /\ v = c
    BY <1>l1, <1>l2, <1>l3, <1>l4, <1>l5, <1>l6, <1>l7, <1>l8, <1>l9, NoLines DEF Longer
<1>2. \A q \in Keys(Mapping(s9)) : q \in MemberKeys
    BY <1>l1, <1>l2, <1>l3, <1>l4, <1>l5, <1>l6, <1>l7, <1>l8, <1>l9, NoLines DEF Longer, MemberKeys
<1>3. \A e \in In(s9) :
          \/ c1 /\ e = Pair("kind", Plain(mem.kind))
          \/ c2 /\ e = Pair("type", Plain(mem.type))
          \/ c3 /\ e = Pair("rule", Plain(mem.rule))
          \/ c4 /\ e = Pair("access", Plain(mem.access))
          \/ c5 /\ e = Pair("unit", Quoted(mem.unit))
          \/ c6 /\ e = Pair("doc", Quoted(mem.doc))
          \/ c7 /\ e = Pair("in", ArgumentList(mem.in))
          \/ c8 /\ e = Pair("out", ArgumentList(mem.out))
          \/ c9 /\ e = Pair("children", c)
    BY <1>l1, <1>l2, <1>l3, <1>l4, <1>l5, <1>l6, <1>l7, <1>l8, <1>l9, NoLines DEF Longer
<1>4. IsSeq(s9)  BY <1>a9
<1>5. n = Mapping(s9) /\ n.entries = s9
    BY <1>0, MappingIs
<1>6. /\ c7 => ArgumentList(mem.in) # Garbled
      /\ c8 => ArgumentList(mem.out) # Garbled
      /\ c9 => c # Garbled
    BY <1>l7, <1>l8, <1>l9 DEF Longer
<1> HIDE DEF n
<1>7. /\ Value(n, "kind", "variable") = mem.kind /\ Value(n, "type", "") = mem.type
      /\ Value(n, "rule", "mandatory") = mem.rule
      /\ Value(n, "access", "r") = (IF mem.kind \in {"variable", "property"} THEN mem.access ELSE "r")
      /\ Value(n, "unit", "") = mem.unit /\ Value(n, "doc", "") = mem.doc
    <2>1. \A x, y, b : (IF b THEN Scalar(x) ELSE Scalar(y)).value = IF b THEN x ELSE y
        BY ScalarIs
    <2>2. Value(n, "kind", "variable") = IF c1 THEN mem.kind ELSE "variable"
        BY <1>1, <1>5, <1>v1, <2>1 DEF Value
    <2>3. Value(n, "type", "") = IF c2 THEN mem.type ELSE ""
        BY <1>1, <1>5, <1>v2, <2>1 DEF Value
    <2>4. Value(n, "rule", "mandatory") = IF c3 THEN mem.rule ELSE "mandatory"
        BY <1>1, <1>5, <1>v3, <2>1 DEF Value
    <2>5. Value(n, "access", "r") = IF c4 THEN mem.access ELSE "r"
        BY <1>1, <1>5, <1>v4, <2>1 DEF Value
    <2>6. Value(n, "unit", "") = IF c5 THEN mem.unit ELSE ""
        BY <1>1, <1>5, <1>v5, <2>1 DEF Value
    <2>7. Value(n, "doc", "") = IF c6 THEN mem.doc ELSE ""
        BY <1>1, <1>5, <1>v6, <2>1 DEF Value
    <2> QED BY <2>2, <2>3, <2>4, <2>5, <2>6, <2>7 DEF c1, c2, c3, c4, c5, c6
<1>8. \A e \in In(n.entries) :
         /\ e = Pair(e.key, e.val) /\ e.key \in MemberKeys
         /\ \/ e.val \in {Scalar(t) : t \in {mem.kind, mem.type, mem.rule, mem.access, mem.unit, mem.doc}}
            \/ mem.in # <<>> /\ e.val = ArgumentList(mem.in)
            \/ mem.out # <<>> /\ e.val = ArgumentList(mem.out)
            \/ mem.children # <<>> /\ e.val = c
    <2> TAKE e \in In(n.entries)
    <2>1. \A k, v : Pair(k, v).key = k /\ Pair(k, v).val = v
        BY DEF Pair
    <2>2. e \in In(s9)
        BY <1>5
    <2>3. e = Pair(e.key, e.val) /\ e.key \in MemberKeys
        BY <1>3, <2>1, <2>2 DEF MemberKeys
    <2>4. \/ e.val \in {Scalar(mem.kind), Scalar(mem.type), Scalar(mem.rule), Scalar(mem.access),
                        Scalar(mem.unit), Scalar(mem.doc)}
          \/ c7 /\ e.val = ArgumentList(mem.in)
          \/ c8 /\ e.val = ArgumentList(mem.out)
          \/ c9 /\ e.val = c
        BY <1>1, <1>3, <2>1, <2>2
    <2>5. \A t \in {mem.kind, mem.type, mem.rule, mem.access, mem.unit, mem.doc} :
              Scalar(t) \in {Scalar(x) : x \in {mem.kind, mem.type, mem.rule, mem.access, mem.unit, mem.doc}}
        OBVIOUS
    <2> QED BY <2>3, <2>4, <2>5 DEF c7, c8, c9
<1>9. /\ At(n, "in", List(<<>>)) = (IF mem.in = <<>> THEN List(<<>>) ELSE ArgumentList(mem.in))
      /\ At(n, "out", List(<<>>)) = (IF mem.out = <<>> THEN List(<<>>) ELSE ArgumentList(mem.out))
      /\ At(n, "children", Mapping(<<>>)) = (IF mem.children = <<>> THEN Mapping(<<>>) ELSE c)
    BY <1>5, <1>v7, <1>v8, <1>v9 DEF c7, c8, c9
<1>10. MemberSays(mem, c, n)
    BY <1>2, <1>4, <1>5, <1>6, <1>7, <1>8, <1>9, <1>u7, <1>u8, <1>u9 DEF MemberSays, c7, c8, c9
<1> QED BY <1>10 DEF n, u

(* What reading makes of a member, at every depth.                            *)
ProperOwn(x) == Keyed(x.name, x.suffix) /\ x.doc \notin DOMAIN Cleaned
Proper(mem) ==
    \E S : mem \in S /\ \A x \in S : ProperOwn(x) /\ \A y \in In(x.children) : y \in S

(* A proper member has proper members.                                        *)
LEMMA ProperIs == ASSUME NEW mem, Proper(mem)
    PROVE ProperOwn(mem) /\ \A y \in In(mem.children) : Proper(y)
<1>1. PICK S : mem \in S /\ \A x \in S : ProperOwn(x) /\ \A y \in In(x.children) : y \in S
    BY DEF Proper
<1>2. ProperOwn(mem)
    BY <1>1
<1>3. ASSUME NEW y \in In(mem.children) PROVE Proper(y)
    <2>1. y \in S  BY <1>1
    <2> QED BY <1>1, <2>1 DEF Proper
<1> QED BY <1>2, <1>3

(* What is read is proper.                                                    *)
LEMMA ReadIsProper == ASSUME NEW e \in [key : STRING, val : Trees] PROVE Proper(ReadMember[e])
<1> DEFINE S == {ReadMember[x] : x \in [key : STRING, val : Trees]}
<1>1. ReadMember[e] \in S
    OBVIOUS
<1>2. ASSUME NEW x \in [key : STRING, val : Trees]
      PROVE  ProperOwn(ReadMember[x]) /\ \A y \in In(ReadMember[x].children) : y \in S
    <2> DEFINE mem == ReadMember[x]
               c == Children(x.val, "children")
               top == 2 * Depth + 8
               name == IF x.key \in DOMAIN Suffixed THEN Suffixed[x.key][1] ELSE x.key
               suffix == IF x.key \in DOMAIN Suffixed THEN Suffixed[x.key][2] ELSE ""
    <2>1. mem = ReadStep(ReadMember, x)
        BY ReadMemberIs
    <2>2. mem.name = name /\ mem.suffix = suffix /\ mem.doc = CleanDoc(x.val)
          /\ mem.children = [i \in DOMAIN c |-> ReadMember[c[i]]]
        <3> HIDE DEF mem
        <3>1. /\ ReadStep(ReadMember, x).name = name /\ ReadStep(ReadMember, x).suffix = suffix
              /\ ReadStep(ReadMember, x).doc = CleanDoc(x.val)
              /\ ReadStep(ReadMember, x).children = [i \in DOMAIN c |-> ReadMember[c[i]]]
            BY DEF ReadStep
        <3> HIDE DEF name, suffix, c
        <3> QED BY <2>1, <3>1
    <2>3. x.key \in STRING /\ x.val \in TreesTo[top] /\ top \in Nat
        BY DepthIsNat DEF Trees
    <2>4. Keyed(name, suffix)
        BY <2>3, KeyIsRead
    <2>5. CleanDoc(x.val) \notin DOMAIN Cleaned
        BY <2>3, CleanDocIs
    <2>6. ProperOwn(mem)
        <3> HIDE DEF mem, name, suffix
        <3> QED BY <2>2, <2>4, <2>5 DEF ProperOwn
    <2>7. IsSeq(c) /\ \A z \in In(c) :
              z = Pair(z.key, z.val) /\ z.key \in STRING /\ top # 0 /\ z.val \in TreesTo[top - 1]
        BY <2>3, ChildrenAre
    <2>8. TreesTo[top - 1] \subseteq Trees
        <3>1. top - 1 \in Nat /\ (top - 1) + 1 = top  BY DepthIsNat
        <3> QED BY <3>1, DeeperStep DEF Trees
    <2>9. ASSUME NEW y \in In(mem.children) PROVE y \in S
        <3>1. PICK i \in DOMAIN c : y = ReadMember[c[i]]
            BY <2>2 DEF In
        <3>2. c[i] \in In(c)  BY DEF In
        <3> HIDE DEF c, top
        <3>3. c[i] \in [key : STRING, val : Trees]
            BY <2>7, <2>8, <3>2 DEF Pair
        <3> QED BY <3>1, <3>3
    <2> QED BY <2>6, <2>9
<1>3. \A x \in S : ProperOwn(x) /\ \A y \in In(x.children) : y \in S
    BY <1>2
<1> HIDE DEF S
<1> QED BY <1>1, <1>3 DEF Proper

(* A key that was read is written so that it is read the same.                *)
LEMMA KeyIsWritten ==
    ASSUME NEW mem, mem.name \in STRING, Keyed(mem.name, mem.suffix)
    PROVE  LET k == MemberKey(mem)
           IN  /\ k \in STRING
               /\ mem.name = (IF k \in DOMAIN Suffixed THEN Suffixed[k][1] ELSE k)
               /\ mem.suffix = (IF k \in DOMAIN Suffixed THEN Suffixed[k][2] ELSE "")
<1>1. CASE mem.suffix = ""
    BY <1>1 DEF Keyed, MemberKey
<1>2. CASE mem.suffix # ""
    <2> DEFINE k == CHOOSE x \in DOMAIN Suffixed : Suffixed[x] = <<mem.name, mem.suffix>>
    <2>1. \E x \in DOMAIN Suffixed : Suffixed[x] = <<mem.name, mem.suffix>>
        BY <1>2 DEF Keyed
    <2>2. k \in DOMAIN Suffixed /\ Suffixed[k] = <<mem.name, mem.suffix>>
        BY <2>1
    <2>3. MemberKey(mem) = k
        BY <1>2 DEF MemberKey
    <2> HIDE DEF k
    <2>4. Suffixed[k][1] = mem.name /\ Suffixed[k][2] = mem.suffix
        <3> DEFINE p == Suffixed[k]
        <3>1. p = <<mem.name, mem.suffix>>  BY <2>2
        <3> HIDE DEF p
        <3>2. p[1] = mem.name /\ p[2] = mem.suffix  BY <3>1
        <3> QED BY <3>2 DEF p
    <2>5. k \in STRING
        <3>1. DOMAIN Suffixed \subseteq STRING  BY StringsAssumption
        <3> QED BY <2>2, <3>1
    <2> QED BY <2>2, <2>3, <2>4, <2>5
<1> QED BY <1>1, <1>2

(* The canonical form differs in the access, and below.                       *)
LEMMA CanonicalFields ==
    ASSUME NEW d \in Nat, NEW mem \in MembersTo[d], NEW f
    PROVE  CanonicalStep(f, mem) =
             [name |-> mem.name, suffix |-> mem.suffix, kind |-> mem.kind, type |-> mem.type,
              rule |-> mem.rule,
              access |-> IF mem.kind \in {"variable", "property"} THEN mem.access ELSE "r",
              unit |-> mem.unit, doc |-> mem.doc, in |-> mem.in, out |-> mem.out,
              children |-> [i \in DOMAIN mem.children |-> f[mem.children[i]]]]
<1> DEFINE a == IF mem.kind \in {"variable", "property"} THEN mem.access ELSE "r"
           c == [i \in DOMAIN mem.children |-> f[mem.children[i]]]
<1>0. mem = [name |-> mem.name, suffix |-> mem.suffix, kind |-> mem.kind, type |-> mem.type,
             rule |-> mem.rule, access |-> mem.access, unit |-> mem.unit, doc |-> mem.doc,
             in |-> mem.in, out |-> mem.out, children |-> mem.children]
    BY PartsOfMember
<1> DEFINE D == {"name", "suffix", "kind", "type", "rule", "access", "unit", "doc", "in", "out", "children"}
<1>1. DOMAIN mem = D
    <2>1. DOMAIN [name |-> mem.name, suffix |-> mem.suffix, kind |-> mem.kind, type |-> mem.type,
             rule |-> mem.rule, access |-> mem.access, unit |-> mem.unit, doc |-> mem.doc,
             in |-> mem.in, out |-> mem.out, children |-> mem.children] = D
        OBVIOUS
    <2> HIDE DEF D
    <2> QED BY <1>0, <2>1
<1>2. CanonicalStep(f, mem) = [mem EXCEPT !.access = a, !.children = c]
    BY DEF CanonicalStep
<1> HIDE DEF a, c
<1>3. [mem EXCEPT !.access = a, !.children = c] =
        [name |-> mem.name, suffix |-> mem.suffix, kind |-> mem.kind, type |-> mem.type,
         rule |-> mem.rule, access |-> a, unit |-> mem.unit, doc |-> mem.doc,
         in |-> mem.in, out |-> mem.out, children |-> c]
    <2> DEFINE l == [mem EXCEPT !.access = a, !.children = c]
               r == [name |-> mem.name, suffix |-> mem.suffix, kind |-> mem.kind, type |-> mem.type,
                     rule |-> mem.rule, access |-> a, unit |-> mem.unit, doc |-> mem.doc,
                     in |-> mem.in, out |-> mem.out, children |-> c]
    <2>1. l = [x \in D |-> IF x = "access" THEN a ELSE IF x = "children" THEN c ELSE mem[x]]
        BY <1>1
    <2>2. r = [x \in D |-> r[x]]
        OBVIOUS
    <2>3. \A x \in D : r[x] = IF x = "access" THEN a ELSE IF x = "children" THEN c ELSE mem[x]
        OBVIOUS
    <2> HIDE DEF l, r, D
    <2>4. l = r
        BY <2>1, <2>2, <2>3
    <2> QED BY <2>4 DEF l, r
<1> QED BY <1>2, <1>3 DEF a, c

EntryOK(e) ==
    /\ MapOf(e.val, MemberKeys)
    /\ \A v \in Under(e.val, "in") \cup Under(e.val, "out") : ArgumentsOK(v)
    /\ \A v \in Under(e.val, "children") : MembersOK[v]
Kept(d, mem) ==
    LET e == WriteMember[mem]
    IN  e.val # Garbled =>
            /\ e = Pair(e.key, e.val) /\ e.key \in STRING /\ e.val \in TreesTo[2 * d + 3]
            /\ EntryOK(e) /\ ReadMember[e] = Canonical[mem]
Written(ms) == [i \in DOMAIN ms |-> WriteMember[ms[i]]]

(* The block of some members.                                                 *)
LEMMA BlockKept ==
    ASSUME NEW d \in Nat, d <= Depth, NEW ms, IsSeq(ms), ms # <<>>,
           \A x \in In(ms) : Kept(d, x), Block(Written(ms)) # Garbled
    PROVE  LET n == Block(Written(ms))
           IN  /\ n \in TreesTo[2 * d + 4] /\ n.kind = "mapping" /\ MembersOK[n]
               /\ [i \in DOMAIN n.entries |-> ReadMember[n.entries[i]]]
                  = [i \in DOMAIN ms |-> Canonical[ms[i]]]
<1> DEFINE f == Written(ms)
           n == Block(f)
<1>1. f = [i \in DOMAIN ms |-> f[i]] /\ \A i \in DOMAIN ms : f[i] = WriteMember[ms[i]]
    BY DEF Written
<1> HIDE DEF f
<1>2. /\ IsSeq(f) /\ DOMAIN f = DOMAIN ms /\ f # <<>> /\ (\A x \in In(f) : \E i \in DOMAIN ms : x = f[i])
      /\ \A i \in DOMAIN ms : ms[i] \in In(ms) /\ f[i] \in In(f)
    BY <1>1, ItemwiseIs
<1>3. Clean(f) /\ n = Mapping(f)
    <2>1. n # Garbled  BY DEF f
    <2> HIDE DEF f
    <2> QED BY <1>2, <2>1, BracesIs
<1> HIDE DEF n
<1>4. \A i \in DOMAIN ms :
        /\ f[i] = Pair(f[i].key, f[i].val) /\ f[i].key \in STRING /\ f[i].val \in TreesTo[2 * d + 3]
        /\ EntryOK(f[i]) /\ ReadMember[f[i]] = Canonical[ms[i]]
    <2> TAKE i \in DOMAIN ms
    <2>1. f[i].val # Garbled /\ ms[i] \in In(ms) /\ f[i] = WriteMember[ms[i]]
        BY <1>1, <1>2, <1>3 DEF Clean
    <2>2. Kept(d, ms[i])
        BY <2>1
    <2> QED BY <2>1, <2>2 DEF Kept
<1>5. \A e \in In(f) : e = Pair(e.key, e.val) /\ e.key \in STRING /\ e.val \in TreesTo[2 * d + 3] /\ EntryOK(e)
    BY <1>2, <1>4
<1>6. n.entries = f /\ n.kind = "mapping"
    BY <1>3, MappingIs
<1>7. n \in TreesTo[2 * d + 4]
    <2>1. 2 * d + 3 \in Nat /\ (2 * d + 3) + 1 = 2 * d + 4  OBVIOUS
    <2>2. Mapping(f) \in TreesTo[(2 * d + 3) + 1]
        BY <1>2, <1>5, <2>1, MappingIsTree
    <2> QED BY <1>3, <2>1, <2>2
<1>8. n \in Trees
    <2> DEFINE a == 2 * d + 4
               top == 2 * Depth + 8
    <2>1. a \in Nat /\ top - a \in Nat /\ a + (top - a) = top
        BY DepthIsNat
    <2>2. TreesTo[a] \subseteq TreesTo[top]
        <3> HIDE DEF a, top
        <3> QED BY <2>1, Deeper
    <2> QED BY <1>7, <2>2 DEF Trees
<1>9. OKStep(MembersOK, n)
    BY <1>5, <1>6 DEF OKStep, Named, EntryOK
<1>10. MembersOK[n]
    BY <1>8, <1>9, MembersOKIs
<1>11. [i \in DOMAIN n.entries |-> ReadMember[n.entries[i]]] = [i \in DOMAIN ms |-> Canonical[ms[i]]]
    BY <1>2, <1>4, <1>6
<1> QED BY <1>6, <1>7, <1>10, <1>11 DEF n, f

(* Of no items nothing is made.                                               *)
LEMMA NoneIs == ASSUME NEW f, f = [i \in DOMAIN <<>> |-> f[i]] PROVE f = <<>>
<1>1. DOMAIN <<>> = 1 .. 0 /\ 0 \in Nat
    OBVIOUS
<1>2. DOMAIN f = 1 .. 0 /\ f = [i \in 1 .. 0 |-> f[i]]
    BY <1>1
<1>3. IsSeq(f) /\ Len(f) = 0
    BY <1>1, <1>2, SequenceIs
<1> QED BY <1>3, SequenceFacts

LEMMA MembersGrow == ASSUME NEW d \in Nat, d <= Depth PROVE MembersTo[d] \subseteq Members
<1>1. Depth - d \in Nat /\ d + (Depth - d) = Depth
    BY DepthIsNat
<1>2. MembersTo[d] \subseteq MembersTo[d + (Depth - d)]
    BY <1>1, Deeper
<1> QED BY <1>1, <1>2 DEF Members

LEMMA TreesGrow == ASSUME NEW a \in Nat, NEW b \in Nat, a <= b PROVE TreesTo[a] \subseteq TreesTo[b]
<1>1. b - a \in Nat /\ a + (b - a) = b
    OBVIOUS
<1> HIDE DEF TreesTo
<1>2. TreesTo[a] \subseteq TreesTo[a + (b - a)]
    BY <1>1, Deeper
<1> QED BY <1>1, <1>2

(* Arguments, as they are found in the block of their member.                 *)
LEMMA ArgumentsKept ==
    ASSUME NEW args \in Seq(Arguments), NEW n, NEW k,
           At(n, k, List(<<>>)) = (IF args = <<>> THEN List(<<>>) ELSE ArgumentList(args)),
           args # <<>> => ArgumentList(args) # Garbled
    PROVE  ReadArguments(n, k) = args
<1> DEFINE s == At(n, k, List(<<>>)).items
<1>1. ReadArguments(n, k) = [i \in DOMAIN s |-> ReadArgument(s[i])]
    BY DEF ReadArguments, Each
<1>2. CASE args = <<>>
    <2>1. s = <<>>
        BY <1>2, ListIs
    <2> DEFINE f == [i \in DOMAIN s |-> ReadArgument(s[i])]
    <2>2. f = [i \in DOMAIN s |-> f[i]]
        OBVIOUS
    <2> HIDE DEF f, s
    <2>3. f = <<>>
        BY <2>1, <2>2, NoneIs
    <2> QED BY <1>1, <1>2, <2>3 DEF f
<1>3. CASE args # <<>>
    <2>1. s = ArgumentList(args).items
        BY <1>3
    <2>2. Each(ArgumentList(args).items, ReadArgument) = args
        BY <1>3, ArgumentLinesIs
    <2> QED BY <1>1, <2>1, <2>2 DEF Each
<1> QED BY <1>2, <1>3

(* A member, if those in it are kept.                                         *)
LEMMA MemberKept ==
    ASSUME NEW d \in Nat, d <= Depth, NEW mem \in MembersTo[d], Proper(mem),
           \A x \in In(mem.children) : Kept(d - 1, x)
    PROVE  Kept(d, mem)
<1> DEFINE c == Block(Written(mem.children))
           u == OwnLines(mem) \o LineIf(mem.children # <<>>, "children", c)
           k == MemberKey(mem)
           e == WriteMember[mem]
           n == Mapping(u)
<1> SUFFICES ASSUME e.val # Garbled
    PROVE  /\ e = Pair(e.key, e.val) /\ e.key \in STRING /\ e.val \in TreesTo[2 * d + 3]
           /\ EntryOK(e) /\ ReadMember[e] = Canonical[mem]
    BY DEF Kept
<1>1. mem \in Members
    BY MembersGrow
<1>2. e = Line(k, Braces(u))
    BY <1>1, WriteMemberIs DEF WriteStep, Written
<1>3. Clean(u) /\ e = Pair(k, n)
    <2>1. e = Pair(k, Braces(u)) /\ e.val # Garbled
        BY <1>2, LineIs
    <2> HIDE DEF e, u, k
    <2>2. Braces(u) # Garbled
        BY <2>1 DEF Pair
    <2> QED BY <2>1, <2>2, BracesIs
<1>4. MemberSays(mem, c, n)
    <2>1. Clean(OwnLines(mem) \o LineIf(mem.children # <<>>, "children", c))
        BY <1>3
    <2> HIDE DEF c
    <2> QED BY <2>1, MemberLines
<1>5. /\ mem.name \in STRING /\ mem.suffix \in STRING /\ mem.kind \in STRING
      /\ mem.type \in STRING /\ mem.rule \in STRING /\ mem.access \in STRING
      /\ mem.unit \in STRING /\ mem.doc \in STRING
      /\ mem.in \in Seq(Arguments) /\ mem.out \in Seq(Arguments)
      /\ IsSeq(mem.children)
      /\ \A x \in In(mem.children) : d # 0 /\ x \in MembersTo[d - 1]
    BY PartsOfMember
<1>6. ProperOwn(mem)
    BY ProperIs
<1>7. /\ k \in STRING
      /\ mem.name = (IF k \in DOMAIN Suffixed THEN Suffixed[k][1] ELSE k)
      /\ mem.suffix = (IF k \in DOMAIN Suffixed THEN Suffixed[k][2] ELSE "")
    BY <1>5, <1>6, KeyIsWritten DEF ProperOwn
<1> HIDE DEF e, n, k, u, c
<1>8. e.key = k /\ e.val = n /\ e = Pair(e.key, e.val)
    BY <1>3 DEF Pair
<1>9. mem.children # <<>> =>
        /\ c \in TreesTo[2 * d + 2] /\ c.kind = "mapping" /\ MembersOK[c]
        /\ [i \in DOMAIN c.entries |-> ReadMember[c.entries[i]]]
           = [i \in DOMAIN mem.children |-> Canonical[mem.children[i]]]
    <2> SUFFICES ASSUME mem.children # <<>>
        PROVE  /\ c \in TreesTo[2 * d + 2] /\ c.kind = "mapping" /\ MembersOK[c]
               /\ [i \in DOMAIN c.entries |-> ReadMember[c.entries[i]]]
                  = [i \in DOMAIN mem.children |-> Canonical[mem.children[i]]]
        OBVIOUS
    <2>1. c # Garbled
        BY <1>4 DEF MemberSays
    <2>2. In(mem.children) # {}
        <3>1. 1 \in DOMAIN mem.children
            BY <1>5, SequenceFacts
        <3> QED BY <3>1 DEF In
    <2>3. d - 1 \in Nat /\ d - 1 <= Depth /\ 2 * (d - 1) + 4 = 2 * d + 2
        BY <1>5, <2>2, DepthIsNat
    <2>4. Block(Written(mem.children)) # Garbled
        BY <2>1 DEF c
    <2>5. /\ c \in TreesTo[2 * (d - 1) + 4] /\ c.kind = "mapping" /\ MembersOK[c]
          /\ [i \in DOMAIN c.entries |-> ReadMember[c.entries[i]]]
             = [i \in DOMAIN mem.children |-> Canonical[mem.children[i]]]
        BY <1>5, <2>3, <2>4, BlockKept DEF c
    <2> QED BY <2>3, <2>5
<1>10. /\ mem.in # <<>> => ArgumentList(mem.in) \in TreesTo[2 * d + 2] /\ ArgumentsOK(ArgumentList(mem.in))
       /\ mem.out # <<>> => ArgumentList(mem.out) \in TreesTo[2 * d + 2] /\ ArgumentsOK(ArgumentList(mem.out))
    <2>1. TreesTo[2] \subseteq TreesTo[2 * d + 2]
        <3>1. 2 * d + 2 \in Nat /\ 2 <= 2 * d + 2  OBVIOUS
        <3> QED BY <3>1, TreesGrow
    <2>2. (mem.in # <<>> => ArgumentList(mem.in) # Garbled) /\ (mem.out # <<>> => ArgumentList(mem.out) # Garbled)
        BY <1>4 DEF MemberSays
    <2> QED BY <1>5, <2>1, <2>2, ArgumentLinesIs
<1>11. IsSeq(u) /\ \A x \in In(u) : x = Pair(x.key, x.val) /\ x.key \in STRING /\ x.val \in TreesTo[2 * d + 2]
    <2>1. n.entries = u
        BY MappingIs DEF n
    <2>2. MemberKeys \subseteq STRING
        BY WordsAssumption DEF MemberKeys
    <2>3. 2 * d + 2 \in Nat  OBVIOUS
    <2>4. \A t \in {mem.kind, mem.type, mem.rule, mem.access, mem.unit, mem.doc} : Scalar(t) \in TreesTo[2 * d + 2]
        BY <1>5, <2>3, ScalarIsTree
    <2>5. IsSeq(u)
        BY <1>4, <2>1 DEF MemberSays
    <2>6. ASSUME NEW x \in In(u)
          PROVE  x = Pair(x.key, x.val) /\ x.key \in STRING /\ x.val \in TreesTo[2 * d + 2]
        <3>1. /\ x = Pair(x.key, x.val) /\ x.key \in MemberKeys
              /\ \/ x.val \in {Scalar(t) : t \in {mem.kind, mem.type, mem.rule, mem.access, mem.unit, mem.doc}}
                 \/ mem.in # <<>> /\ x.val = ArgumentList(mem.in)
                 \/ mem.out # <<>> /\ x.val = ArgumentList(mem.out)
                 \/ mem.children # <<>> /\ x.val = c
            BY <1>4, <2>1 DEF MemberSays
        <3>2. x.val \in TreesTo[2 * d + 2]
            BY <1>9, <1>10, <2>4, <3>1
        <3> QED BY <2>2, <3>1, <3>2
    <2> QED BY <2>5, <2>6
<1>12. n \in TreesTo[2 * d + 3]
    <2>1. 2 * d + 2 \in Nat /\ (2 * d + 2) + 1 = 2 * d + 3  OBVIOUS
    <2>2. Mapping(u) \in TreesTo[(2 * d + 2) + 1]
        BY <1>11, <2>1, MappingIsTree
    <2> QED BY <2>1, <2>2 DEF n
<1>13. EntryOK(e)
    <2>1. n.kind = "mapping" /\ Keys(n) \subseteq MemberKeys
        BY <1>4, MappingIs DEF n, MemberSays
    <2>2. \A v \in Under(n, "in") \cup Under(n, "out") : ArgumentsOK(v)
        BY <1>4, <1>10 DEF MemberSays
    <2>3. \A v \in Under(n, "children") : MembersOK[v]
        BY <1>4, <1>9 DEF MemberSays
    <2> QED BY <1>8, <2>1, <2>2, <2>3 DEF EntryOK, MapOf
<1> DEFINE r == ReadStep(ReadMember, e)
           s == CanonicalStep(Canonical, mem)
           a == IF mem.kind \in {"variable", "property"} THEN mem.access ELSE "r"
           ch == [i \in DOMAIN mem.children |-> Canonical[mem.children[i]]]
<1>14. ReadMember[e] = r
    <2>1. 2 * d + 3 \in Nat /\ 2 * d + 3 <= 2 * Depth + 8
        BY DepthIsNat
    <2>2. e \in [key : STRING, val : TreesTo[2 * d + 3]]
        BY <1>7, <1>8, <1>12 DEF Pair
    <2> QED BY <2>1, <2>2, ReadMemberStep
<1>15. Canonical[mem] = s
    BY <1>1, CanonicalIs
<1>16. /\ Value(n, "kind", "variable") = mem.kind /\ Value(n, "type", "") = mem.type
       /\ Value(n, "rule", "mandatory") = mem.rule /\ Value(n, "access", "r") = a
       /\ Value(n, "unit", "") = mem.unit /\ CleanDoc(n) = mem.doc
    <2>1. Value(n, "doc", "") = mem.doc /\ mem.doc \notin DOMAIN Cleaned
        BY <1>4, <1>6 DEF MemberSays, ProperOwn
    <2> QED BY <1>4, <2>1 DEF MemberSays, CleanDoc
<1>17. ReadArguments(n, "in") = mem.in /\ ReadArguments(n, "out") = mem.out
    <2>1. mem.in \in Seq(Arguments) /\ mem.out \in Seq(Arguments)  BY <1>5
    <2>2. /\ At(n, "in", List(<<>>)) = (IF mem.in = <<>> THEN List(<<>>) ELSE ArgumentList(mem.in))
          /\ At(n, "out", List(<<>>)) = (IF mem.out = <<>> THEN List(<<>>) ELSE ArgumentList(mem.out))
          /\ mem.in # <<>> => ArgumentList(mem.in) # Garbled
          /\ mem.out # <<>> => ArgumentList(mem.out) # Garbled
        BY <1>4 DEF MemberSays
    <2>3. ReadArguments(n, "in") = mem.in
        BY <2>1, <2>2, ArgumentsKept
    <2>4. ReadArguments(n, "out") = mem.out
        BY <2>1, <2>2, ArgumentsKept
    <2> QED BY <2>3, <2>4
<1>18. [i \in DOMAIN Children(n, "children") |-> ReadMember[Children(n, "children")[i]]] = ch
    <2> DEFINE b == Children(n, "children")
               f == [i \in DOMAIN b |-> ReadMember[b[i]]]
    <2>1. b = (IF mem.children = <<>> THEN Mapping(<<>>) ELSE c).entries
        BY <1>4 DEF Children, MemberSays
    <2>2. CASE mem.children = <<>>
        <3>1. b = <<>>
            BY <2>1, <2>2, MappingIs
        <3>2. f = [i \in DOMAIN b |-> f[i]] /\ ch = [i \in DOMAIN mem.children |-> ch[i]]
            OBVIOUS
        <3> HIDE DEF f, b, ch
        <3>3. f = <<>> /\ ch = <<>>
            BY <2>2, <3>1, <3>2, NoneIs
        <3> QED BY <3>3 DEF f, b
    <2>3. CASE mem.children # <<>>
        <3>1. b = c.entries
            BY <2>1, <2>3
        <3> HIDE DEF b
        <3>2. f = ch
            BY <1>9, <2>3, <3>1
        <3> QED BY <3>2 DEF b
    <2> QED BY <2>2, <2>3
<1>19. r = [name |-> mem.name, suffix |-> mem.suffix, kind |-> mem.kind, type |-> mem.type,
            rule |-> mem.rule, access |-> a, unit |-> mem.unit, doc |-> mem.doc,
            in |-> mem.in, out |-> mem.out, children |-> ch]
    <2> HIDE DEF a, ch
    <2> QED BY <1>7, <1>8, <1>16, <1>17, <1>18 DEF ReadStep
<1>20. s = [name |-> mem.name, suffix |-> mem.suffix, kind |-> mem.kind, type |-> mem.type,
            rule |-> mem.rule, access |-> a, unit |-> mem.unit, doc |-> mem.doc,
            in |-> mem.in, out |-> mem.out, children |-> ch]
    BY CanonicalFields
<1>21. ReadMember[e] = Canonical[mem]
    <2> HIDE DEF r, s
    <2> QED BY <1>14, <1>15, <1>19, <1>20
<1> QED BY <1>7, <1>8, <1>12, <1>13, <1>21

(* Members are kept, however deep they nest: by induction over the depth.     *)
LEMMA MembersKept ==
    \A d \in Nat : d <= Depth => \A mem \in MembersTo[d] : Proper(mem) => Kept(d, mem)
<1> DEFINE T == {d \in Nat : d <= Depth => \A mem \in MembersTo[d] : Proper(mem) => Kept(d, mem)}
<1>1. ASSUME NEW d \in Nat, d <= Depth, NEW mem \in MembersTo[d], Proper(mem), d # 0 => d - 1 \in T
      PROVE  Kept(d, mem)
    <2>1. ASSUME NEW x \in In(mem.children) PROVE Kept(d - 1, x)
        <3>0. d # 0 /\ x \in MembersTo[d - 1]
            BY PartsOfMember
        <3>1. d # 0 /\ x \in MembersTo[d - 1] /\ Proper(x)
            BY <1>1, <3>0, ProperIs
        <3>2. d - 1 \in Nat /\ d - 1 <= Depth
            BY <1>1, <3>1, DepthIsNat
        <3> QED BY <1>1, <3>1, <3>2
    <2> QED BY <1>1, <2>1, MemberKept
<1>2. 0 \in T
    BY <1>1
<1>3. ASSUME NEW k \in Nat, k \in T PROVE k + 1 \in T
    <2>1. k + 1 \in Nat /\ (k + 1) - 1 = k  OBVIOUS
    <2>2. ASSUME k + 1 <= Depth, NEW mem \in MembersTo[k + 1], Proper(mem) PROVE Kept(k + 1, mem)
        <3>1. k + 1 # 0 => (k + 1) - 1 \in T
            BY <1>3, <2>1
        <3> HIDE DEF T
        <3> QED BY <1>1, <2>1, <2>2, <3>1
    <2> QED BY <2>1, <2>2
<1> HIDE DEF T
<1>4. Nat \subseteq T
    BY <1>2, <1>3, Induction
<1> QED BY <1>4 DEF T

-------------------------------------------------------------------------------
(* The canonical form of a member is written alike.                           *)
LEMMA CanonicalSays ==
    ASSUME NEW mem \in Members
    PROVE  LET c == Canonical[mem]
           IN  /\ c.name = mem.name /\ c.suffix = mem.suffix /\ c.kind = mem.kind /\ c.type = mem.type
               /\ c.rule = mem.rule /\ c.unit = mem.unit /\ c.doc = mem.doc /\ c.in = mem.in /\ c.out = mem.out
               /\ c.access = (IF mem.kind \in {"variable", "property"} THEN mem.access ELSE "r")
               /\ c.children = [i \in DOMAIN mem.children |-> Canonical[mem.children[i]]]
               /\ c = [name |-> c.name, suffix |-> c.suffix, kind |-> c.kind, type |-> c.type,
                       rule |-> c.rule, access |-> c.access, unit |-> c.unit, doc |-> c.doc,
                       in |-> c.in, out |-> c.out, children |-> c.children]
<1> DEFINE a == IF mem.kind \in {"variable", "property"} THEN mem.access ELSE "r"
           ch == [i \in DOMAIN mem.children |-> Canonical[mem.children[i]]]
           s == CanonicalStep(Canonical, mem)
<1>1. Canonical[mem] = s
    BY CanonicalIs
<1>2. Depth \in Nat /\ mem \in MembersTo[Depth]
    BY DepthIsNat DEF Members
<1>3. s = [name |-> mem.name, suffix |-> mem.suffix, kind |-> mem.kind, type |-> mem.type,
            rule |-> mem.rule, access |-> a, unit |-> mem.unit, doc |-> mem.doc,
            in |-> mem.in, out |-> mem.out, children |-> ch]
    BY <1>2, CanonicalFields
<1> HIDE DEF a, ch, s
<1>4. /\ s.name = mem.name /\ s.suffix = mem.suffix /\ s.kind = mem.kind /\ s.type = mem.type
      /\ s.rule = mem.rule /\ s.unit = mem.unit /\ s.doc = mem.doc /\ s.in = mem.in /\ s.out = mem.out
      /\ s.access = a /\ s.children = ch
    BY <1>3
<1> QED BY <1>1, <1>3, <1>4 DEF a, ch

(* By induction over the depth: the canonical form is written alike, ...      *)
LEMMA CanonicalAlike ==
    \A d \in Nat : d <= Depth => \A mem \in MembersTo[d] :
        Canonical[mem] \in MembersTo[d] /\ WriteMember[Canonical[mem]] = WriteMember[mem]
<1> DEFINE P(d) == \A mem \in MembersTo[d] :
                      Canonical[mem] \in MembersTo[d] /\ WriteMember[Canonical[mem]] = WriteMember[mem]
           T == {d \in Nat : d <= Depth => P(d)}
<1>1. ASSUME NEW d \in Nat, d <= Depth, NEW mem \in MembersTo[d], d # 0 => P(d - 1)
      PROVE  Canonical[mem] \in MembersTo[d] /\ WriteMember[Canonical[mem]] = WriteMember[mem]
    <2> DEFINE c == Canonical[mem]
               b == IF d = 0 THEN {} ELSE MembersTo[d - 1]
               ms == mem.children
               cs == [i \in DOMAIN ms |-> Canonical[ms[i]]]
    <2>1. mem \in Members
        BY <1>1, MembersGrow
    <2>2. /\ c.name = mem.name /\ c.suffix = mem.suffix /\ c.kind = mem.kind /\ c.type = mem.type
          /\ c.rule = mem.rule /\ c.unit = mem.unit /\ c.doc = mem.doc /\ c.in = mem.in /\ c.out = mem.out
          /\ c.access = (IF mem.kind \in {"variable", "property"} THEN mem.access ELSE "r")
          /\ c.children = cs
          /\ c = [name |-> c.name, suffix |-> c.suffix, kind |-> c.kind, type |-> c.type,
                  rule |-> c.rule, access |-> c.access, unit |-> c.unit, doc |-> c.doc,
                  in |-> c.in, out |-> c.out, children |-> c.children]
        BY <2>1, CanonicalSays
    <2>3. /\ mem.name \in STRING /\ mem.suffix \in STRING /\ mem.kind \in STRING
          /\ mem.type \in STRING /\ mem.rule \in STRING /\ mem.access \in STRING
          /\ mem.unit \in STRING /\ mem.doc \in STRING
          /\ mem.in \in Seq(Arguments) /\ mem.out \in Seq(Arguments)
          /\ IsSeq(ms) /\ \A x \in In(ms) : d # 0 /\ x \in MembersTo[d - 1]
        BY PartsOfMember
    <2>4. MembersTo[d] = MembersOver(b)
        <3>1. CASE d = 0  BY <3>1, MembersToIs
        <3>2. CASE d # 0
            <4>1. d - 1 \in Nat /\ (d - 1) + 1 = d  BY <3>2
            <4> QED BY <3>2, <4>1, MembersToIs
        <3> QED BY <3>1, <3>2
    <2> HIDE DEF c
    <2>5. \A i \in DOMAIN ms : cs[i] \in b /\ WriteMember[cs[i]] = WriteMember[ms[i]]
        <3> TAKE i \in DOMAIN ms
        <3>1. ms[i] \in In(ms)
            BY DEF In
        <3>2. d # 0 /\ ms[i] \in MembersTo[d - 1]
            BY <2>3, <3>1
        <3> QED BY <1>1, <3>2
    <2>6. cs = [i \in DOMAIN ms |-> cs[i]]
        OBVIOUS
    <2> HIDE DEF cs, b, P
    <2>7. IsSeq(cs) /\ DOMAIN cs = DOMAIN ms /\ (cs = <<>> <=> ms = <<>>) /\ cs \in Seq(b)
        <3>1. \A i \in DOMAIN ms : cs[i] \in b  BY <2>5
        <3>2. IsSeq(ms)  BY <2>3
        <3> HIDE DEF ms
        <3> QED BY <2>6, <3>1, <3>2, ItemwiseIs
    <2>8. c.access \in STRING
        BY <2>2, <2>3, WordsAssumption
    <2>9. c \in MembersTo[d]
        <3>1. c.name \in STRING /\ c.suffix \in STRING /\ c.kind \in STRING /\ c.type \in STRING
              /\ c.rule \in STRING /\ c.unit \in STRING /\ c.doc \in STRING
              /\ c.in \in Seq(Arguments) /\ c.out \in Seq(Arguments) /\ c.children \in Seq(b)
            BY <2>2, <2>3, <2>7
        <3>2. c = [name |-> c.name, suffix |-> c.suffix, kind |-> c.kind, type |-> c.type,
                  rule |-> c.rule, access |-> c.access, unit |-> c.unit, doc |-> c.doc,
                  in |-> c.in, out |-> c.out, children |-> c.children]
            BY <2>2
        <3> QED BY <2>4, <2>8, <3>1, <3>2, MemberFrom
    <2>10. c \in Members
        BY <1>1, <2>9, MembersGrow
    <2>11. Written(cs) = Written(ms)
        BY <2>5, <2>7 DEF Written
    <2>12. MemberKey(c) = MemberKey(mem)
        BY <2>2 DEF MemberKey
    <2>13. OwnLines(c) = OwnLines(mem)
        <3>1. LineIf(c.kind \in {"variable", "property"} /\ c.access # "r", "access", Plain(c.access))
              = LineIf(mem.kind \in {"variable", "property"} /\ mem.access # "r", "access", Plain(mem.access))
            BY <2>2 DEF LineIf
        <3> QED BY <2>2, <3>1 DEF OwnLines, InlineFields
    <2>14. WriteStep(WriteMember, c) = WriteStep(WriteMember, mem)
        <3>1. (c.children # <<>>) = (ms # <<>>) /\ Written(c.children) = Written(mem.children)
            BY <2>2, <2>7, <2>11
        <3>2. \A x : WriteStep(WriteMember, x) = Line(MemberKey(x), Braces(OwnLines(x) \o
                          LineIf(x.children # <<>>, "children", Block(Written(x.children)))))
            BY DEF WriteStep, Written
        <3> QED BY <2>12, <2>13, <3>1, <3>2
    <2>15. WriteMember[c] = WriteMember[mem]
        BY <2>1, <2>10, <2>14, WriteMemberIs
    <2> QED BY <2>9, <2>15 DEF c
<1>2. 0 \in T
    BY <1>1
<1>3. ASSUME NEW k \in Nat, k \in T PROVE k + 1 \in T
    <2>1. k + 1 \in Nat /\ (k + 1) - 1 = k  OBVIOUS
    <2>2. ASSUME k + 1 <= Depth PROVE P(k + 1)
        <3>1. P((k + 1) - 1)
            BY <1>3, <2>1, <2>2, DepthIsNat
        <3>2. \A mem \in MembersTo[k + 1] :
                 Canonical[mem] \in MembersTo[k + 1] /\ WriteMember[Canonical[mem]] = WriteMember[mem]
            <4> HIDE DEF P
            <4> QED BY <1>1, <2>1, <2>2, <3>1
        <3> QED BY <3>2
    <2> QED BY <2>1, <2>2
<1> HIDE DEF T
<1>4. Nat \subseteq T
    BY <1>2, <1>3, Induction
<1> QED BY <1>4 DEF T

(* ... and it is proper.                                                      *)
LEMMA CanonicalIsProper ==
    ASSUME NEW mem \in Members, Proper(mem) PROVE Proper(Canonical[mem])
<1>1. PICK S : mem \in S /\ \A x \in S : ProperOwn(x) /\ \A y \in In(x.children) : y \in S
    BY DEF Proper
<1> DEFINE C == {Canonical[x] : x \in S \cap Members}
<1>2. Canonical[mem] \in C
    BY <1>1
<1>3. ASSUME NEW x \in S \cap Members
      PROVE  ProperOwn(Canonical[x]) /\ \A y \in In(Canonical[x].children) : y \in C
    <2> DEFINE c == Canonical[x]
    <2>1. /\ c.name = x.name /\ c.suffix = x.suffix /\ c.doc = x.doc
          /\ c.children = [i \in DOMAIN x.children |-> Canonical[x.children[i]]]
        BY CanonicalSays
    <2>2. ProperOwn(x)
        BY <1>1
    <2> HIDE DEF c
    <2>3. ProperOwn(c)
        BY <2>1, <2>2 DEF ProperOwn
    <2>4. \A z \in In(x.children) : z \in Members
        <3>1. Depth \in Nat /\ x \in MembersTo[Depth]
            BY DepthIsNat DEF Members
        <3>2. \A z \in In(x.children) : Depth # 0 /\ z \in MembersTo[Depth - 1]
            BY <3>1, PartsOfMember
        <3>3. Depth # 0 => MembersTo[Depth - 1] \subseteq Members
            <4>1. Depth # 0 => Depth - 1 \in Nat /\ Depth - 1 <= Depth
                BY <3>1
            <4> QED BY <4>1, MembersGrow
        <3> QED BY <3>2, <3>3
    <2>5. ASSUME NEW y \in In(c.children) PROVE y \in C
        <3>1. PICK i \in DOMAIN x.children : y = Canonical[x.children[i]]
            BY <2>1 DEF In
        <3>2. x.children[i] \in In(x.children)
            BY DEF In
        <3>3. x.children[i] \in S \cap Members
            BY <1>1, <2>4, <3>2
        <3> QED BY <3>1, <3>3
    <2> QED BY <2>3, <2>5 DEF c
<1>4. \A x \in C : ProperOwn(x) /\ \A y \in In(x.children) : y \in C
    BY <1>3
<1> HIDE DEF C
<1> QED BY <1>2, <1>4 DEF Proper

-------------------------------------------------------------------------------
(* Blocks and lists of what is written one by one.                            *)
LEMMA EntriesAre ==
    ASSUME NEW ms, IsSeq(ms), NEW f, f = [i \in DOMAIN ms |-> f[i]],
           ms # <<>> => Block(f) # Garbled,
           NEW n, n = (IF ms # <<>> THEN Block(f) ELSE Mapping(<<>>))
    PROVE  /\ n.entries = f /\ n.kind = "mapping" /\ n = Mapping(f) /\ n # Garbled
           /\ IsSeq(f) /\ DOMAIN f = DOMAIN ms
           /\ \A x \in In(f) : \E i \in DOMAIN ms : x = f[i]
           /\ \A i \in DOMAIN ms : f[i] \in In(f) /\ f[i].val # Garbled /\ ms[i] \in In(ms)
<1>1. /\ IsSeq(f) /\ DOMAIN f = DOMAIN ms /\ (f = <<>> <=> ms = <<>>)
      /\ \A x \in In(f) : \E i \in DOMAIN ms : x = f[i]
      /\ \A i \in DOMAIN ms : ms[i] \in In(ms) /\ f[i] \in In(f)
    BY ItemwiseIs
<1>2. n = Mapping(f)
    BY <1>1, BracesIs
<1>3. \A i \in DOMAIN ms : f[i].val # Garbled
    <2> TAKE i \in DOMAIN ms
    <2>1. ms # <<>>
        BY SequenceFacts, EmptyIs, <1>1
    <2>2. Clean(f)
        BY <2>1, BracesIs
    <2> QED BY <1>1, <2>2 DEF Clean
<1> QED BY <1>1, <1>2, <1>3, MappingIs

(* The same of items between brackets.                                        *)
LEMMA ListedAre ==
    ASSUME NEW ms, IsSeq(ms), NEW f, f = [i \in DOMAIN ms |-> f[i]],
           ms # <<>> => Listed(f) # Garbled,
           NEW n, n = (IF ms # <<>> THEN Listed(f) ELSE List(<<>>))
    PROVE  /\ n.items = f /\ n.kind = "sequence"
           /\ IsSeq(f) /\ DOMAIN f = DOMAIN ms
           /\ \A x \in In(f) : \E i \in DOMAIN ms : x = f[i]
           /\ \A i \in DOMAIN ms : f[i] \in In(f) /\ f[i] # Garbled /\ ms[i] \in In(ms)
<1>1. /\ IsSeq(f) /\ DOMAIN f = DOMAIN ms /\ (f = <<>> <=> ms = <<>>)
      /\ \A x \in In(f) : \E i \in DOMAIN ms : x = f[i]
      /\ \A i \in DOMAIN ms : ms[i] \in In(ms) /\ f[i] \in In(f)
    BY ItemwiseIs
<1>2. n = List(f)
    BY <1>1, BracesIs
<1>3. \A i \in DOMAIN ms : f[i] # Garbled
    <2> TAKE i \in DOMAIN ms
    <2>1. ms # <<>>
        BY SequenceFacts, EmptyIs, <1>1
    <2> QED BY <1>1, <2>1, BracesIs
<1> QED BY <1>1, <1>2, <1>3, ListIs

(* Two sequences with the same values are the same.                           *)
LEMMA SameSequence ==
    ASSUME NEW s, IsSeq(s), NEW g, g = [i \in DOMAIN s |-> g[i]], \A i \in DOMAIN s : g[i] = s[i]
    PROVE  g = s
<1>1. s = [i \in DOMAIN s |-> s[i]]
    BY SequenceFacts
<1> QED BY <1>1

(* A line that is written, and its value.                                     *)
LEMMA LineKept ==
    ASSUME NEW k, NEW n, Line(k, n).val # Garbled
    PROVE  Line(k, n) = Pair(k, n) /\ Line(k, n).key = k /\ Line(k, n).val = n /\ n # Garbled
BY LineIs DEF Pair

-------------------------------------------------------------------------------
(* Imports.                                                                   *)
ImportEntryOK(e) ==
    \/ e.val.kind = "scalar"
    \/ MapOf(e.val, {"uri", "version"}) /\ Value(e.val, "uri", "") # ""
ImportIn(im) ==
    /\ im = [alias |-> im.alias, uri |-> im.uri, version |-> im.version]
    /\ im.version # "" => im.uri # ""

(* An import that is written is accepted, and read as it was.                 *)
LEMMA ImportKept ==
    ASSUME NEW im, ImportIn(im), WriteImport(im).val # Garbled
    PROVE  ImportEntryOK(WriteImport(im)) /\ ReadImport(WriteImport(im)) = im
<1> DEFINE e == WriteImport(im)
           u == <<Line("uri", Quoted(im.uri)), Line("version", Quoted(im.version))>>
<1>1. CASE im.version = ""
    <2>1. e = Line(im.alias, Quoted(im.uri))
        BY <1>1 DEF WriteImport
    <2> HIDE DEF e
    <2>2. e.val # Garbled
        BY DEF e
    <2>3. e.key = im.alias /\ e.val = Scalar(im.uri)
        BY <2>1, <2>2, LineKept, PlainIs
    <2>4. e.val.kind = "scalar" /\ e.val.value = im.uri
        BY <2>3, ScalarIs
    <2> QED BY <1>1, <2>3, <2>4 DEF e, ImportEntryOK, ReadImport, ImportIn
<1>2. CASE im.version # ""
    <2>1. e = Line(im.alias, Block(u))
        BY <1>2 DEF WriteImport
    <2> HIDE DEF e, u
    <2>2. e.val # Garbled
        BY DEF e
    <2>3. e.key = im.alias /\ e.val = Block(u) /\ Block(u) # Garbled
        BY <2>1, <2>2, LineKept
    <2>4. Clean(u)
        BY <2>3, BracesIs
    <2>5. PICK s : Longer(<<>>, TRUE, "uri", Quoted(im.uri), s) /\ Longer(s, TRUE, "version", Quoted(im.version), u)
        BY <2>4, TwoLines DEF u
    <2>6. u # <<>>
        BY <2>5 DEF Longer
    <2>7. e.val = Mapping(u)
        BY <2>3, <2>6, BracesIs
    <2>8. Quoted(im.uri) = Scalar(im.uri) /\ Quoted(im.version) = Scalar(im.version)
        BY <2>5, PlainIs DEF Longer
    <2>9. At(Mapping(u), "uri", Scalar("")) = Scalar(im.uri)
          /\ At(Mapping(u), "version", Scalar("")) = Scalar(im.version)
        BY <2>5, <2>8 DEF Longer
    <2>10. Value(e.val, "uri", "") = im.uri /\ Value(e.val, "version", "") = im.version
        BY <2>7, <2>9, ScalarIs DEF Value
    <2>11. Keys(e.val) \subseteq {"uri", "version"} /\ e.val.kind = "mapping"
        BY <2>5, <2>7, NoLines, MappingIs DEF Longer
    <2> QED BY <1>2, <2>3, <2>10, <2>11 DEF e, ImportEntryOK, ReadImport, ImportIn, MapOf
<1> QED BY <1>1, <1>2

-------------------------------------------------------------------------------
(* Enums.                                                                     *)
EnumEntryOK(e) ==
    /\ MapOf(e.val, {"doc", "values"})
    /\ \A v \in Under(e.val, "values") : v.kind = "sequence" /\ \A x \in In(v.items) : EnumValueOK(x)
EnumValueIn(v, i) ==
    /\ v = [name |-> v.name, id |-> v.id, explicit |-> v.explicit]
    /\ v.explicit \in BOOLEAN
    /\ IF v.explicit THEN \E t \in DOMAIN Ints : Ints[t] = v.id ELSE v.id = i - 1
EnumIn(en) ==
    /\ en = [name |-> en.name, doc |-> en.doc, values |-> en.values]
    /\ en.doc \notin DOMAIN Cleaned
    /\ IsSeq(en.values) /\ \A i \in DOMAIN en.values : EnumValueIn(en.values[i], i)
EnumItem(v) ==
    IF ~v.explicit THEN Plain(v.name)
    ELSE Braces(<<Line(v.name, Scalar(CHOOSE t \in DOMAIN Ints : Ints[t] = v.id))>>)
ReadEnumItem(x, i) ==
    IF x.kind = "scalar"
    THEN [name |-> x.value, id |-> i - 1, explicit |-> FALSE]
    ELSE [name |-> x.entries[1].key, id |-> Ints[x.entries[1].val.value], explicit |-> TRUE]

(* So is a value of an enum, with its number if it has one, ...               *)
LEMMA EnumItemKept ==
    ASSUME NEW v, NEW i, EnumValueIn(v, i), EnumItem(v) # Garbled
    PROVE  EnumValueOK(EnumItem(v)) /\ ReadEnumItem(EnumItem(v), i) = v
<1>1. CASE ~v.explicit
    <2>1. EnumItem(v) = Scalar(v.name)
        BY <1>1, PlainIs DEF EnumItem
    <2>2. EnumItem(v).kind = "scalar" /\ EnumItem(v).value = v.name
        BY <2>1, ScalarIs
    <2>3. v.explicit = FALSE /\ v.id = i - 1
        BY <1>1 DEF EnumValueIn
    <2>4. v = [name |-> v.name, id |-> i - 1, explicit |-> FALSE]
        BY <2>3 DEF EnumValueIn
    <2> QED BY <2>2, <2>4 DEF EnumValueOK, ReadEnumItem
<1>2. CASE v.explicit
    <2> DEFINE t == CHOOSE x \in DOMAIN Ints : Ints[x] = v.id
               l == Line(v.name, Scalar(t))
               n == EnumItem(v)
    <2>1. t \in DOMAIN Ints /\ Ints[t] = v.id
        BY <1>2 DEF EnumValueIn
    <2>2. n = Braces(<<l>>)
        BY <1>2 DEF EnumItem
    <2> HIDE DEF t, n
    <2>3. n # Garbled
        BY DEF n
    <2>4. Clean(<<l>>) /\ n = Mapping(<<l>>)
        BY <2>2, <2>3, BracesIs
    <2>5. l.val # Garbled
        BY <2>4, SingletonIs DEF Clean
    <2>6. l.key = v.name /\ l.val = Scalar(t)
        BY <2>5, LineKept
    <2>7. n.kind = "mapping" /\ n.entries = <<l>> /\ Len(<<l>>) = 1 /\ <<l>>[1] = l
        BY <2>4, MappingIs, SingletonIs
    <2>8. n.entries[1].key = v.name /\ n.entries[1].val.value = t /\ Len(n.entries) = 1 /\ n.kind # "scalar"
        BY <2>6, <2>7, ScalarIs
    <2>9. v = [name |-> v.name, id |-> v.id, explicit |-> TRUE]
        BY <1>2 DEF EnumValueIn
    <2> QED BY <2>1, <2>7, <2>8, <2>9 DEF n, EnumValueOK, ReadEnumItem
<1> QED BY <1>1, <1>2

(* ... and the enum, unless it has no values.                                 *)
LEMMA EnumKept ==
    ASSUME NEW en, EnumIn(en), WriteEnum(en).val # Garbled
    PROVE  /\ EnumEntryOK(WriteEnum(en)) <=> en.values # <<>>
           /\ en.values # <<>> => ReadEnum(WriteEnum(en)) = en
<1> DEFINE e == WriteEnum(en)
           f == [i \in DOMAIN en.values |-> EnumItem(en.values[i])]
           list == IF en.values = <<>> THEN Scalar("") ELSE Listed(f)
           u == LineIf(en.doc # "", "doc", Quoted(en.doc)) \o <<Line("values", list)>>
<1>1. e = Line(en.name, Block(u))
    BY DEF WriteEnum, Each, EnumItem
<1>2. e.val # Garbled
    OBVIOUS
<1> HIDE DEF e, u, list, f
<1>3. e.key = en.name /\ e.val = Block(u) /\ Clean(u) /\ Block(u) # Garbled
    BY <1>1, <1>2, LineKept, BracesIs
<1> DEFINE
    c1 == en.doc # ""
           t1 == LineIf(c1, "doc", Quoted(en.doc))
           s1 == t1
           c2 == TRUE
           t2 == LineIf(c2, "values", list)
           s2 == s1 \o t2
<1>0. u = s2
    BY LineIfIs, EmptyIs DEF u
<1>00. c1 \in BOOLEAN /\ c2 \in BOOLEAN
    OBVIOUS
<1>a1. IsSeq(s1)
    <2>1. IsSeq(<<>>)  BY EmptyIs
    <2> HIDE DEF c1
    <2> QED BY <2>1, <1>00, LineIfIs
<1>a2. IsSeq(s2)
    <2> HIDE DEF s1, c2
    <2> QED BY <1>a1, <1>00, LineIfIs
<1>b2. Clean(s2)
    BY <1>0, <1>3
<1>l2. Longer(s1, c2, "values", list, s2)
    <2> HIDE DEF s1, c2
    <2> QED BY <1>a1, <1>b2, <1>00, LongerIs
<1>b1. Clean(s1)
    BY <1>l2 DEF Longer
<1>l1. Longer(<<>>, c1, "doc", Quoted(en.doc), s1)
    <2> HIDE DEF c1
    <2> QED BY <1>b1, <1>00, FirstLine
<1> HIDE DEF s1, s2, c1, c2, u
<1>g. /\ c1 => Quoted(en.doc) # Garbled
      /\ c2 => list # Garbled
    BY <1>l1, <1>l2 DEF Longer
<1>z. IsSeq(u) /\ (u = <<>> <=> ~c1 /\ ~c2)
    BY <1>0, <1>a2, <1>l1, <1>l2 DEF Longer
<1>v1. \A d : At(Mapping(u), "doc", d) = IF c1 THEN Quoted(en.doc) ELSE d
    BY <1>0, <1>l1, <1>l2, NoLines DEF Longer
<1>v2. \A d : At(Mapping(u), "values", d) = IF c2 THEN list ELSE d
    BY <1>0, <1>l1, <1>l2, NoLines DEF Longer
<1>u2. \A v : v \in Under(Mapping(u), "values") <=> c2 /\ v = list
    BY <1>0, <1>l1, <1>l2, NoLines DEF Longer
<1>k. Keys(Mapping(u)) \subseteq {"doc", "values"}
    BY <1>0, <1>l1, <1>l2, NoLines DEF Longer
<1>4. e.val = Mapping(u) /\ e.val.kind = "mapping"
    <2>1. u # <<>>  BY <1>z DEF c2
    <2>2. Block(u) = Mapping(u)  BY <1>3, <2>1, BracesIs
    <2>3. Mapping(u).kind = "mapping"  BY MappingIs
    <2>4. e.val = Mapping(u)  BY <1>3, <2>2
    <2> QED BY <2>3, <2>4
<1>5. MapOf(e.val, {"doc", "values"})
    BY <1>4, <1>k DEF MapOf
<1>6. CleanDoc(e.val) = en.doc
    <2>1. At(Mapping(u), "doc", Scalar("")) = IF c1 THEN Scalar(en.doc) ELSE Scalar("")
        BY <1>v1, <1>g, PlainIs
    <2>2. Value(e.val, "doc", "") = en.doc
        BY <1>4, <2>1, ScalarIs DEF Value, c1
    <2> QED BY <2>2 DEF CleanDoc, EnumIn
<1>7. CASE en.values = <<>>
    <2>1. list = Scalar("")
        BY <1>7 DEF list
    <2>2. list \in Under(e.val, "values") /\ list.kind # "sequence"
        BY <2>1, <1>4, <1>u2, ScalarIs DEF c2
    <2> QED BY <1>7, <2>2 DEF EnumEntryOK, e
<1>8. CASE en.values # <<>>
    <2>0. list = (IF en.values # <<>> THEN Listed(f) ELSE List(<<>>)) /\ Listed(f) # Garbled
        BY <1>8, <1>g DEF list, c2
    <2>1. IsSeq(en.values) /\ f = [i \in DOMAIN en.values |-> f[i]]
          /\ \A i \in DOMAIN en.values : f[i] = EnumItem(en.values[i])
        BY DEF EnumIn, f
    <2>2. /\ list.items = f /\ list.kind = "sequence" /\ DOMAIN f = DOMAIN en.values
          /\ \A x \in In(f) : \E i \in DOMAIN en.values : x = f[i]
          /\ \A i \in DOMAIN en.values : f[i] # Garbled
        <3> DEFINE vs == en.values
        <3>1. IsSeq(vs) /\ f = [i \in DOMAIN vs |-> f[i]]  BY <2>1
        <3>2. vs # <<>> => Listed(f) # Garbled  BY <2>0
        <3>3. list = IF vs # <<>> THEN Listed(f) ELSE List(<<>>)  BY <2>0
        <3> HIDE DEF vs
        <3>4. /\ list.items = f /\ list.kind = "sequence" /\ DOMAIN f = DOMAIN vs
              /\ \A x \in In(f) : \E i \in DOMAIN vs : x = f[i]
              /\ \A i \in DOMAIN vs : f[i] # Garbled
            BY <3>1, <3>2, <3>3, ListedAre
        <3> QED BY <3>4 DEF vs
    <2>3. \A i \in DOMAIN en.values : EnumValueOK(f[i]) /\ ReadEnumItem(f[i], i) = en.values[i]
        <3> TAKE i \in DOMAIN en.values
        <3>1. EnumValueIn(en.values[i], i)
            BY DEF EnumIn
        <3> QED BY <2>1, <2>2, <3>1, EnumItemKept
    <2>4. EnumEntryOK(e)
        <3>1. \A v \in Under(e.val, "values") : v = list
            BY <1>4, <1>u2
        <3> QED BY <1>5, <2>2, <2>3, <3>1 DEF EnumEntryOK
    <2>5. At(e.val, "values", List(<<>>)).items = f
        BY <1>4, <1>v2, <2>2 DEF c2
    <2>6. ReadEnum(e) = [name |-> en.name, doc |-> en.doc,
                         values |-> [i \in DOMAIN f |-> ReadEnumItem(f[i], i)]]
        BY <1>3, <1>6, <2>5 DEF ReadEnum, ReadEnumItem
    <2>7. [i \in DOMAIN f |-> ReadEnumItem(f[i], i)] = en.values
        <3> DEFINE g == [i \in DOMAIN f |-> ReadEnumItem(f[i], i)]
                   vs == en.values
        <3>1. g = [i \in DOMAIN vs |-> g[i]] /\ (\A i \in DOMAIN vs : g[i] = vs[i]) /\ IsSeq(vs)
            BY <2>1, <2>2, <2>3
        <3> HIDE DEF g, vs
        <3>2. g = vs
            BY <3>1, SameSequence
        <3> QED BY <3>2 DEF g, vs
    <2>8. en = [name |-> en.name, doc |-> en.doc, values |-> en.values]
        BY DEF EnumIn
    <2> QED BY <1>8, <2>4, <2>6, <2>7, <2>8 DEF e
<1> QED BY <1>7, <1>8

-------------------------------------------------------------------------------
(* Types.                                                                     *)
TypeEntryOK(e) ==
    /\ MapOf(e.val, {"doc", "base", "abstract", "members"})
    /\ \A v \in Under(e.val, "abstract") : v.value \in DOMAIN Bools
    /\ \A v \in Under(e.val, "members") : MembersOK[v]
TypeIn(ot) ==
    /\ ot = [name |-> ot.name, doc |-> ot.doc, base |-> ot.base, abstract |-> ot.abstract, members |-> ot.members]
    /\ ot.doc \notin DOMAIN Cleaned /\ ot.abstract \in BOOLEAN
    /\ IsSeq(ot.members) /\ \A x \in In(ot.members) : x \in Members /\ Proper(x)
BareType(ot) == ot.doc = "" /\ ot.base = "" /\ ~ot.abstract /\ ot.members = <<>>
CanonicalMembers(ms) == [i \in DOMAIN ms |-> Canonical[ms[i]]]
CanonicalType(ot) ==
    [name |-> ot.name, doc |-> ot.doc, base |-> ot.base, abstract |-> ot.abstract,
     members |-> CanonicalMembers(ot.members)]

(* A type is kept in its canonical form, unless it is bare.                   *)
LEMMA TypeKept ==
    ASSUME NEW ot, TypeIn(ot), WriteType(ot).val # Garbled
    PROVE  /\ TypeEntryOK(WriteType(ot)) <=> ~BareType(ot)
           /\ ~BareType(ot) => ReadType(WriteType(ot)) = CanonicalType(ot)
<1> DEFINE e == WriteType(ot)
           ms == ot.members
           c == Block(Written(ms))
           u == LineIf(ot.doc # "", "doc", Quoted(ot.doc))
                \o LineIf(ot.base # "", "base", Plain(ot.base))
                \o LineIf(ot.abstract, "abstract", Scalar("true"))
                \o LineIf(ms # <<>>, "members", c)
<1>1. e = Line(ot.name, Block(u))
    BY Zenon DEF WriteType, Section, Each, Written
<1>2. e.val # Garbled
    OBVIOUS
<1> HIDE DEF e, u, c
<1>3. e.key = ot.name /\ e.val = Block(u) /\ Clean(u) /\ Block(u) # Garbled
    BY <1>1, <1>2, LineKept, BracesIs
<1>in. ot.abstract \in BOOLEAN /\ IsSeq(ms)
    BY DEF TypeIn
<1> DEFINE
    c1 == ot.doc # ""
           t1 == LineIf(c1, "doc", Quoted(ot.doc))
           s1 == t1
           c2 == ot.base # ""
           t2 == LineIf(c2, "base", Plain(ot.base))
           s2 == s1 \o t2
           c3 == ot.abstract
           t3 == LineIf(c3, "abstract", Scalar("true"))
           s3 == s2 \o t3
           c4 == ms # <<>>
           t4 == LineIf(c4, "members", c)
           s4 == s3 \o t4
<1>0. u = s4
    BY DEF u
<1>00. c1 \in BOOLEAN /\ c2 \in BOOLEAN /\ c3 \in BOOLEAN /\ c4 \in BOOLEAN
    BY <1>in
<1>a1. IsSeq(s1)
    <2>1. IsSeq(<<>>)  BY EmptyIs
    <2> HIDE DEF c1
    <2> QED BY <2>1, <1>00, LineIfIs
<1>a2. IsSeq(s2)
    <2> HIDE DEF s1, c2
    <2> QED BY <1>a1, <1>00, LineIfIs
<1>a3. IsSeq(s3)
    <2> HIDE DEF s2, c3
    <2> QED BY <1>a2, <1>00, LineIfIs
<1>a4. IsSeq(s4)
    <2> HIDE DEF s3, c4
    <2> QED BY <1>a3, <1>00, LineIfIs
<1>b4. Clean(s4)
    BY <1>0, <1>3
<1>l4. Longer(s3, c4, "members", c, s4)
    <2> HIDE DEF s3, c4
    <2> QED BY <1>a3, <1>b4, <1>00, LongerIs
<1>b3. Clean(s3)
    BY <1>l4 DEF Longer
<1>l3. Longer(s2, c3, "abstract", Scalar("true"), s3)
    <2> HIDE DEF s2, c3
    <2> QED BY <1>a2, <1>b3, <1>00, LongerIs
<1>b2. Clean(s2)
    BY <1>l3 DEF Longer
<1>l2. Longer(s1, c2, "base", Plain(ot.base), s2)
    <2> HIDE DEF s1, c2
    <2> QED BY <1>a1, <1>b2, <1>00, LongerIs
<1>b1. Clean(s1)
    BY <1>l2 DEF Longer
<1>l1. Longer(<<>>, c1, "doc", Quoted(ot.doc), s1)
    <2> HIDE DEF c1
    <2> QED BY <1>b1, <1>00, FirstLine
<1> HIDE DEF s1, s2, s3, s4, c1, c2, c3, c4, u
<1>g. /\ c1 => Quoted(ot.doc) # Garbled
      /\ c2 => Plain(ot.base) # Garbled
      /\ c3 => Scalar("true") # Garbled
      /\ c4 => c # Garbled
    BY <1>l1, <1>l2, <1>l3, <1>l4 DEF Longer
<1>z. IsSeq(u) /\ (u = <<>> <=> ~c1 /\ ~c2 /\ ~c3 /\ ~c4)
    BY <1>0, <1>a4, <1>l1, <1>l2, <1>l3, <1>l4 DEF Longer
<1>v1. \A d : At(Mapping(u), "doc", d) = IF c1 THEN Quoted(ot.doc) ELSE d
    BY <1>0, <1>l1, <1>l2, <1>l3, <1>l4, NoLines DEF Longer
<1>v2. \A d : At(Mapping(u), "base", d) = IF c2 THEN Plain(ot.base) ELSE d
    BY <1>0, <1>l1, <1>l2, <1>l3, <1>l4, NoLines DEF Longer
<1>v3. \A d : At(Mapping(u), "abstract", d) = IF c3 THEN Scalar("true") ELSE d
    BY <1>0, <1>l1, <1>l2, <1>l3, <1>l4, NoLines DEF Longer
<1>v4. \A d : At(Mapping(u), "members", d) = IF c4 THEN c ELSE d
    BY <1>0, <1>l1, <1>l2, <1>l3, <1>l4, NoLines DEF Longer
<1>u3. \A v : v \in Under(Mapping(u), "abstract") <=> c3 /\ v = Scalar("true")
    BY <1>0, <1>l1, <1>l2, <1>l3, <1>l4, NoLines DEF Longer
<1>u4. \A v : v \in Under(Mapping(u), "members") <=> c4 /\ v = c
    BY <1>0, <1>l1, <1>l2, <1>l3, <1>l4, NoLines DEF Longer
<1>k. Keys(Mapping(u)) \subseteq {"doc", "base", "abstract", "members"}
    BY <1>0, <1>l1, <1>l2, <1>l3, <1>l4, NoLines DEF Longer
<1>4. BareType(ot) <=> u = <<>>
    BY <1>z DEF BareType, c1, c2, c3, c4
<1>5. CASE u = <<>>
    <2>1. e.val = Scalar("")
        BY <1>3, <1>5, BracesIs
    <2>2. e.val.kind # "mapping"
        BY <2>1, ScalarIs
    <2> QED BY <1>4, <1>5, <2>2 DEF TypeEntryOK, MapOf, e
<1>6. CASE u # <<>>
    <2>1. e.val = Mapping(u)
        BY <1>3, <1>6, BracesIs
    <2>2. e.val.kind = "mapping"
        BY <2>1, MappingIs
    <2>3. MapOf(e.val, {"doc", "base", "abstract", "members"})
        BY <2>1, <2>2, <1>k DEF MapOf
    <2>4. \A v \in Under(e.val, "abstract") : v.value \in DOMAIN Bools
        <3>1. "true" \in DOMAIN Bools  BY StringsAssumption
        <3>2. Scalar("true").value = "true"  BY ScalarIs
        <3> QED BY <2>1, <1>u3, <3>1, <3>2
    <2>5. c4 => /\ c.kind = "mapping" /\ MembersOK[c]
                /\ [i \in DOMAIN c.entries |-> ReadMember[c.entries[i]]] = CanonicalMembers(ms)
        <3> SUFFICES ASSUME c4
            PROVE  /\ c.kind = "mapping" /\ MembersOK[c]
                   /\ [i \in DOMAIN c.entries |-> ReadMember[c.entries[i]]] = CanonicalMembers(ms)
            OBVIOUS
        <3>1. \A x \in In(ms) : Kept(Depth, x)
            BY MembersKept, DepthIsNat DEF TypeIn, Members
        <3>2. Block(Written(ms)) # Garbled /\ ms # <<>>
            BY <1>g DEF c, c4
        <3>3. Depth \in Nat /\ Depth <= Depth
            BY DepthIsNat
        <3> HIDE DEF ms
        <3> QED BY <1>in, <3>1, <3>2, <3>3, BlockKept DEF c, CanonicalMembers
    <2>6. \A v \in Under(e.val, "members") : MembersOK[v]
        BY <2>1, <2>5, <1>u4
    <2>7. CleanDoc(e.val) = ot.doc
        <3>1. At(Mapping(u), "doc", Scalar("")) = IF c1 THEN Scalar(ot.doc) ELSE Scalar("")
            BY <1>v1, <1>g, PlainIs
        <3>2. Value(e.val, "doc", "") = ot.doc
            BY <2>1, <3>1, ScalarIs DEF Value, c1
        <3> QED BY <3>2 DEF CleanDoc, TypeIn
    <2>8. Value(e.val, "base", "") = ot.base
        <3>1. At(Mapping(u), "base", Scalar("")) = IF c2 THEN Scalar(ot.base) ELSE Scalar("")
            BY <1>v2, <1>g, PlainIs
        <3> QED BY <2>1, <3>1, ScalarIs DEF Value, c2
    <2>9. Bools[Value(e.val, "abstract", "false")] = ot.abstract
        <3>1. At(Mapping(u), "abstract", Scalar("false")) = IF c3 THEN Scalar("true") ELSE Scalar("false")
            BY <1>v3
        <3>2. Value(e.val, "abstract", "false") = IF c3 THEN "true" ELSE "false"
            BY <2>1, <3>1, ScalarIs DEF Value
        <3>3. Bools["true"] = TRUE /\ Bools["false"] = FALSE
            BY StringsAssumption
        <3> QED BY <3>2, <3>3, <1>in DEF c3
    <2>10. [i \in DOMAIN Children(e.val, "members") |-> ReadMember[Children(e.val, "members")[i]]]
           = CanonicalMembers(ms)
        <3> DEFINE b == Children(e.val, "members")
        <3>1. b = (IF c4 THEN c ELSE Mapping(<<>>)).entries
            BY <2>1, <1>v4 DEF Children
        <3>2. CASE c4
            BY <2>5, <3>1, <3>2
        <3>3. CASE ~c4
            <4> DEFINE f == [i \in DOMAIN b |-> ReadMember[b[i]]]
                       g == CanonicalMembers(ms)
            <4>1. b = <<>> /\ ms = <<>>
                BY <3>1, <3>3, MappingIs DEF c4
            <4>2. f = [i \in DOMAIN b |-> f[i]]
                OBVIOUS
            <4>3. g = [i \in DOMAIN ms |-> g[i]]
                BY DEF CanonicalMembers
            <4> HIDE DEF f, g, b, ms
            <4>4. f = <<>> /\ g = <<>>
                BY <4>1, <4>2, <4>3, NoneIs
            <4> QED BY <4>4 DEF f, g, b
        <3> QED BY <3>2, <3>3
    <2>11. ReadType(e) = [name |-> ot.name, doc |-> ot.doc, base |-> ot.base, abstract |-> ot.abstract,
                          members |-> CanonicalMembers(ms)]
        BY <1>3, <2>7, <2>8, <2>9, <2>10 DEF ReadType, Each
    <2> QED BY <1>4, <1>6, <2>3, <2>4, <2>6, <2>11 DEF TypeEntryOK, CanonicalType, e
<1> QED BY <1>5, <1>6

-------------------------------------------------------------------------------
(* Instances.                                                                 *)
OfOK(v) == Named(v, {"of"}) /\ \A x \in In(v.entries) : Value(x.val, "of", "") # ""
ValuesOK(v) == v.kind = "mapping" /\ \A x \in In(v.entries) : x.val.kind = "scalar"
InstanceEntryOK(e) ==
    /\ MapOf(e.val, {"type", "under", "level", "values", "children"})
    /\ \A v \in Under(e.val, "values") : ValuesOK(v)
    /\ \A v \in Under(e.val, "children") : OfOK(v)
InstanceIn(inst) ==
    /\ inst = [name |-> inst.name, type |-> inst.type, under |-> inst.under, level |-> inst.level,
               values |-> inst.values, children |-> inst.children]
    /\ IsSeq(inst.values) /\ IsSeq(inst.children)
    /\ \A v \in In(inst.values) : v = [member |-> v.member, raw |-> v.raw]
    /\ \A ch \in In(inst.children) : ch = [name |-> ch.name, of |-> ch.of] /\ ch.of # ""
ValueLine(m, inst, v) ==
    Line(v.member, ValueLiteral(m, MemberType(m, Ref(inst.type)[2], v.member), v.raw))
OfLine(ch) == Line(ch.name, Braces(<<Line("of", Quoted(ch.of))>>))
ReadValueLine(x) == [member |-> x.key, raw |-> x.val.value]
ReadOfLine(x) == [name |-> x.key, of |-> Value(x.val, "of", "")]

(* A value is kept whether or not it is quoted.                               *)
LEMMA ValueLineKept ==
    ASSUME NEW m, NEW inst, NEW v, v = [member |-> v.member, raw |-> v.raw], ValueLine(m, inst, v).val # Garbled
    PROVE  ValueLine(m, inst, v).val.kind = "scalar" /\ ReadValueLine(ValueLine(m, inst, v)) = v
<1> DEFINE type == MemberType(m, Ref(inst.type)[2], v.member)
           n == ValueLiteral(m, type, v.raw)
           e == ValueLine(m, inst, v)
<1>1. e = Line(v.member, n)
    BY DEF ValueLine
<1>2. e.val # Garbled
    OBVIOUS
<1>3. n = Plain(v.raw) \/ n = Quoted(v.raw)
    <2> HIDE DEF type
    <2> QED BY DEF ValueLiteral
<1> HIDE DEF e, n, type
<1>4. e.key = v.member /\ e.val = n /\ n # Garbled
    BY <1>1, <1>2, LineKept
<1>5. n = Scalar(v.raw)
    BY <1>3, <1>4, PlainIs
<1>6. e.val.kind = "scalar" /\ e.val.value = v.raw
    BY <1>4, <1>5, ScalarIs
<1>7. ReadValueLine(e) = [member |-> v.member, raw |-> v.raw]
    BY <1>4, <1>6 DEF ReadValueLine
<1> QED BY <1>6, <1>7 DEF e

(* A child is kept with what it stands for.                                   *)
LEMMA OfLineKept ==
    ASSUME NEW ch, ch = [name |-> ch.name, of |-> ch.of], ch.of # "", OfLine(ch).val # Garbled
    PROVE  /\ MapOf(OfLine(ch).val, {"of"}) /\ Value(OfLine(ch).val, "of", "") # ""
           /\ ReadOfLine(OfLine(ch)) = ch
<1> DEFINE u == <<Line("of", Quoted(ch.of))>>
           e == OfLine(ch)
<1>1. e = Line(ch.name, Braces(u))
    BY DEF OfLine
<1>2. e.val # Garbled
    OBVIOUS
<1>3. u = LineIf(TRUE, "of", Quoted(ch.of))
    BY DEF LineIf
<1> HIDE DEF e, u
<1>4. e.key = ch.name /\ e.val = Braces(u) /\ Braces(u) # Garbled
    BY <1>1, <1>2, LineKept
<1>5. Clean(u) /\ e.val = Mapping(u)
    BY <1>4, BracesIs
<1>6. Longer(<<>>, TRUE, "of", Quoted(ch.of), u)
    BY <1>3, <1>5, FirstLine
<1>7. Quoted(ch.of) = Scalar(ch.of)
    BY <1>6, PlainIs DEF Longer
<1>8. At(Mapping(u), "of", Scalar("")) = Scalar(ch.of) /\ Keys(Mapping(u)) \subseteq {"of"}
    BY <1>6, <1>7, NoLines DEF Longer
<1>9. Value(e.val, "of", "") = ch.of
    BY <1>5, <1>8, ScalarIs DEF Value
<1>10. MapOf(e.val, {"of"})
    BY <1>5, <1>8, MappingIs DEF MapOf
<1>11. ReadOfLine(e) = [name |-> ch.name, of |-> ch.of]
    BY <1>4, <1>9 DEF ReadOfLine
<1> QED BY <1>9, <1>10, <1>11 DEF e

(* An instance is kept.                                                       *)
LEMMA InstanceKept ==
    ASSUME NEW m, NEW inst, InstanceIn(inst), WriteInstance(m, inst).val # Garbled
    PROVE  InstanceEntryOK(WriteInstance(m, inst)) /\ ReadInstance(WriteInstance(m, inst)) = inst
<1> DEFINE e == WriteInstance(m, inst)
           vs == inst.values
           chs == inst.children
           f == [i \in DOMAIN vs |-> ValueLine(m, inst, vs[i])]
           g == [i \in DOMAIN chs |-> OfLine(chs[i])]
           u == <<Line("type", Plain(inst.type)), Line("under", Plain(inst.under))>>
                \o LineIf(inst.level # "", "level", Plain(inst.level))
                \o LineIf(vs # <<>>, "values", Block(f))
                \o LineIf(chs # <<>>, "children", Block(g))
<1>1. e = Line(inst.name, Block(u))
    BY Zenon DEF WriteInstance, Section, Each, ValueLine, OfLine
<1>2. e.val # Garbled
    OBVIOUS
<1>in. IsSeq(vs) /\ IsSeq(chs)
    BY DEF InstanceIn
<1>f. f = [i \in DOMAIN vs |-> f[i]] /\ \A i \in DOMAIN vs : f[i] = ValueLine(m, inst, vs[i])
    OBVIOUS
<1>h. g = [i \in DOMAIN chs |-> g[i]] /\ \A i \in DOMAIN chs : g[i] = OfLine(chs[i])
    OBVIOUS
<1> HIDE DEF e, u, f, g, vs, chs
<1>3. e.key = inst.name /\ e.val = Block(u) /\ Clean(u) /\ Block(u) # Garbled
    BY <1>1, <1>2, LineKept, BracesIs
<1> DEFINE
    c1 == TRUE
           t1 == LineIf(c1, "type", Plain(inst.type))
           s1 == t1
           c2 == TRUE
           t2 == LineIf(c2, "under", Plain(inst.under))
           s2 == s1 \o t2
           c3 == inst.level # ""
           t3 == LineIf(c3, "level", Plain(inst.level))
           s3 == s2 \o t3
           c4 == vs # <<>>
           t4 == LineIf(c4, "values", Block(f))
           s4 == s3 \o t4
           c5 == chs # <<>>
           t5 == LineIf(c5, "children", Block(g))
           s5 == s4 \o t5
<1>0. u = s5
    <2> DEFINE x == Line("type", Plain(inst.type))
               y == Line("under", Plain(inst.under))
    <2>1. <<x>> \o <<y>> = <<x, y>>
        <3> HIDE DEF x, y
        <3> QED BY JoinedIs
    <2>2. t1 = <<x>> /\ t2 = <<y>>
        BY DEF LineIf
    <2>3. s2 = <<x, y>>
        BY <2>1, <2>2
    <2>4. u = <<x, y>> \o t3 \o t4 \o t5
        BY DEF u
    <2> HIDE DEF s2
    <2> QED BY <2>3, <2>4
<1>00. c1 \in BOOLEAN /\ c2 \in BOOLEAN /\ c3 \in BOOLEAN /\ c4 \in BOOLEAN /\ c5 \in BOOLEAN
    OBVIOUS
<1>a1. IsSeq(s1)
    <2>1. IsSeq(<<>>)  BY EmptyIs
    <2> HIDE DEF c1
    <2> QED BY <2>1, <1>00, LineIfIs
<1>a2. IsSeq(s2)
    <2> HIDE DEF s1, c2
    <2> QED BY <1>a1, <1>00, LineIfIs
<1>a3. IsSeq(s3)
    <2> HIDE DEF s2, c3
    <2> QED BY <1>a2, <1>00, LineIfIs
<1>a4. IsSeq(s4)
    <2> HIDE DEF s3, c4
    <2> QED BY <1>a3, <1>00, LineIfIs
<1>a5. IsSeq(s5)
    <2> HIDE DEF s4, c5
    <2> QED BY <1>a4, <1>00, LineIfIs
<1>b5. Clean(s5)
    BY <1>0, <1>3
<1>l5. Longer(s4, c5, "children", Block(g), s5)
    <2> HIDE DEF s4, c5
    <2> QED BY <1>a4, <1>b5, <1>00, LongerIs
<1>b4. Clean(s4)
    BY <1>l5 DEF Longer
<1>l4. Longer(s3, c4, "values", Block(f), s4)
    <2> HIDE DEF s3, c4
    <2> QED BY <1>a3, <1>b4, <1>00, LongerIs
<1>b3. Clean(s3)
    BY <1>l4 DEF Longer
<1>l3. Longer(s2, c3, "level", Plain(inst.level), s3)
    <2> HIDE DEF s2, c3
    <2> QED BY <1>a2, <1>b3, <1>00, LongerIs
<1>b2. Clean(s2)
    BY <1>l3 DEF Longer
<1>l2. Longer(s1, c2, "under", Plain(inst.under), s2)
    <2> HIDE DEF s1, c2
    <2> QED BY <1>a1, <1>b2, <1>00, LongerIs
<1>b1. Clean(s1)
    BY <1>l2 DEF Longer
<1>l1. Longer(<<>>, c1, "type", Plain(inst.type), s1)
    <2> HIDE DEF c1
    <2> QED BY <1>b1, <1>00, FirstLine
<1> HIDE DEF s1, s2, s3, s4, s5, c1, c2, c3, c4, c5, u
<1>g. /\ c1 => Plain(inst.type) # Garbled
      /\ c2 => Plain(inst.under) # Garbled
      /\ c3 => Plain(inst.level) # Garbled
      /\ c4 => Block(f) # Garbled
      /\ c5 => Block(g) # Garbled
    BY <1>l1, <1>l2, <1>l3, <1>l4, <1>l5 DEF Longer
<1>z. IsSeq(u) /\ (u = <<>> <=> ~c1 /\ ~c2 /\ ~c3 /\ ~c4 /\ ~c5)
    BY <1>0, <1>a5, <1>l1, <1>l2, <1>l3, <1>l4, <1>l5 DEF Longer
<1>v1. \A d : At(Mapping(u), "type", d) = IF c1 THEN Plain(inst.type) ELSE d
    BY <1>0, <1>l1, <1>l2, <1>l3, <1>l4, <1>l5, NoLines DEF Longer
<1>v2. \A d : At(Mapping(u), "under", d) = IF c2 THEN Plain(inst.under) ELSE d
    BY <1>0, <1>l1, <1>l2, <1>l3, <1>l4, <1>l5, NoLines DEF Longer
<1>v3. \A d : At(Mapping(u), "level", d) = IF c3 THEN Plain(inst.level) ELSE d
    BY <1>0, <1>l1, <1>l2, <1>l3, <1>l4, <1>l5, NoLines DEF Longer
<1>v4. \A d : At(Mapping(u), "values", d) = IF c4 THEN Block(f) ELSE d
    BY <1>0, <1>l1, <1>l2, <1>l3, <1>l4, <1>l5, NoLines DEF Longer
<1>v5. \A d : At(Mapping(u), "children", d) = IF c5 THEN Block(g) ELSE d
    BY <1>0, <1>l1, <1>l2, <1>l3, <1>l4, <1>l5, NoLines DEF Longer
<1>u4. \A v : v \in Under(Mapping(u), "values") <=> c4 /\ v = Block(f)
    BY <1>0, <1>l1, <1>l2, <1>l3, <1>l4, <1>l5, NoLines DEF Longer
<1>u5. \A v : v \in Under(Mapping(u), "children") <=> c5 /\ v = Block(g)
    BY <1>0, <1>l1, <1>l2, <1>l3, <1>l4, <1>l5, NoLines DEF Longer
<1>k. Keys(Mapping(u)) \subseteq {"type", "under", "level", "values", "children"}
    BY <1>0, <1>l1, <1>l2, <1>l3, <1>l4, <1>l5, NoLines DEF Longer
<1>4. e.val = Mapping(u)
    <2>1. u # <<>>  BY <1>z DEF c1
    <2> QED BY <1>3, <2>1, BracesIs
<1>5. e.val.kind = "mapping"
    BY <1>4, MappingIs
<1>6. MapOf(e.val, {"type", "under", "level", "values", "children"})
    BY <1>4, <1>5, <1>k DEF MapOf
<1>7. Value(e.val, "type", "") = inst.type
    <2>1. At(Mapping(u), "type", Scalar("")) = Scalar(inst.type)
        BY <1>v1, <1>g, PlainIs DEF c1
    <2> QED BY <1>4, <2>1, ScalarIs DEF Value
<1>8. Value(e.val, "under", "") = inst.under
    <2>1. At(Mapping(u), "under", Scalar("")) = Scalar(inst.under)
        BY <1>v2, <1>g, PlainIs DEF c2
    <2> QED BY <1>4, <2>1, ScalarIs DEF Value
<1>9. Value(e.val, "level", "") = inst.level
    <2>1. At(Mapping(u), "level", Scalar("")) = IF c3 THEN Scalar(inst.level) ELSE Scalar("")
        BY <1>v3, <1>g, PlainIs
    <2> QED BY <1>4, <2>1, ScalarIs DEF Value, c3
<1>10. /\ c4 => ValuesOK(Block(f))
       /\ Each(Children(e.val, "values"), ReadValueLine) = vs
    <2> DEFINE n == IF vs # <<>> THEN Block(f) ELSE Mapping(<<>>)
    <2>1. vs # <<>> => Block(f) # Garbled
        BY <1>g DEF c4
    <2>2. /\ n.entries = f /\ n.kind = "mapping" /\ DOMAIN f = DOMAIN vs
          /\ \A x \in In(f) : \E i \in DOMAIN vs : x = f[i]
          /\ \A i \in DOMAIN vs : f[i].val # Garbled /\ vs[i] \in In(vs)
        <3> DEFINE q == n
        <3>1. q = (IF vs # <<>> THEN Block(f) ELSE Mapping(<<>>))  OBVIOUS
        <3> HIDE DEF q
        <3>2. /\ q.entries = f /\ q.kind = "mapping" /\ DOMAIN f = DOMAIN vs
              /\ \A x \in In(f) : \E i \in DOMAIN vs : x = f[i]
              /\ \A i \in DOMAIN vs : f[i].val # Garbled /\ vs[i] \in In(vs)
            BY <1>in, <1>f, <2>1, <3>1, EntriesAre
        <3> QED BY <3>2 DEF q
    <2>3. \A i \in DOMAIN vs : f[i].val.kind = "scalar" /\ ReadValueLine(f[i]) = vs[i]
        <3> TAKE i \in DOMAIN vs
        <3>1. vs[i] = [member |-> vs[i].member, raw |-> vs[i].raw]
            BY <2>2 DEF InstanceIn, vs
        <3> QED BY <1>f, <2>2, <3>1, ValueLineKept
    <2>4. Children(e.val, "values") = f
        <3>1. At(e.val, "values", Mapping(<<>>)) = n
            BY <1>4, <1>v4 DEF c4
        <3> HIDE DEF n
        <3> QED BY <2>2, <3>1 DEF Children
    <2>5. Each(f, ReadValueLine) = vs
        <3> DEFINE h == [i \in DOMAIN f |-> ReadValueLine(f[i])]
        <3>1. h = [i \in DOMAIN vs |-> h[i]] /\ \A i \in DOMAIN vs : h[i] = vs[i]
            BY <2>2, <2>3
        <3> HIDE DEF h
        <3>2. h = vs
            BY <1>in, <3>1, SameSequence
        <3> QED BY <3>2 DEF h, Each
    <2>6. c4 => ValuesOK(Block(f))
        <3>1. ValuesOK(n)
            <4> HIDE DEF n
            <4> QED BY <2>2, <2>3 DEF ValuesOK
        <3> QED BY <3>1 DEF c4
    <2> QED BY <2>4, <2>5, <2>6
<1>11. /\ c5 => OfOK(Block(g))
       /\ Each(Children(e.val, "children"), ReadOfLine) = chs
    <2> DEFINE n == IF chs # <<>> THEN Block(g) ELSE Mapping(<<>>)
    <2>1. chs # <<>> => Block(g) # Garbled
        BY <1>g DEF c5
    <2>2. /\ n.entries = g /\ n.kind = "mapping" /\ DOMAIN g = DOMAIN chs
          /\ \A x \in In(g) : \E i \in DOMAIN chs : x = g[i]
          /\ \A i \in DOMAIN chs : g[i].val # Garbled /\ chs[i] \in In(chs)
        <3> DEFINE q == n
        <3>1. q = (IF chs # <<>> THEN Block(g) ELSE Mapping(<<>>))  OBVIOUS
        <3> HIDE DEF q
        <3>2. /\ q.entries = g /\ q.kind = "mapping" /\ DOMAIN g = DOMAIN chs
              /\ \A x \in In(g) : \E i \in DOMAIN chs : x = g[i]
              /\ \A i \in DOMAIN chs : g[i].val # Garbled /\ chs[i] \in In(chs)
            BY <1>in, <1>h, <2>1, <3>1, EntriesAre
        <3> QED BY <3>2 DEF q
    <2>3. \A i \in DOMAIN chs :
            MapOf(g[i].val, {"of"}) /\ Value(g[i].val, "of", "") # "" /\ ReadOfLine(g[i]) = chs[i]
        <3> TAKE i \in DOMAIN chs
        <3>1. chs[i] = [name |-> chs[i].name, of |-> chs[i].of] /\ chs[i].of # ""
            BY <2>2 DEF InstanceIn, chs
        <3> QED BY <1>h, <2>2, <3>1, OfLineKept
    <2>4. Children(e.val, "children") = g
        <3>1. At(e.val, "children", Mapping(<<>>)) = n
            BY <1>4, <1>v5 DEF c5
        <3> HIDE DEF n
        <3> QED BY <2>2, <3>1 DEF Children
    <2>5. Each(g, ReadOfLine) = chs
        <3> DEFINE h == [i \in DOMAIN g |-> ReadOfLine(g[i])]
        <3>1. h = [i \in DOMAIN chs |-> h[i]] /\ \A i \in DOMAIN chs : h[i] = chs[i]
            BY <2>2, <2>3
        <3> HIDE DEF h
        <3>2. h = chs
            BY <1>in, <3>1, SameSequence
        <3> QED BY <3>2 DEF h, Each
    <2>6. c5 => OfOK(Block(g))
        <3>1. OfOK(n)
            <4> HIDE DEF n
            <4> QED BY <2>2, <2>3 DEF OfOK, Named
        <3> QED BY <3>1 DEF c5
    <2> QED BY <2>4, <2>5, <2>6
<1>12. InstanceEntryOK(e)
    BY <1>4, <1>6, <1>10, <1>11, <1>u4, <1>u5 DEF InstanceEntryOK
<1>13. ReadInstance(e) = [name |-> inst.name, type |-> inst.type, under |-> inst.under, level |-> inst.level,
                          values |-> vs, children |-> chs]
    <2>1. ReadInstance(e) = [name |-> e.key, type |-> Value(e.val, "type", ""), under |-> Value(e.val, "under", ""),
                             level |-> Value(e.val, "level", ""),
                             values |-> Each(Children(e.val, "values"), ReadValueLine),
                             children |-> Each(Children(e.val, "children"), ReadOfLine)]
        BY DEF ReadInstance, Each, ReadValueLine, ReadOfLine
    <2> QED BY <2>1, <1>3, <1>7, <1>8, <1>9, <1>10, <1>11
<1>14. inst = [name |-> inst.name, type |-> inst.type, under |-> inst.under, level |-> inst.level,
               values |-> vs, children |-> chs]
    BY DEF InstanceIn, vs, chs
<1> QED BY <1>12, <1>13, <1>14 DEF e

-------------------------------------------------------------------------------
(* Perspectives.                                                              *)
IdList(ids) == Listed(Each(ids, Item))

(* A list of names is kept.                                                   *)
LEMMA TextsKept ==
    ASSUME NEW ids, IsSeq(ids), NEW n, n = (IF ids # <<>> THEN IdList(ids) ELSE List(<<>>)),
           ids # <<>> => IdList(ids) # Garbled
    PROVE  Texts(n) = ids
<1> DEFINE f == [i \in DOMAIN ids |-> Item(ids[i])]
<1>1. f = [i \in DOMAIN ids |-> f[i]] /\ \A i \in DOMAIN ids : f[i] = Item(ids[i])
    OBVIOUS
<1>2. IdList(ids) = Listed(f)
    BY DEF IdList, Each
<1> HIDE DEF f
<1>3. n = (IF ids # <<>> THEN Listed(f) ELSE List(<<>>)) /\ (ids # <<>> => Listed(f) # Garbled)
    BY <1>2
<1>4. n.items = f /\ n.kind = "sequence" /\ DOMAIN f = DOMAIN ids /\ \A i \in DOMAIN ids : f[i] # Garbled
    BY <1>1, <1>3, ListedAre
<1>5. \A i \in DOMAIN ids : f[i].value = ids[i]
    BY <1>1, <1>4, PlainIs, ScalarIs
<1> DEFINE g == [i \in DOMAIN f |-> f[i].value]
<1>6. Texts(n) = g
    BY <1>4 DEF Texts
<1>7. g = [i \in DOMAIN ids |-> g[i]] /\ \A i \in DOMAIN ids : g[i] = ids[i]
    BY <1>4, <1>5
<1> HIDE DEF g
<1>8. g = ids
    BY <1>7, SameSequence
<1> QED BY <1>6, <1>8

NodeKeys == {"label", "children", "members"}
NodeIn(nd) ==
    /\ nd = [id |-> nd.id, label |-> nd.label, children |-> nd.children, members |-> nd.members]
    /\ IsSeq(nd.children) /\ IsSeq(nd.members)
BareNode(nd) == nd.label = "" /\ nd.children = <<>> /\ nd.members = <<>>
NodeLine(nd) ==
    Line(nd.id, Block(
        LineIf(nd.label # "", "label", Quoted(nd.label))
        \o LineIf(nd.children # <<>>, "children", IdList(nd.children))
        \o LineIf(nd.members # <<>>, "members", IdList(nd.members))))
ReadNodeLine(x) ==
    [id |-> x.key, label |-> Value(x.val, "label", ""),
     children |-> Texts(At(x.val, "children", List(<<>>))),
     members |-> Texts(At(x.val, "members", List(<<>>)))]

(* A node of a perspective is kept, unless it is bare.                        *)
LEMMA NodeKept ==
    ASSUME NEW nd, NodeIn(nd), NodeLine(nd).val # Garbled
    PROVE  /\ MapOf(NodeLine(nd).val, NodeKeys) <=> ~BareNode(nd)
           /\ ~BareNode(nd) => ReadNodeLine(NodeLine(nd)) = nd
<1> DEFINE e == NodeLine(nd)
           u == LineIf(nd.label # "", "label", Quoted(nd.label))
                \o LineIf(nd.children # <<>>, "children", IdList(nd.children))
                \o LineIf(nd.members # <<>>, "members", IdList(nd.members))
<1>1. e = Line(nd.id, Block(u))
    BY DEF NodeLine
<1>2. e.val # Garbled
    OBVIOUS
<1> HIDE DEF e, u
<1>3. e.key = nd.id /\ e.val = Block(u) /\ Clean(u) /\ Block(u) # Garbled
    BY <1>1, <1>2, LineKept, BracesIs
<1> DEFINE
    c1 == nd.label # ""
           t1 == LineIf(c1, "label", Quoted(nd.label))
           s1 == t1
           c2 == nd.children # <<>>
           t2 == LineIf(c2, "children", IdList(nd.children))
           s2 == s1 \o t2
           c3 == nd.members # <<>>
           t3 == LineIf(c3, "members", IdList(nd.members))
           s3 == s2 \o t3
<1>0. u = s3
    BY DEF u
<1>00. c1 \in BOOLEAN /\ c2 \in BOOLEAN /\ c3 \in BOOLEAN
    OBVIOUS
<1>a1. IsSeq(s1)
    <2>1. IsSeq(<<>>)  BY EmptyIs
    <2> HIDE DEF c1
    <2> QED BY <2>1, <1>00, LineIfIs
<1>a2. IsSeq(s2)
    <2> HIDE DEF s1, c2
    <2> QED BY <1>a1, <1>00, LineIfIs
<1>a3. IsSeq(s3)
    <2> HIDE DEF s2, c3
    <2> QED BY <1>a2, <1>00, LineIfIs
<1>b3. Clean(s3)
    BY <1>0, <1>3
<1>l3. Longer(s2, c3, "members", IdList(nd.members), s3)
    <2> HIDE DEF s2, c3
    <2> QED BY <1>a2, <1>b3, <1>00, LongerIs
<1>b2. Clean(s2)
    BY <1>l3 DEF Longer
<1>l2. Longer(s1, c2, "children", IdList(nd.children), s2)
    <2> HIDE DEF s1, c2
    <2> QED BY <1>a1, <1>b2, <1>00, LongerIs
<1>b1. Clean(s1)
    BY <1>l2 DEF Longer
<1>l1. Longer(<<>>, c1, "label", Quoted(nd.label), s1)
    <2> HIDE DEF c1
    <2> QED BY <1>b1, <1>00, FirstLine
<1> HIDE DEF s1, s2, s3, c1, c2, c3, u
<1>g. /\ c1 => Quoted(nd.label) # Garbled
      /\ c2 => IdList(nd.children) # Garbled
      /\ c3 => IdList(nd.members) # Garbled
    BY <1>l1, <1>l2, <1>l3 DEF Longer
<1>z. IsSeq(u) /\ (u = <<>> <=> ~c1 /\ ~c2 /\ ~c3)
    BY <1>0, <1>a3, <1>l1, <1>l2, <1>l3 DEF Longer
<1>v1. \A d : At(Mapping(u), "label", d) = IF c1 THEN Quoted(nd.label) ELSE d
    BY <1>0, <1>l1, <1>l2, <1>l3, NoLines DEF Longer
<1>v2. \A d : At(Mapping(u), "children", d) = IF c2 THEN IdList(nd.children) ELSE d
    BY <1>0, <1>l1, <1>l2, <1>l3, NoLines DEF Longer
<1>v3. \A d : At(Mapping(u), "members", d) = IF c3 THEN IdList(nd.members) ELSE d
    BY <1>0, <1>l1, <1>l2, <1>l3, NoLines DEF Longer
<1>k. Keys(Mapping(u)) \subseteq {"label", "children", "members"}
    BY <1>0, <1>l1, <1>l2, <1>l3, NoLines DEF Longer
<1>4. BareNode(nd) <=> u = <<>>
    BY <1>z DEF BareNode, c1, c2, c3
<1>5. CASE u = <<>>
    <2>1. e.val = Scalar("")
        BY <1>3, <1>5, BracesIs
    <2>2. e.val.kind # "mapping"
        BY <2>1, ScalarIs
    <2> QED BY <1>4, <1>5, <2>2 DEF MapOf, e
<1>6. CASE u # <<>>
    <2>1. e.val = Mapping(u)
        BY <1>3, <1>6, BracesIs
    <2>2. e.val.kind = "mapping"
        BY <2>1, MappingIs
    <2>3. MapOf(e.val, NodeKeys)
        BY <2>1, <2>2, <1>k DEF MapOf, NodeKeys
    <2>4. Value(e.val, "label", "") = nd.label
        <3>1. At(Mapping(u), "label", Scalar("")) = IF c1 THEN Scalar(nd.label) ELSE Scalar("")
            BY <1>v1, <1>g, PlainIs
        <3> QED BY <2>1, <3>1, ScalarIs DEF Value, c1
    <2>5. Texts(At(e.val, "children", List(<<>>))) = nd.children
        <3> DEFINE n == At(e.val, "children", List(<<>>))
                   ids == nd.children
        <3>1. n = (IF ids # <<>> THEN IdList(ids) ELSE List(<<>>)) /\ (ids # <<>> => IdList(ids) # Garbled)
              /\ IsSeq(ids)
            BY <2>1, <1>v2, <1>g DEF c2, NodeIn
        <3> HIDE DEF n, ids
        <3>2. Texts(n) = ids
            BY <3>1, TextsKept
        <3> QED BY <3>2 DEF n, ids
    <2>6. Texts(At(e.val, "members", List(<<>>))) = nd.members
        <3> DEFINE n == At(e.val, "members", List(<<>>))
                   ids == nd.members
        <3>1. n = (IF ids # <<>> THEN IdList(ids) ELSE List(<<>>)) /\ (ids # <<>> => IdList(ids) # Garbled)
              /\ IsSeq(ids)
            BY <2>1, <1>v3, <1>g DEF c3, NodeIn
        <3> HIDE DEF n, ids
        <3>2. Texts(n) = ids
            BY <3>1, TextsKept
        <3> QED BY <3>2 DEF n, ids
    <2>7. ReadNodeLine(e) = [id |-> nd.id, label |-> nd.label, children |-> nd.children, members |-> nd.members]
        BY <1>3, <2>4, <2>5, <2>6 DEF ReadNodeLine
    <2> QED BY <1>4, <1>6, <2>3, <2>7 DEF e, NodeIn
<1> QED BY <1>5, <1>6

NodesOK(v) == Named(v, NodeKeys)
PerspectiveEntryOK(e) ==
    /\ MapOf(e.val, {"label", "membership", "export", "nodes"})
    /\ \A v \in Under(e.val, "nodes") : NodesOK(v)
PerspectiveIn(p) ==
    /\ p = [id |-> p.id, label |-> p.label, membership |-> p.membership, export |-> p.export, nodes |-> p.nodes]
    /\ p.export \in BOOLEAN
    /\ IsSeq(p.nodes) /\ \A nd \in In(p.nodes) : NodeIn(nd)
BarePerspective(p) == \E i \in DOMAIN p.nodes : BareNode(p.nodes[i])

(* A perspective is kept, unless a node of it is bare.                        *)
LEMMA PerspectiveKept ==
    ASSUME NEW p, PerspectiveIn(p), WritePerspective(p).val # Garbled
    PROVE  /\ PerspectiveEntryOK(WritePerspective(p)) <=> ~BarePerspective(p)
           /\ ~BarePerspective(p) => ReadPerspective(WritePerspective(p)) = p
<1> DEFINE e == WritePerspective(p)
           ns == p.nodes
           f == [i \in DOMAIN ns |-> NodeLine(ns[i])]
           export == IF p.export THEN "true" ELSE "false"
           u == LineIf(p.label # "", "label", Quoted(p.label))
                \o LineIf(p.membership # "", "membership", Plain(p.membership))
                \o <<Line("export", Scalar(export))>>
                \o LineIf(ns # <<>>, "nodes", Block(f))
<1>1. e = Line(p.id, Block(u))
    BY Zenon DEF WritePerspective, Section, Each, NodeLine, IdList
<1>2. e.val # Garbled
    OBVIOUS
<1>in. IsSeq(ns) /\ \A nd \in In(ns) : NodeIn(nd)
    BY DEF PerspectiveIn
<1>h. f = [i \in DOMAIN ns |-> f[i]] /\ \A i \in DOMAIN ns : f[i] = NodeLine(ns[i])
    OBVIOUS
<1>x. (export = "true") <=> p.export
    OBVIOUS
<1> HIDE DEF e, u, f, ns, export
<1>3. e.key = p.id /\ e.val = Block(u) /\ Clean(u) /\ Block(u) # Garbled
    BY <1>1, <1>2, LineKept, BracesIs
<1> DEFINE
    c1 == p.label # ""
           t1 == LineIf(c1, "label", Quoted(p.label))
           s1 == t1
           c2 == p.membership # ""
           t2 == LineIf(c2, "membership", Plain(p.membership))
           s2 == s1 \o t2
           c3 == TRUE
           t3 == LineIf(c3, "export", Scalar(export))
           s3 == s2 \o t3
           c4 == ns # <<>>
           t4 == LineIf(c4, "nodes", Block(f))
           s4 == s3 \o t4
<1>0. u = s4
    <2>1. t3 = <<Line("export", Scalar(export))>>
        BY DEF LineIf
    <2> HIDE DEF t3
    <2> QED BY <2>1 DEF u
<1>00. c1 \in BOOLEAN /\ c2 \in BOOLEAN /\ c3 \in BOOLEAN /\ c4 \in BOOLEAN
    OBVIOUS
<1>a1. IsSeq(s1)
    <2>1. IsSeq(<<>>)  BY EmptyIs
    <2> HIDE DEF c1
    <2> QED BY <2>1, <1>00, LineIfIs
<1>a2. IsSeq(s2)
    <2> HIDE DEF s1, c2
    <2> QED BY <1>a1, <1>00, LineIfIs
<1>a3. IsSeq(s3)
    <2> HIDE DEF s2, c3
    <2> QED BY <1>a2, <1>00, LineIfIs
<1>a4. IsSeq(s4)
    <2> HIDE DEF s3, c4
    <2> QED BY <1>a3, <1>00, LineIfIs
<1>b4. Clean(s4)
    BY <1>0, <1>3
<1>l4. Longer(s3, c4, "nodes", Block(f), s4)
    <2> HIDE DEF s3, c4
    <2> QED BY <1>a3, <1>b4, <1>00, LongerIs
<1>b3. Clean(s3)
    BY <1>l4 DEF Longer
<1>l3. Longer(s2, c3, "export", Scalar(export), s3)
    <2> HIDE DEF s2, c3
    <2> QED BY <1>a2, <1>b3, <1>00, LongerIs
<1>b2. Clean(s2)
    BY <1>l3 DEF Longer
<1>l2. Longer(s1, c2, "membership", Plain(p.membership), s2)
    <2> HIDE DEF s1, c2
    <2> QED BY <1>a1, <1>b2, <1>00, LongerIs
<1>b1. Clean(s1)
    BY <1>l2 DEF Longer
<1>l1. Longer(<<>>, c1, "label", Quoted(p.label), s1)
    <2> HIDE DEF c1
    <2> QED BY <1>b1, <1>00, FirstLine
<1> HIDE DEF s1, s2, s3, s4, c1, c2, c3, c4, u
<1>g. /\ c1 => Quoted(p.label) # Garbled
      /\ c2 => Plain(p.membership) # Garbled
      /\ c3 => Scalar(export) # Garbled
      /\ c4 => Block(f) # Garbled
    BY <1>l1, <1>l2, <1>l3, <1>l4 DEF Longer
<1>z. IsSeq(u) /\ (u = <<>> <=> ~c1 /\ ~c2 /\ ~c3 /\ ~c4)
    BY <1>0, <1>a4, <1>l1, <1>l2, <1>l3, <1>l4 DEF Longer
<1>v1. \A d : At(Mapping(u), "label", d) = IF c1 THEN Quoted(p.label) ELSE d
    BY <1>0, <1>l1, <1>l2, <1>l3, <1>l4, NoLines DEF Longer
<1>v2. \A d : At(Mapping(u), "membership", d) = IF c2 THEN Plain(p.membership) ELSE d
    BY <1>0, <1>l1, <1>l2, <1>l3, <1>l4, NoLines DEF Longer
<1>v3. \A d : At(Mapping(u), "export", d) = IF c3 THEN Scalar(export) ELSE d
    BY <1>0, <1>l1, <1>l2, <1>l3, <1>l4, NoLines DEF Longer
<1>v4. \A d : At(Mapping(u), "nodes", d) = IF c4 THEN Block(f) ELSE d
    BY <1>0, <1>l1, <1>l2, <1>l3, <1>l4, NoLines DEF Longer
<1>u4. \A v : v \in Under(Mapping(u), "nodes") <=> c4 /\ v = Block(f)
    BY <1>0, <1>l1, <1>l2, <1>l3, <1>l4, NoLines DEF Longer
<1>k. Keys(Mapping(u)) \subseteq {"label", "membership", "export", "nodes"}
    BY <1>0, <1>l1, <1>l2, <1>l3, <1>l4, NoLines DEF Longer
<1>4. e.val = Mapping(u)
    <2>1. u # <<>>  BY <1>z DEF c3
    <2> QED BY <1>3, <2>1, BracesIs
<1>5. e.val.kind = "mapping"
    BY <1>4, MappingIs
<1>6. MapOf(e.val, {"label", "membership", "export", "nodes"})
    BY <1>4, <1>5, <1>k DEF MapOf
<1>7. Value(e.val, "label", "") = p.label
    <2>1. At(Mapping(u), "label", Scalar("")) = IF c1 THEN Scalar(p.label) ELSE Scalar("")
        BY <1>v1, <1>g, PlainIs
    <2> QED BY <1>4, <2>1, ScalarIs DEF Value, c1
<1>8. Value(e.val, "membership", "") = p.membership
    <2>1. At(Mapping(u), "membership", Scalar("")) = IF c2 THEN Scalar(p.membership) ELSE Scalar("")
        BY <1>v2, <1>g, PlainIs
    <2> QED BY <1>4, <2>1, ScalarIs DEF Value, c2
<1>9. (Value(e.val, "export", "") = "true") = p.export
    <2>1. At(Mapping(u), "export", Scalar("")) = Scalar(export)
        BY <1>v3 DEF c3
    <2>2. Value(e.val, "export", "") = export
        BY <1>4, <2>1, ScalarIs DEF Value
    <2>3. p.export \in BOOLEAN  BY DEF PerspectiveIn
    <2> QED BY <2>2, <2>3, <1>x
<1> DEFINE n == IF ns # <<>> THEN Block(f) ELSE Mapping(<<>>)
<1>10. /\ n.entries = f /\ n.kind = "mapping" /\ DOMAIN f = DOMAIN ns
       /\ \A x \in In(f) : \E i \in DOMAIN ns : x = f[i]
       /\ \A i \in DOMAIN ns : f[i].val # Garbled /\ ns[i] \in In(ns) /\ f[i] \in In(f)
    <2> DEFINE q == n
    <2>1. q = (IF ns # <<>> THEN Block(f) ELSE Mapping(<<>>))  OBVIOUS
    <2>2. ns # <<>> => Block(f) # Garbled
        BY <1>g DEF c4
    <2> HIDE DEF q
    <2>3. /\ q.entries = f /\ q.kind = "mapping" /\ DOMAIN f = DOMAIN ns
          /\ \A x \in In(f) : \E i \in DOMAIN ns : x = f[i]
          /\ \A i \in DOMAIN ns : f[i].val # Garbled /\ ns[i] \in In(ns) /\ f[i] \in In(f)
        BY <1>in, <1>h, <2>1, <2>2, EntriesAre
    <2> QED BY <2>3 DEF q
<1>11. \A i \in DOMAIN ns : /\ MapOf(f[i].val, NodeKeys) <=> ~BareNode(ns[i])
                            /\ ~BareNode(ns[i]) => ReadNodeLine(f[i]) = ns[i]
    <2> TAKE i \in DOMAIN ns
    <2>1. NodeIn(ns[i])
        BY <1>in, <1>10
    <2> QED BY <1>h, <1>10, <2>1, NodeKept
<1>12. At(e.val, "nodes", Mapping(<<>>)) = n
    BY <1>4, <1>v4 DEF c4
<1>13. BarePerspective(p) => c4
    <2>1. ns = <<>> => DOMAIN ns = {}
        BY SequenceFacts, EmptyIs DEF In
    <2> QED BY <2>1 DEF BarePerspective, c4, ns
<1>14. NodesOK(n) <=> ~BarePerspective(p)
    <2> HIDE DEF n
    <2>1. NodesOK(n) <=> \A i \in DOMAIN ns : MapOf(f[i].val, NodeKeys)
        BY <1>10 DEF NodesOK, Named
    <2> QED BY <2>1, <1>11 DEF BarePerspective, ns
<1>15. PerspectiveEntryOK(e) <=> ~BarePerspective(p)
    <2>1. c4 => n = Block(f)
        BY DEF c4
    <2> HIDE DEF n
    <2>2. \A v : v \in Under(e.val, "nodes") <=> c4 /\ v = n
        BY <1>4, <1>u4, <2>1
    <2> QED BY <1>6, <1>13, <1>14, <2>2 DEF PerspectiveEntryOK
<1>16. ~BarePerspective(p) => ReadPerspective(e) = p
    <2> SUFFICES ASSUME ~BarePerspective(p) PROVE ReadPerspective(e) = p
        OBVIOUS
    <2>1. Each(Children(e.val, "nodes"), ReadNodeLine) = ns
        <3> DEFINE h == [i \in DOMAIN f |-> ReadNodeLine(f[i])]
        <3>1. h = [i \in DOMAIN ns |-> h[i]] /\ \A i \in DOMAIN ns : h[i] = ns[i]
            BY <1>10, <1>11 DEF BarePerspective, ns
        <3>2. Each(Children(e.val, "nodes"), ReadNodeLine) = h
            <4> HIDE DEF n
            <4> QED BY <1>10, <1>12 DEF Children, Each
        <3> HIDE DEF h
        <3>3. h = ns
            BY <1>in, <3>1, SameSequence
        <3> QED BY <3>2, <3>3
    <2>2. ReadPerspective(e) =
            [id |-> e.key, label |-> Value(e.val, "label", ""), membership |-> Value(e.val, "membership", ""),
             export |-> Value(e.val, "export", "") = "true", nodes |-> Each(Children(e.val, "nodes"), ReadNodeLine)]
        BY DEF ReadPerspective, Each, ReadNodeLine
    <2>3. p = [id |-> p.id, label |-> p.label, membership |-> p.membership, export |-> p.export, nodes |-> ns]
        BY DEF PerspectiveIn, ns
    <2>4. ReadPerspective(e) = [id |-> p.id, label |-> p.label, membership |-> p.membership,
                                export |-> p.export, nodes |-> ns]
        BY <2>1, <2>2, <1>3, <1>7, <1>8, <1>9
    <2> QED BY <2>3, <2>4
<1> QED BY <1>15, <1>16 DEF e

-------------------------------------------------------------------------------
(* The header.                                                                *)
LEMMA AssociativeIs ==
    ASSUME NEW s, NEW x, NEW y, IsSeq(s)
    PROVE  (s \o <<x>>) \o <<y>> = s \o <<x, y>>
<1> DEFINE S == In(s) \cup {x, y}
           A == In(s)
<1>1. s \in Seq(A)
    BY DEF IsSeq
<1>2. A \subseteq S
    OBVIOUS
<1> HIDE DEF S, A
<1>3. s \in Seq(S)
    BY <1>1, <1>2
<1>4. x \in S /\ y \in S
    BY DEF S
<1>5. <<x>> \in Seq(S) /\ <<y>> \in Seq(S)
    BY <1>4
<1>6. \A a, b, c \in Seq(S) : (a \o b) \o c = a \o (b \o c)
    OBVIOUS
<1>7. (s \o <<x>>) \o <<y>> = s \o (<<x>> \o <<y>>)
    <2> DEFINE X == <<x>>
               Y == <<y>>
    <2> HIDE DEF X, Y
    <2>1. X \in Seq(S) /\ Y \in Seq(S)  BY <1>5 DEF X, Y
    <2>2. (s \o X) \o Y = s \o (X \o Y)
        BY <1>3, <1>6, <2>1
    <2> QED BY <2>2 DEF X, Y
<1>8. <<x>> \o <<y>> = <<x, y>>
    BY JoinedIs
<1> QED BY <1>7, <1>8

(* The header is kept; an absent prefix is an empty one.                      *)
LEMMA HeaderKept ==
    ASSUME NEW h, WriteHeader(h) # Garbled
    PROVE  LET n == WriteHeader(h)
           IN  /\ MapOf(n, HeaderKeys)
               /\ \A k \in HeaderKeys :
                    IF k \in Keys(n) THEN Value(n, k, "") = h[k] ELSE h[k] = ""
<1> DEFINE n == WriteHeader(h)
           u == <<Line("name", Quoted(h.name)), Line("namespace", Quoted(h.namespace))>>
                \o LineIf(h.prefix # "", "prefix", Quoted(h.prefix))
                \o <<Line("version", Quoted(h.version)), Line("publication_date", Quoted(h.publication_date))>>
<1>1. n = Block(u)
    BY DEF WriteHeader
<1>2. n # Garbled
    OBVIOUS
<1> HIDE DEF n, u
<1>3. n = Block(u) /\ Clean(u) /\ Block(u) # Garbled
    BY <1>1, <1>2, BracesIs
<1> DEFINE
    c1 == TRUE
           t1 == LineIf(c1, "name", Quoted(h.name))
           s1 == t1
           c2 == TRUE
           t2 == LineIf(c2, "namespace", Quoted(h.namespace))
           s2 == s1 \o t2
           c3 == h.prefix # ""
           t3 == LineIf(c3, "prefix", Quoted(h.prefix))
           s3 == s2 \o t3
           c4 == TRUE
           t4 == LineIf(c4, "version", Quoted(h.version))
           s4 == s3 \o t4
           c5 == TRUE
           t5 == LineIf(c5, "publication_date", Quoted(h.publication_date))
           s5 == s4 \o t5
<1>0. u = s5
    <2> DEFINE w == Line("name", Quoted(h.name))
               x == Line("namespace", Quoted(h.namespace))
               y == Line("version", Quoted(h.version))
               z == Line("publication_date", Quoted(h.publication_date))
    <2>1. <<w>> \o <<x>> = <<w, x>>
        <3> HIDE DEF w, x
        <3> QED BY JoinedIs
    <2>2. t1 = <<w>> /\ t2 = <<x>> /\ t4 = <<y>> /\ t5 = <<z>>
        BY DEF LineIf
    <2>3. s2 = <<w, x>>
        BY <2>1, <2>2
    <2>4. u = <<w, x>> \o t3 \o <<y, z>>
        BY DEF u
    <2>5. u = s3 \o <<y, z>>
        <3> HIDE DEF s2
        <3> QED BY <2>3, <2>4
    <2>6. s5 = (s3 \o <<y>>) \o <<z>>
        <3> HIDE DEF s3
        <3> QED BY <2>2
    <2>7. IsSeq(s3)
        <3>1. IsSeq(t1) /\ IsSeq(t2) /\ IsSeq(t3)
            BY SingletonIs, EmptyIs DEF LineIf
        <3> HIDE DEF t1, t2, t3
        <3> QED BY <3>1, ConcatIs
    <2> HIDE DEF s3, y, z
    <2> QED BY <2>5, <2>6, <2>7, AssociativeIs
<1>00. c1 \in BOOLEAN /\ c2 \in BOOLEAN /\ c3 \in BOOLEAN /\ c4 \in BOOLEAN /\ c5 \in BOOLEAN
    OBVIOUS
<1>a1. IsSeq(s1)
    <2>1. IsSeq(<<>>)  BY EmptyIs
    <2> HIDE DEF c1
    <2> QED BY <2>1, <1>00, LineIfIs
<1>a2. IsSeq(s2)
    <2> HIDE DEF s1, c2
    <2> QED BY <1>a1, <1>00, LineIfIs
<1>a3. IsSeq(s3)
    <2> HIDE DEF s2, c3
    <2> QED BY <1>a2, <1>00, LineIfIs
<1>a4. IsSeq(s4)
    <2> HIDE DEF s3, c4
    <2> QED BY <1>a3, <1>00, LineIfIs
<1>a5. IsSeq(s5)
    <2> HIDE DEF s4, c5
    <2> QED BY <1>a4, <1>00, LineIfIs
<1>b5. Clean(s5)
    BY <1>0, <1>3
<1>l5. Longer(s4, c5, "publication_date", Quoted(h.publication_date), s5)
    <2> HIDE DEF s4, c5
    <2> QED BY <1>a4, <1>b5, <1>00, LongerIs
<1>b4. Clean(s4)
    BY <1>l5 DEF Longer
<1>l4. Longer(s3, c4, "version", Quoted(h.version), s4)
    <2> HIDE DEF s3, c4
    <2> QED BY <1>a3, <1>b4, <1>00, LongerIs
<1>b3. Clean(s3)
    BY <1>l4 DEF Longer
<1>l3. Longer(s2, c3, "prefix", Quoted(h.prefix), s3)
    <2> HIDE DEF s2, c3
    <2> QED BY <1>a2, <1>b3, <1>00, LongerIs
<1>b2. Clean(s2)
    BY <1>l3 DEF Longer
<1>l2. Longer(s1, c2, "namespace", Quoted(h.namespace), s2)
    <2> HIDE DEF s1, c2
    <2> QED BY <1>a1, <1>b2, <1>00, LongerIs
<1>b1. Clean(s1)
    BY <1>l2 DEF Longer
<1>l1. Longer(<<>>, c1, "name", Quoted(h.name), s1)
    <2> HIDE DEF c1
    <2> QED BY <1>b1, <1>00, FirstLine
<1> HIDE DEF s1, s2, s3, s4, s5, c1, c2, c3, c4, c5, u
<1>g. /\ c1 => Quoted(h.name) # Garbled
      /\ c2 => Quoted(h.namespace) # Garbled
      /\ c3 => Quoted(h.prefix) # Garbled
      /\ c4 => Quoted(h.version) # Garbled
      /\ c5 => Quoted(h.publication_date) # Garbled
    BY <1>l1, <1>l2, <1>l3, <1>l4, <1>l5 DEF Longer
<1>z. IsSeq(u) /\ (u = <<>> <=> ~c1 /\ ~c2 /\ ~c3 /\ ~c4 /\ ~c5)
    BY <1>0, <1>a5, <1>l1, <1>l2, <1>l3, <1>l4, <1>l5 DEF Longer
<1>v1. \A d : At(Mapping(u), "name", d) = IF c1 THEN Quoted(h.name) ELSE d
    BY <1>0, <1>l1, <1>l2, <1>l3, <1>l4, <1>l5, NoLines DEF Longer
<1>v2. \A d : At(Mapping(u), "namespace", d) = IF c2 THEN Quoted(h.namespace) ELSE d
    BY <1>0, <1>l1, <1>l2, <1>l3, <1>l4, <1>l5, NoLines DEF Longer
<1>v3. \A d : At(Mapping(u), "prefix", d) = IF c3 THEN Quoted(h.prefix) ELSE d
    BY <1>0, <1>l1, <1>l2, <1>l3, <1>l4, <1>l5, NoLines DEF Longer
<1>v4. \A d : At(Mapping(u), "version", d) = IF c4 THEN Quoted(h.version) ELSE d
    BY <1>0, <1>l1, <1>l2, <1>l3, <1>l4, <1>l5, NoLines DEF Longer
<1>v5. \A d : At(Mapping(u), "publication_date", d) = IF c5 THEN Quoted(h.publication_date) ELSE d
    BY <1>0, <1>l1, <1>l2, <1>l3, <1>l4, <1>l5, NoLines DEF Longer
<1>k. Keys(Mapping(u)) \subseteq {"name", "namespace", "prefix", "version", "publication_date"}
    BY <1>0, <1>l1, <1>l2, <1>l3, <1>l4, <1>l5, NoLines DEF Longer
<1>4. n = Mapping(u)
    <2>1. u # <<>>  BY <1>z DEF c1
    <2> QED BY <1>3, <2>1, BracesIs
<1>5. MapOf(n, HeaderKeys)
    BY <1>4, <1>k, MappingIs DEF MapOf, HeaderKeys
<1>m. "name" \in Keys(n) /\ "namespace" \in Keys(n) /\ ("prefix" \in Keys(n) <=> c3)
      /\ "version" \in Keys(n) /\ "publication_date" \in Keys(n)
    BY <1>0, <1>4, <1>l1, <1>l2, <1>l3, <1>l4, <1>l5, NoLines DEF Longer, c1, c2, c4, c5
<1>6. Value(n, "name", "") = h["name"]
    <2>1. At(n, "name", Scalar("")) = Scalar(h.name)
        BY <1>4, <1>v1, <1>g, PlainIs DEF c1
    <2> QED BY <2>1, ScalarIs DEF Value
<1>7. Value(n, "namespace", "") = h["namespace"]
    <2>1. At(n, "namespace", Scalar("")) = Scalar(h.namespace)
        BY <1>4, <1>v2, <1>g, PlainIs DEF c2
    <2> QED BY <2>1, ScalarIs DEF Value
<1>8. Value(n, "prefix", "") = h["prefix"]
    <2>1. At(n, "prefix", Scalar("")) = IF c3 THEN Scalar(h.prefix) ELSE Scalar("")
        BY <1>4, <1>v3, <1>g, PlainIs
    <2> QED BY <2>1, ScalarIs DEF Value, c3
<1>9. Value(n, "version", "") = h["version"]
    <2>1. At(n, "version", Scalar("")) = Scalar(h.version)
        BY <1>4, <1>v4, <1>g, PlainIs DEF c4
    <2> QED BY <2>1, ScalarIs DEF Value
<1>10. Value(n, "publication_date", "") = h["publication_date"]
    <2>1. At(n, "publication_date", Scalar("")) = Scalar(h.publication_date)
        BY <1>4, <1>v5, <1>g, PlainIs DEF c5
    <2> QED BY <2>1, ScalarIs DEF Value
<1>11. \A k \in HeaderKeys : IF k \in Keys(n) THEN Value(n, k, "") = h[k] ELSE h[k] = ""
    BY <1>m, <1>6, <1>7, <1>8, <1>9, <1>10 DEF HeaderKeys, c3
<1> QED BY <1>5, <1>11 DEF n

-------------------------------------------------------------------------------
(* The sections.                                                              *)
BlockIs(ms, f, n) ==
    /\ IsSeq(ms) /\ f = [i \in DOMAIN ms |-> f[i]]
    /\ ms # <<>> => Block(f) # Garbled
    /\ n = IF ms # <<>> THEN Block(f) ELSE Mapping(<<>>)

(* The entries of a section that is written, and of one that is not.          *)
LEMMA EntriesOf ==
    ASSUME NEW ms, NEW f, NEW n, BlockIs(ms, f, n)
    PROVE  /\ n.entries = f /\ n.kind = "mapping" /\ DOMAIN f = DOMAIN ms
           /\ \A x \in In(f) : \E i \in DOMAIN ms : x = f[i]
           /\ \A i \in DOMAIN ms : f[i] \in In(f) /\ f[i].val # Garbled /\ ms[i] \in In(ms)
BY EntriesAre DEF BlockIs

(* Each section, written or absent, is accepted and read as it was.           *)
LEMMA ImportsKept ==
    ASSUME NEW ms, IsSeq(ms), \A x \in In(ms) : ImportIn(x),
           NEW n, n = (IF ms # <<>> THEN Block([i \in DOMAIN ms |-> WriteImport(ms[i])]) ELSE Mapping(<<>>)),
           ms # <<>> => Block([i \in DOMAIN ms |-> WriteImport(ms[i])]) # Garbled
    PROVE  ImportsOK(n) /\ [i \in DOMAIN n.entries |-> ReadImport(n.entries[i])] = ms
<1> DEFINE f == [i \in DOMAIN ms |-> WriteImport(ms[i])]
<1>1. f = [i \in DOMAIN ms |-> f[i]] /\ \A i \in DOMAIN ms : f[i] = WriteImport(ms[i])
    OBVIOUS
<1>2. n = (IF ms # <<>> THEN Block(f) ELSE Mapping(<<>>)) /\ (ms # <<>> => Block(f) # Garbled)
    OBVIOUS
<1> HIDE DEF f
<1>3. /\ n.entries = f /\ n.kind = "mapping" /\ DOMAIN f = DOMAIN ms
      /\ \A x \in In(f) : \E i \in DOMAIN ms : x = f[i]
      /\ \A i \in DOMAIN ms : f[i] \in In(f) /\ f[i].val # Garbled /\ ms[i] \in In(ms)
    <2>1. f = [i \in DOMAIN ms |-> f[i]]
        BY <1>1
    <2>2. BlockIs(ms, f, n)
        BY <1>2, <2>1 DEF BlockIs
    <2> QED BY <2>2, EntriesOf
<1>4. \A i \in DOMAIN ms : ImportEntryOK(f[i]) /\ ReadImport(f[i]) = ms[i]
    <2> TAKE i \in DOMAIN ms
    <2>1. ImportIn(ms[i]) /\ WriteImport(ms[i]).val # Garbled
        BY <1>1, <1>3
    <2>2. ImportEntryOK(WriteImport(ms[i])) /\ ReadImport(WriteImport(ms[i])) = ms[i]
        BY <2>1, ImportKept
    <2> QED BY <1>1, <2>2
<1>5. ImportsOK(n)
    <2>1. ImportsOK(n) <=> \A e \in In(n.entries) : ImportEntryOK(e)
        BY <1>3 DEF ImportsOK, ImportEntryOK
    <2> QED BY <2>1, <1>3, <1>4
<1>6. [i \in DOMAIN n.entries |-> ReadImport(n.entries[i])] = ms
    <2> DEFINE g == [i \in DOMAIN f |-> ReadImport(f[i])]
    <2>1. g = [i \in DOMAIN ms |-> g[i]] /\ \A i \in DOMAIN ms : g[i] = ms[i]
        BY <1>3, <1>4, <1>5
    <2>2. [i \in DOMAIN n.entries |-> ReadImport(n.entries[i])] = g
        BY <1>3
    <2> HIDE DEF g
    <2>3. g = ms
        BY <2>1, SameSequence
    <2> QED BY <2>2, <2>3
<1> QED BY <1>5, <1>6

(* The enums, if each has a value.                                            *)
LEMMA EnumsKept ==
    ASSUME NEW ms, IsSeq(ms), \A x \in In(ms) : EnumIn(x),
           NEW n, n = (IF ms # <<>> THEN Block([i \in DOMAIN ms |-> WriteEnum(ms[i])]) ELSE Mapping(<<>>)),
           ms # <<>> => Block([i \in DOMAIN ms |-> WriteEnum(ms[i])]) # Garbled
    PROVE  /\ EnumsOK(n) <=> \A i \in DOMAIN ms : ~(ms[i].values = <<>>)
           /\ EnumsOK(n) => [i \in DOMAIN n.entries |-> ReadEnum(n.entries[i])] = ms
<1> DEFINE f == [i \in DOMAIN ms |-> WriteEnum(ms[i])]
<1>1. f = [i \in DOMAIN ms |-> f[i]] /\ \A i \in DOMAIN ms : f[i] = WriteEnum(ms[i])
    OBVIOUS
<1>2. n = (IF ms # <<>> THEN Block(f) ELSE Mapping(<<>>)) /\ (ms # <<>> => Block(f) # Garbled)
    OBVIOUS
<1> HIDE DEF f
<1>3. /\ n.entries = f /\ n.kind = "mapping" /\ DOMAIN f = DOMAIN ms
      /\ \A x \in In(f) : \E i \in DOMAIN ms : x = f[i]
      /\ \A i \in DOMAIN ms : f[i] \in In(f) /\ f[i].val # Garbled /\ ms[i] \in In(ms)
    <2>1. f = [i \in DOMAIN ms |-> f[i]]
        BY <1>1
    <2>2. BlockIs(ms, f, n)
        BY <1>2, <2>1 DEF BlockIs
    <2> QED BY <2>2, EntriesOf
<1>4. \A i \in DOMAIN ms :
        /\ EnumEntryOK(f[i]) <=> ~(ms[i].values = <<>>)
        /\ ~(ms[i].values = <<>>) => ReadEnum(f[i]) = ms[i]
    <2> TAKE i \in DOMAIN ms
    <2>1. EnumIn(ms[i]) /\ WriteEnum(ms[i]).val # Garbled
        BY <1>1, <1>3
    <2>2. /\ EnumEntryOK(WriteEnum(ms[i])) <=> ~(ms[i].values = <<>>)
          /\ ~(ms[i].values = <<>>) => ReadEnum(WriteEnum(ms[i])) = ms[i]
        BY <2>1, EnumKept
    <2> QED BY <1>1, <2>2
<1>5. EnumsOK(n) <=> \A i \in DOMAIN ms : ~(ms[i].values = <<>>)
    <2>1. EnumsOK(n) <=> \A e \in In(n.entries) : EnumEntryOK(e)
        BY <1>3 DEF EnumsOK, Named, EnumEntryOK
    <2> QED BY <2>1, <1>3, <1>4
<1>6. EnumsOK(n) => [i \in DOMAIN n.entries |-> ReadEnum(n.entries[i])] = ms
    <2> SUFFICES ASSUME EnumsOK(n) PROVE [i \in DOMAIN n.entries |-> ReadEnum(n.entries[i])] = ms
        OBVIOUS
    <2> DEFINE g == [i \in DOMAIN f |-> ReadEnum(f[i])]
    <2>1. g = [i \in DOMAIN ms |-> g[i]] /\ \A i \in DOMAIN ms : g[i] = ms[i]
        BY <1>3, <1>4, <1>5
    <2>2. [i \in DOMAIN n.entries |-> ReadEnum(n.entries[i])] = g
        BY <1>3
    <2> HIDE DEF g
    <2>3. g = ms
        BY <2>1, SameSequence
    <2> QED BY <2>2, <2>3
<1> QED BY <1>5, <1>6

(* The types, if none is bare.                                                *)
LEMMA TypesKept ==
    ASSUME NEW ms, IsSeq(ms), \A x \in In(ms) : TypeIn(x),
           NEW n, n = (IF ms # <<>> THEN Block([i \in DOMAIN ms |-> WriteType(ms[i])]) ELSE Mapping(<<>>)),
           ms # <<>> => Block([i \in DOMAIN ms |-> WriteType(ms[i])]) # Garbled
    PROVE  /\ TypesOK(n) <=> \A i \in DOMAIN ms : ~BareType(ms[i])
           /\ TypesOK(n) =>
                [i \in DOMAIN n.entries |-> ReadType(n.entries[i])] = [i \in DOMAIN ms |-> CanonicalType(ms[i])]
<1> DEFINE f == [i \in DOMAIN ms |-> WriteType(ms[i])]
<1>1. f = [i \in DOMAIN ms |-> f[i]] /\ \A i \in DOMAIN ms : f[i] = WriteType(ms[i])
    OBVIOUS
<1>2. n = (IF ms # <<>> THEN Block(f) ELSE Mapping(<<>>)) /\ (ms # <<>> => Block(f) # Garbled)
    OBVIOUS
<1> HIDE DEF f
<1>3. /\ n.entries = f /\ n.kind = "mapping" /\ DOMAIN f = DOMAIN ms
      /\ \A x \in In(f) : \E i \in DOMAIN ms : x = f[i]
      /\ \A i \in DOMAIN ms : f[i] \in In(f) /\ f[i].val # Garbled /\ ms[i] \in In(ms)
    <2>1. f = [i \in DOMAIN ms |-> f[i]]
        BY <1>1
    <2>2. BlockIs(ms, f, n)
        BY <1>2, <2>1 DEF BlockIs
    <2> QED BY <2>2, EntriesOf
<1>4. \A i \in DOMAIN ms :
        /\ TypeEntryOK(f[i]) <=> ~BareType(ms[i])
        /\ ~BareType(ms[i]) => ReadType(f[i]) = CanonicalType(ms[i])
    <2> TAKE i \in DOMAIN ms
    <2>1. TypeIn(ms[i]) /\ WriteType(ms[i]).val # Garbled
        BY <1>1, <1>3
    <2>2. /\ TypeEntryOK(WriteType(ms[i])) <=> ~BareType(ms[i])
          /\ ~BareType(ms[i]) => ReadType(WriteType(ms[i])) = CanonicalType(ms[i])
        BY <2>1, TypeKept
    <2> QED BY <1>1, <2>2
<1>5. TypesOK(n) <=> \A i \in DOMAIN ms : ~BareType(ms[i])
    <2>1. TypesOK(n) <=> \A e \in In(n.entries) : TypeEntryOK(e)
        BY <1>3 DEF TypesOK, Named, TypeEntryOK
    <2> QED BY <2>1, <1>3, <1>4
<1>6. TypesOK(n) => [i \in DOMAIN n.entries |-> ReadType(n.entries[i])] = [i \in DOMAIN ms |-> CanonicalType(ms[i])]
    <2> SUFFICES ASSUME TypesOK(n)
                 PROVE  [i \in DOMAIN n.entries |-> ReadType(n.entries[i])]
                        = [i \in DOMAIN ms |-> CanonicalType(ms[i])]
        OBVIOUS
    <2> DEFINE g == [i \in DOMAIN f |-> ReadType(f[i])]
    <2>1. g = [i \in DOMAIN ms |-> CanonicalType(ms[i])]
        BY <1>3, <1>4, <1>5
    <2>2. [i \in DOMAIN n.entries |-> ReadType(n.entries[i])] = g
        BY <1>3
    <2> QED BY <2>1, <2>2
<1> QED BY <1>5, <1>6

InstanceLines(m, ms) == Block([i \in DOMAIN ms |-> WriteInstance(m, ms[i])])
InstancesAre(m, ms, n) ==
    /\ IsSeq(ms) /\ \A x \in In(ms) : InstanceIn(x)
    /\ n = (IF ms # <<>> THEN InstanceLines(m, ms) ELSE Mapping(<<>>))
    /\ ms # <<>> => InstanceLines(m, ms) # Garbled

(* The instances.                                                             *)
LEMMA InstancesKept ==
    ASSUME NEW m, NEW ms, NEW n, InstancesAre(m, ms, n)
    PROVE  InstancesOK(n) /\ [i \in DOMAIN n.entries |-> ReadInstance(n.entries[i])] = ms
<1> DEFINE f == [i \in DOMAIN ms |-> WriteInstance(m, ms[i])]
<1>1. f = [i \in DOMAIN ms |-> f[i]] /\ \A i \in DOMAIN ms : f[i] = WriteInstance(m, ms[i])
    OBVIOUS
<1>0. InstanceLines(m, ms) = Block(f)
    BY DEF InstanceLines
<1> HIDE DEF f
<1>2. /\ n = (IF ms # <<>> THEN Block(f) ELSE Mapping(<<>>)) /\ (ms # <<>> => Block(f) # Garbled)
      /\ IsSeq(ms) /\ \A x \in In(ms) : InstanceIn(x)
    BY <1>0 DEF InstancesAre
<1>3. /\ n.entries = f /\ n.kind = "mapping" /\ DOMAIN f = DOMAIN ms
      /\ \A x \in In(f) : \E i \in DOMAIN ms : x = f[i]
      /\ \A i \in DOMAIN ms : f[i] \in In(f) /\ f[i].val # Garbled /\ ms[i] \in In(ms)
    <2>1. f = [i \in DOMAIN ms |-> f[i]]
        BY <1>1
    <2>2. BlockIs(ms, f, n)
        BY <1>2, <2>1 DEF BlockIs
    <2> QED BY <2>2, EntriesOf
<1>4. \A i \in DOMAIN ms : InstanceEntryOK(f[i]) /\ ReadInstance(f[i]) = ms[i]
    <2> TAKE i \in DOMAIN ms
    <2>1. InstanceIn(ms[i]) /\ WriteInstance(m, ms[i]).val # Garbled
        BY <1>1, <1>2, <1>3
    <2>2. InstanceEntryOK(WriteInstance(m, ms[i])) /\ ReadInstance(WriteInstance(m, ms[i])) = ms[i]
        BY <2>1, InstanceKept
    <2> QED BY <1>1, <2>2
<1>5. InstancesOK(n)
    <2>1. InstancesOK(n) <=> \A e \in In(n.entries) : InstanceEntryOK(e)
        BY <1>3 DEF InstancesOK, Named, InstanceEntryOK, ValuesOK, OfOK
    <2> QED BY <2>1, <1>3, <1>4
<1>6. [i \in DOMAIN n.entries |-> ReadInstance(n.entries[i])] = ms
    <2> DEFINE g == [i \in DOMAIN f |-> ReadInstance(f[i])]
    <2>1. g = [i \in DOMAIN ms |-> g[i]] /\ \A i \in DOMAIN ms : g[i] = ms[i]
        BY <1>3, <1>4, <1>5
    <2>2. [i \in DOMAIN n.entries |-> ReadInstance(n.entries[i])] = g
        BY <1>3
    <2> HIDE DEF g
    <2>3. g = ms
        BY <2>1, <1>2, SameSequence
    <2> QED BY <2>2, <2>3
<1> QED BY <1>5, <1>6

(* The perspectives, if no node is bare.                                      *)
LEMMA PerspectivesKept ==
    ASSUME NEW ms, IsSeq(ms), \A x \in In(ms) : PerspectiveIn(x),
           NEW n, n = (IF ms # <<>> THEN Block([i \in DOMAIN ms |-> WritePerspective(ms[i])]) ELSE Mapping(<<>>)),
           ms # <<>> => Block([i \in DOMAIN ms |-> WritePerspective(ms[i])]) # Garbled
    PROVE  /\ PerspectivesOK(n) <=> \A i \in DOMAIN ms : ~BarePerspective(ms[i])
           /\ PerspectivesOK(n) => [i \in DOMAIN n.entries |-> ReadPerspective(n.entries[i])] = ms
<1> DEFINE f == [i \in DOMAIN ms |-> WritePerspective(ms[i])]
<1>1. f = [i \in DOMAIN ms |-> f[i]] /\ \A i \in DOMAIN ms : f[i] = WritePerspective(ms[i])
    OBVIOUS
<1>2. n = (IF ms # <<>> THEN Block(f) ELSE Mapping(<<>>)) /\ (ms # <<>> => Block(f) # Garbled)
    OBVIOUS
<1> HIDE DEF f
<1>3. /\ n.entries = f /\ n.kind = "mapping" /\ DOMAIN f = DOMAIN ms
      /\ \A x \in In(f) : \E i \in DOMAIN ms : x = f[i]
      /\ \A i \in DOMAIN ms : f[i] \in In(f) /\ f[i].val # Garbled /\ ms[i] \in In(ms)
    <2>1. f = [i \in DOMAIN ms |-> f[i]]
        BY <1>1
    <2>2. BlockIs(ms, f, n)
        BY <1>2, <2>1 DEF BlockIs
    <2> QED BY <2>2, EntriesOf
<1>4. \A i \in DOMAIN ms :
        /\ PerspectiveEntryOK(f[i]) <=> ~BarePerspective(ms[i])
        /\ ~BarePerspective(ms[i]) => ReadPerspective(f[i]) = ms[i]
    <2> TAKE i \in DOMAIN ms
    <2>1. PerspectiveIn(ms[i]) /\ WritePerspective(ms[i]).val # Garbled
        BY <1>1, <1>3
    <2>2. /\ PerspectiveEntryOK(WritePerspective(ms[i])) <=> ~BarePerspective(ms[i])
          /\ ~BarePerspective(ms[i]) => ReadPerspective(WritePerspective(ms[i])) = ms[i]
        BY <2>1, PerspectiveKept
    <2> QED BY <1>1, <2>2
<1>5. PerspectivesOK(n) <=> \A i \in DOMAIN ms : ~BarePerspective(ms[i])
    <2>1. PerspectivesOK(n) <=> \A e \in In(n.entries) : PerspectiveEntryOK(e)
        BY <1>3 DEF PerspectivesOK, Named, PerspectiveEntryOK, NodesOK, NodeKeys
    <2> QED BY <2>1, <1>3, <1>4
<1>6. PerspectivesOK(n) => [i \in DOMAIN n.entries |-> ReadPerspective(n.entries[i])] = ms
    <2> SUFFICES ASSUME PerspectivesOK(n) PROVE [i \in DOMAIN n.entries |-> ReadPerspective(n.entries[i])] = ms
        OBVIOUS
    <2> DEFINE g == [i \in DOMAIN f |-> ReadPerspective(f[i])]
    <2>1. g = [i \in DOMAIN ms |-> g[i]] /\ \A i \in DOMAIN ms : g[i] = ms[i]
        BY <1>3, <1>4, <1>5
    <2>2. [i \in DOMAIN n.entries |-> ReadPerspective(n.entries[i])] = g
        BY <1>3
    <2> HIDE DEF g
    <2>3. g = ms
        BY <2>1, SameSequence
    <2> QED BY <2>2, <2>3
<1> QED BY <1>5, <1>6

(* The section of the hierarchy.                                              *)
LEMMA HierarchyKept ==
    ASSUME NEW b \in BOOLEAN,
           NEW n, n = Braces(<<Line("allowLevelSkip", Scalar(IF b THEN "true" ELSE "false"))>>), n # Garbled
    PROVE  MapOf(n, {"allowLevelSkip"}) /\ (Value(n, "allowLevelSkip", "") = "true") = b
<1> DEFINE x == Scalar(IF b THEN "true" ELSE "false")
           u == <<Line("allowLevelSkip", x)>>
<1>1. u = LineIf(TRUE, "allowLevelSkip", x)
    BY DEF LineIf
<1>2. Clean(u) /\ n = Mapping(u)
    <2> HIDE DEF x
    <2> QED BY BracesIs DEF x
<1> HIDE DEF u, x
<1>3. Longer(<<>>, TRUE, "allowLevelSkip", x, u)
    BY <1>1, <1>2, FirstLine
<1>4. At(Mapping(u), "allowLevelSkip", Scalar("")) = x /\ Keys(Mapping(u)) \subseteq {"allowLevelSkip"}
    BY <1>3, NoLines DEF Longer
<1>5. x.value = IF b THEN "true" ELSE "false"
    BY ScalarIs DEF x
<1>6. Value(n, "allowLevelSkip", "") = IF b THEN "true" ELSE "false"
    BY <1>2, <1>4, <1>5 DEF Value
<1>7. MapOf(n, {"allowLevelSkip"})
    BY <1>2, <1>4, MappingIs DEF MapOf
<1> QED BY <1>6, <1>7

-------------------------------------------------------------------------------
(* The canonical form of a model is written alike.                            *)
HierarchyIn(h) == h = [set |-> h.set, skip |-> h.skip] /\ h.set \in BOOLEAN /\ h.skip \in BOOLEAN /\ (h.skip => h.set)
ModelIn(m) ==
    /\ m = [header |-> m.header, hierarchy |-> m.hierarchy, imports |-> m.imports, enums |-> m.enums,
            types |-> m.types, instances |-> m.instances, perspectives |-> m.perspectives]
    /\ m.header = [k \in HeaderKeys |-> m.header[k]]
    /\ HierarchyIn(m.hierarchy)
    /\ IsSeq(m.imports) /\ \A x \in In(m.imports) : ImportIn(x)
    /\ IsSeq(m.enums) /\ \A x \in In(m.enums) : EnumIn(x)
    /\ IsSeq(m.types) /\ \A x \in In(m.types) : TypeIn(x)
    /\ IsSeq(m.instances) /\ \A x \in In(m.instances) : InstanceIn(x)
    /\ IsSeq(m.perspectives) /\ \A x \in In(m.perspectives) : PerspectiveIn(x)
CanonicalTypes(ots) == [i \in DOMAIN ots |-> CanonicalType(ots[i])]

LEMMA FieldsOfModel ==
    ASSUME NEW h, NEW hi, NEW im, NEW en, NEW ty, NEW is, NEW pe
    PROVE  LET m == [header |-> h, hierarchy |-> hi, imports |-> im, enums |-> en,
                     types |-> ty, instances |-> is, perspectives |-> pe]
           IN  /\ m.header = h /\ m.hierarchy = hi /\ m.imports = im /\ m.enums = en
               /\ m.types = ty /\ m.instances = is /\ m.perspectives = pe
OBVIOUS

(* The canonical form of a type, field by field, ...                          *)
LEMMA CanonicalTypeIs == ASSUME NEW ot, TypeIn(ot)
    PROVE [ot EXCEPT !.members = Each(@, LAMBDA x : Canonical[x])] = CanonicalType(ot)
<1> DEFINE c == CanonicalMembers(ot.members)
           D == {"name", "doc", "base", "abstract", "members"}
           l == [ot EXCEPT !.members = c]
           r == [name |-> ot.name, doc |-> ot.doc, base |-> ot.base, abstract |-> ot.abstract, members |-> c]
<1>1. [ot EXCEPT !.members = Each(@, LAMBDA x : Canonical[x])] = l
    BY DEF CanonicalMembers, Each
<1>2. CanonicalType(ot) = r
    BY DEF CanonicalType
<1> HIDE DEF c
<1>3. DOMAIN ot = D
    <2>1. ot = [name |-> ot.name, doc |-> ot.doc, base |-> ot.base, abstract |-> ot.abstract, members |-> ot.members]
        BY DEF TypeIn
    <2>2. DOMAIN [name |-> ot.name, doc |-> ot.doc, base |-> ot.base, abstract |-> ot.abstract,
                  members |-> ot.members] = D
        OBVIOUS
    <2> HIDE DEF D
    <2> QED BY <2>1, <2>2
<1>4. l = [x \in D |-> IF x = "members" THEN c ELSE ot[x]]
    BY <1>3
<1>5. r = [x \in D |-> r[x]]
    OBVIOUS
<1>6. \A x \in D : r[x] = IF x = "members" THEN c ELSE ot[x]
    OBVIOUS
<1> HIDE DEF l, r, D
<1>7. l = r
    BY <1>4, <1>5, <1>6
<1> QED BY <1>1, <1>2, <1>7

(* ... and that of a model.                                                   *)
LEMMA CanonicalModelIs == ASSUME NEW m, ModelIn(m)
    PROVE CanonicalModel(m) = [header |-> m.header, hierarchy |-> m.hierarchy, imports |-> m.imports,
                               enums |-> m.enums, types |-> CanonicalTypes(m.types),
                               instances |-> m.instances, perspectives |-> m.perspectives]
<1> DEFINE c == CanonicalTypes(m.types)
           D == {"header", "hierarchy", "imports", "enums", "types", "instances", "perspectives"}
           l == [m EXCEPT !.types = c]
           r == [header |-> m.header, hierarchy |-> m.hierarchy, imports |-> m.imports, enums |-> m.enums,
                 types |-> c, instances |-> m.instances, perspectives |-> m.perspectives]
<1>1. CanonicalModel(m) = l
    <2> DEFINE ots == m.types
               k == [i \in DOMAIN ots |-> [ots[i] EXCEPT !.members = Each(@, LAMBDA x : Canonical[x])]]
    <2>1. CanonicalModel(m) = [m EXCEPT !.types = k]
        BY Zenon DEF CanonicalModel, Each
    <2>2. \A i \in DOMAIN ots : [ots[i] EXCEPT !.members = Each(@, LAMBDA x : Canonical[x])] = CanonicalType(ots[i])
        <3> TAKE i \in DOMAIN ots
        <3>1. TypeIn(ots[i])
            BY DEF ModelIn, In
        <3> QED BY <3>1, CanonicalTypeIs
    <2>3. k = c
        BY <2>2 DEF CanonicalTypes
    <2> HIDE DEF k, c
    <2> QED BY <2>1, <2>3
<1> HIDE DEF c
<1>3. DOMAIN m = D
    <2> DEFINE q == [header |-> m.header, hierarchy |-> m.hierarchy, imports |-> m.imports, enums |-> m.enums,
                     types |-> m.types, instances |-> m.instances, perspectives |-> m.perspectives]
    <2>1. m = q
        BY DEF ModelIn
    <2>2. DOMAIN q = D
        OBVIOUS
    <2> HIDE DEF D, q
    <2> QED BY <2>1, <2>2
<1>4. l = [x \in D |-> IF x = "types" THEN c ELSE m[x]]
    BY <1>3
<1>5. r = [x \in D |-> r[x]]
    OBVIOUS
<1>6. \A x \in D : r[x] = IF x = "types" THEN c ELSE m[x]
    OBVIOUS
<1> HIDE DEF l, r, D
<1>7. l = r
    BY <1>4, <1>5, <1>6
<1> QED BY <1>1, <1>7 DEF r, c

(* Declarations of the same names have the same first one of a name.          *)
LEMMA FirstIs ==
    ASSUME NEW s, IsSeq(s), NEW n \in NamesOf(s)
    PROVE  \E i \in DOMAIN s : s[i].name = n /\ \A j \in DOMAIN s : j < i => s[j].name # n
<1> DEFINE T == {i \in DOMAIN s : s[i].name = n}
<1>1. DOMAIN s \subseteq Nat
    <2>1. Len(s) \in Nat /\ DOMAIN s = 1 .. Len(s)
        BY SequenceFacts
    <2> QED BY <2>1
<1>2. T # {} /\ T \subseteq Nat
    BY <1>1 DEF NamesOf, In
<1> HIDE DEF T
<1>3. PICK i \in T : \A k \in T : i <= k
    BY <1>2, LeastOf
<1>4. i \in DOMAIN s /\ s[i].name = n /\ i \in Nat
    BY <1>1, <1>3 DEF T
<1>5. ASSUME NEW j \in DOMAIN s, j < i PROVE s[j].name # n
    <2>1. j \in Nat  BY <1>1
    <2>2. j \in T => i <= j  BY <1>3
    <2>3. j \notin T  BY <1>4, <1>5, <2>1, <2>2
    <2> QED BY <2>3 DEF T
<1> QED BY <1>4, <1>5

(* The types of the canonical model have the same names and bases ...         *)
LEMMA NamedAlike ==
    ASSUME NEW s, IsSeq(s), NEW r, DOMAIN r = DOMAIN s, \A i \in DOMAIN s : r[i].name = s[i].name
    PROVE  /\ NamesOf(r) = NamesOf(s)
           /\ \A n \in NamesOf(s) : \E i \in DOMAIN s : FirstNamed(s, n) = s[i] /\ FirstNamed(r, n) = r[i]
<1>1. NamesOf(r) = NamesOf(s)
    BY DEF NamesOf, In
<1>2. ASSUME NEW n \in NamesOf(s)
      PROVE  \E i \in DOMAIN s : FirstNamed(s, n) = s[i] /\ FirstNamed(r, n) = r[i]
    <2> DEFINE i == CHOOSE i \in DOMAIN s : s[i].name = n /\ \A j \in DOMAIN s : j < i => s[j].name # n
               P(x) == s[x].name = n /\ \A j \in DOMAIN s : j < x => s[j].name # n
               Q(x) == r[x].name = n /\ \A j \in DOMAIN r : j < x => r[j].name # n
    <2>1. i \in DOMAIN s
        BY FirstIs
    <2>2. \A x \in DOMAIN s : P(x) <=> Q(x)
        OBVIOUS
    <2>3. (CHOOSE x \in DOMAIN s : P(x)) = CHOOSE x \in DOMAIN r : Q(x)
        <3> HIDE DEF P, Q
        <3> QED BY <2>2
    <2>4. FirstNamed(s, n) = s[i] /\ FirstNamed(r, n) = r[i]
        <3>1. FirstNamed(s, n) = s[CHOOSE x \in DOMAIN s : P(x)] /\ FirstNamed(r, n) = r[CHOOSE x \in DOMAIN r : Q(x)]
            BY DEF FirstNamed
        <3>2. i = CHOOSE x \in DOMAIN s : P(x)
            OBVIOUS
        <3> HIDE DEF i, P, Q
        <3> QED BY <2>3, <3>1, <3>2
    <2> QED BY <2>1, <2>4
<1> QED BY <1>1, <1>2

(* ... and members of the same names and types, ...                           *)
LEMMA MembersAlike ==
    ASSUME NEW ms, IsSeq(ms), \A x \in In(ms) : x \in Members
    PROVE  /\ CanonicalMembers(ms) = <<>> <=> ms = <<>>
           /\ IsSeq(CanonicalMembers(ms)) /\ Written(CanonicalMembers(ms)) = Written(ms)
           /\ NamesOf(CanonicalMembers(ms)) = NamesOf(ms)
           /\ \A n \in NamesOf(ms) : FirstNamed(CanonicalMembers(ms), n).type = FirstNamed(ms, n).type
<1> DEFINE cs == CanonicalMembers(ms)
<1>1. cs = [i \in DOMAIN ms |-> cs[i]] /\ \A i \in DOMAIN ms : cs[i] = Canonical[ms[i]]
    BY DEF CanonicalMembers
<1> HIDE DEF cs
<1>2. IsSeq(cs) /\ DOMAIN cs = DOMAIN ms /\ (cs = <<>> <=> ms = <<>>)
      /\ \A i \in DOMAIN ms : ms[i] \in In(ms)
    <2>1. cs = [i \in DOMAIN ms |-> cs[i]]
        BY <1>1
    <2> QED BY <2>1, ItemwiseIs
<1>3. \A i \in DOMAIN ms : /\ cs[i].name = ms[i].name /\ cs[i].type = ms[i].type
                           /\ WriteMember[cs[i]] = WriteMember[ms[i]]
    <2> TAKE i \in DOMAIN ms
    <2>1. ms[i] \in Members
        BY <1>2
    <2>2. Canonical[ms[i]].name = ms[i].name /\ Canonical[ms[i]].type = ms[i].type
        BY <2>1, CanonicalSays
    <2>3. Depth \in Nat /\ Depth <= Depth /\ ms[i] \in MembersTo[Depth]
        BY <2>1, DepthIsNat DEF Members
    <2>4. WriteMember[Canonical[ms[i]]] = WriteMember[ms[i]]
        BY <2>3, CanonicalAlike
    <2> QED BY <1>1, <2>2, <2>4
<1>4. Written(cs) = Written(ms)
    BY <1>2, <1>3 DEF Written
<1>5. /\ NamesOf(cs) = NamesOf(ms)
      /\ \A n \in NamesOf(ms) : \E i \in DOMAIN ms : FirstNamed(ms, n) = ms[i] /\ FirstNamed(cs, n) = cs[i]
    BY <1>2, <1>3, NamedAlike
<1>6. \A n \in NamesOf(ms) : FirstNamed(cs, n).type = FirstNamed(ms, n).type
    BY <1>3, <1>5
<1> QED BY <1>2, <1>4, <1>5, <1>6 DEF cs

(* ... so a member looked up along the bases has the same type in both.       *)
LEMMA TypeAlike ==
    ASSUME NEW ot, TypeIn(ot)
    PROVE  WriteType(CanonicalType(ot)) = WriteType(ot) /\ TypeIn(CanonicalType(ot))
<1> DEFINE c == CanonicalType(ot)
           ms == ot.members
           cs == CanonicalMembers(ms)
<1>1. /\ c.name = ot.name /\ c.doc = ot.doc /\ c.base = ot.base /\ c.abstract = ot.abstract /\ c.members = cs
      /\ c = [name |-> c.name, doc |-> c.doc, base |-> c.base, abstract |-> c.abstract, members |-> c.members]
    <2> HIDE DEF cs
    <2> QED BY DEF CanonicalType, cs
<1>2. IsSeq(ms) /\ \A x \in In(ms) : x \in Members /\ Proper(x)
    BY DEF TypeIn
<1>3. (cs = <<>> <=> ms = <<>>) /\ IsSeq(cs) /\ Written(cs) = Written(ms)
    BY <1>2, MembersAlike
<1>4. \A t : WriteType(t) = Line(t.name, Block(
                LineIf(t.doc # "", "doc", Quoted(t.doc))
                \o LineIf(t.base # "", "base", Plain(t.base))
                \o LineIf(t.abstract, "abstract", Scalar("true"))
                \o LineIf(t.members # <<>>, "members", Block(Written(t.members)))))
    BY Zenon DEF WriteType, Section, Each, Written
<1>5. \A x \in In(cs) : x \in Members /\ Proper(x)
    <2> TAKE x \in In(cs)
    <2>1. PICK i \in DOMAIN ms : x = Canonical[ms[i]]
        BY DEF In, CanonicalMembers
    <2>2. ms[i] \in Members /\ Proper(ms[i])
        BY <1>2 DEF In
    <2>3. Depth \in Nat /\ Depth <= Depth /\ ms[i] \in MembersTo[Depth]
        BY <2>2, DepthIsNat DEF Members
    <2>4. Canonical[ms[i]] \in MembersTo[Depth]
        BY <2>3, CanonicalAlike
    <2> QED BY <2>1, <2>2, <2>4, CanonicalIsProper DEF Members
<1> HIDE DEF c, cs
<1>6. WriteType(c) = WriteType(ot)
    <2>1. (c.members # <<>>) = (ot.members # <<>>) /\ Written(c.members) = Written(ot.members)
        BY <1>1, <1>3
    <2> QED BY <1>1, <1>4, <2>1
<1>7. TypeIn(c)
    <2>1. ot.doc \notin DOMAIN Cleaned /\ ot.abstract \in BOOLEAN
        BY DEF TypeIn
    <2> QED BY <1>1, <1>3, <1>5, <2>1 DEF TypeIn
<1> QED BY <1>6, <1>7 DEF c

(* The lines of a model.                                                      *)
HierarchyLines(h) == Braces(<<Line("allowLevelSkip", Scalar(IF h.skip THEN "true" ELSE "false"))>>)
ImportLines(ms) == Block([i \in DOMAIN ms |-> WriteImport(ms[i])])
EnumLines(ms) == Block([i \in DOMAIN ms |-> WriteEnum(ms[i])])
TypeLines(ms) == Block([i \in DOMAIN ms |-> WriteType(ms[i])])
PerspectiveLines(ms) == Block([i \in DOMAIN ms |-> WritePerspective(ms[i])])
ModelLines(m) ==
    <<Line("model", WriteHeader(m.header))>>
    \o LineIf(m.hierarchy.set, "hierarchy", HierarchyLines(m.hierarchy))
    \o LineIf(m.imports # <<>>, "imports", ImportLines(m.imports))
    \o LineIf(m.enums # <<>>, "enums", EnumLines(m.enums))
    \o LineIf(m.types # <<>>, "object_types", TypeLines(m.types))
    \o LineIf(m.instances # <<>>, "instances", InstanceLines(m, m.instances))
    \o LineIf(m.perspectives # <<>>, "perspectives", PerspectiveLines(m.perspectives))

(* A text is the block of its lines.                                          *)
LEMMA FormatIs == ASSUME NEW m PROVE Format(m) = Braces(ModelLines(m))
BY Zenon DEF Format, ModelLines, Section, Each, HierarchyLines, ImportLines, EnumLines, TypeLines,
   InstanceLines, PerspectiveLines

(* The types are written alike.                                               *)
LEMMA TypesAlike ==
    ASSUME NEW ots, IsSeq(ots), \A x \in In(ots) : TypeIn(x)
    PROVE  LET cts == CanonicalTypes(ots)
           IN  /\ IsSeq(cts) /\ Len(cts) = Len(ots) /\ (cts = <<>> <=> ots = <<>>)
               /\ \A x \in In(cts) : TypeIn(x)
               /\ TypeLines(cts) = TypeLines(ots)
               /\ NamesOf(cts) = NamesOf(ots)
               /\ \A n \in NamesOf(ots) :
                    \E i \in DOMAIN ots : FirstNamed(ots, n) = ots[i] /\ FirstNamed(cts, n) = CanonicalType(ots[i])
<1> DEFINE cts == CanonicalTypes(ots)
<1>1. cts = [i \in DOMAIN ots |-> cts[i]] /\ \A i \in DOMAIN ots : cts[i] = CanonicalType(ots[i])
    BY DEF CanonicalTypes
<1> HIDE DEF cts
<1>2. IsSeq(cts) /\ DOMAIN cts = DOMAIN ots /\ Len(cts) = Len(ots) /\ (cts = <<>> <=> ots = <<>>)
      /\ (\A i \in DOMAIN ots : ots[i] \in In(ots)) /\ \A x \in In(cts) : \E i \in DOMAIN ots : x = cts[i]
    <2>1. cts = [i \in DOMAIN ots |-> cts[i]]
        BY <1>1
    <2> QED BY <2>1, ItemwiseIs
<1>3. \A i \in DOMAIN ots : WriteType(cts[i]) = WriteType(ots[i]) /\ TypeIn(cts[i])
    <2> TAKE i \in DOMAIN ots
    <2>1. TypeIn(ots[i])
        BY <1>2
    <2> QED BY <1>1, <2>1, TypeAlike
<1>4. TypeLines(cts) = TypeLines(ots)
    BY <1>2, <1>3 DEF TypeLines
<1>5. \A i \in DOMAIN ots : cts[i].name = ots[i].name
    <2> TAKE i \in DOMAIN ots
    <2>1. CanonicalType(ots[i]).name = ots[i].name
        BY DEF CanonicalType
    <2> QED BY <1>1, <2>1
<1>6. /\ NamesOf(cts) = NamesOf(ots)
      /\ \A n \in NamesOf(ots) : \E i \in DOMAIN ots : FirstNamed(ots, n) = ots[i] /\ FirstNamed(cts, n) = cts[i]
    BY <1>2, <1>5, NamedAlike
<1>7. \A x \in In(cts) : TypeIn(x)
    BY <1>2, <1>3
<1> QED BY <1>1, <1>2, <1>4, <1>6, <1>7 DEF cts

(* The canonical form of a model is a model, and is written alike.            *)
LEMMA ModelAlike ==
    ASSUME NEW m, ModelIn(m)
    PROVE  ModelIn(CanonicalModel(m)) /\ Format(CanonicalModel(m)) = Format(m)
<1> DEFINE c == CanonicalModel(m)
           ots == m.types
           cts == CanonicalTypes(ots)
<1>1. /\ c.header = m.header /\ c.hierarchy = m.hierarchy /\ c.imports = m.imports /\ c.enums = m.enums
      /\ c.types = cts /\ c.instances = m.instances /\ c.perspectives = m.perspectives
      /\ c = [header |-> c.header, hierarchy |-> c.hierarchy, imports |-> c.imports, enums |-> c.enums,
              types |-> c.types, instances |-> c.instances, perspectives |-> c.perspectives]
    <2>1. c = [header |-> m.header, hierarchy |-> m.hierarchy, imports |-> m.imports, enums |-> m.enums,
               types |-> cts, instances |-> m.instances, perspectives |-> m.perspectives]
        BY CanonicalModelIs
    <2> HIDE DEF c, cts
    <2> QED BY <2>1
<1>2. IsSeq(ots) /\ \A x \in In(ots) : TypeIn(x)
    BY DEF ModelIn
<1>3. /\ IsSeq(cts) /\ Len(cts) = Len(ots) /\ (cts = <<>> <=> ots = <<>>)
      /\ \A x \in In(cts) : TypeIn(x)
      /\ TypeLines(cts) = TypeLines(ots)
      /\ NamesOf(cts) = NamesOf(ots)
      /\ \A n \in NamesOf(ots) :
            \E i \in DOMAIN ots : FirstNamed(ots, n) = ots[i] /\ FirstNamed(cts, n) = CanonicalType(ots[i])
    BY <1>2, TypesAlike
<1> HIDE DEF c, cts
<1>4. ModelIn(c)
    BY <1>1, <1>3 DEF ModelIn
<1>5. \A n \in NamesOf(ots) :
        /\ FirstNamed(cts, n).base = FirstNamed(ots, n).base
        /\ NamesOf(FirstNamed(cts, n).members) = NamesOf(FirstNamed(ots, n).members)
        /\ \A x \in NamesOf(FirstNamed(ots, n).members) :
             FirstNamed(FirstNamed(cts, n).members, x).type = FirstNamed(FirstNamed(ots, n).members, x).type
    <2> TAKE n \in NamesOf(ots)
    <2>1. PICK i \in DOMAIN ots : FirstNamed(ots, n) = ots[i] /\ FirstNamed(cts, n) = CanonicalType(ots[i])
        BY <1>3
    <2> DEFINE ms == ots[i].members
    <2>2. TypeIn(ots[i])
        BY <1>2 DEF In
    <2>3. IsSeq(ms) /\ \A x \in In(ms) : x \in Members
        BY <2>2 DEF TypeIn
    <2>4. CanonicalType(ots[i]).base = ots[i].base /\ CanonicalType(ots[i]).members = CanonicalMembers(ms)
        BY DEF CanonicalType
    <2>5. /\ NamesOf(CanonicalMembers(ms)) = NamesOf(ms)
          /\ \A x \in NamesOf(ms) : FirstNamed(CanonicalMembers(ms), x).type = FirstNamed(ms, x).type
        <3> HIDE DEF ms
        <3> QED BY <2>3, MembersAlike
    <2> QED BY <2>1, <2>4, <2>5
<1>6. Bases(c) = Bases(m)
    <2> DEFINE B(b, n) == IF b # "" /\ Ref(b)[1] = "" /\ Ref(b)[2] \notin Builtin THEN Ref(b)[2] ELSE n
    <2>1. Bases(c) = [n \in NamesOf(cts) |-> B(FirstNamed(cts, n).base, n)]
        BY <1>1 DEF Bases, TypeNames
    <2>2. Bases(m) = [n \in NamesOf(ots) |-> B(FirstNamed(ots, n).base, n)]
        BY DEF Bases, TypeNames
    <2> HIDE DEF B, ots
    <2> QED BY <2>1, <2>2, <1>3, <1>5
<1>7. Declared(c) = Declared(m)
    <2> DEFINE D(ms) == [x \in NamesOf(ms) |-> FirstNamed(ms, x).type]
    <2>1. Declared(c) = [n \in NamesOf(cts) |-> D(FirstNamed(cts, n).members)]
        BY <1>1 DEF Declared, TypeNames
    <2>2. Declared(m) = [n \in NamesOf(ots) |-> D(FirstNamed(ots, n).members)]
        BY DEF Declared, TypeNames
    <2>3. \A n \in NamesOf(ots) : D(FirstNamed(cts, n).members) = D(FirstNamed(ots, n).members)
        <3> TAKE n \in NamesOf(ots)
        <3> DEFINE a == FirstNamed(cts, n).members
                   b == FirstNamed(ots, n).members
        <3>1. NamesOf(a) = NamesOf(b) /\ \A x \in NamesOf(b) : FirstNamed(a, x).type = FirstNamed(b, x).type
            BY <1>5
        <3> HIDE DEF a, b
        <3>2. D(a) = D(b)
            BY <3>1
        <3> QED BY <3>2 DEF a, b
    <2> HIDE DEF D, ots
    <2> QED BY <2>1, <2>2, <2>3, <1>3
<1>8. \A t, n : MemberType(c, t, n) = MemberType(m, t, n)
    BY <1>1, <1>3, <1>6, <1>7 DEF MemberType
<1>9. \A t, raw : ValueLiteral(c, t, raw) = ValueLiteral(m, t, raw)
    BY <1>1 DEF ValueLiteral
<1>10. \A inst, v : ValueLine(c, inst, v) = ValueLine(m, inst, v)
    BY <1>8, <1>9 DEF ValueLine
<1>11. \A inst : WriteInstance(c, inst) = WriteInstance(m, inst)
    <2> TAKE inst
    <2> DEFINE L(f) == Line(inst.name, Block(
                         <<Line("type", Plain(inst.type)), Line("under", Plain(inst.under))>>
                         \o LineIf(inst.level # "", "level", Plain(inst.level))
                         \o LineIf(inst.values # <<>>, "values", Block(f))
                         \o LineIf(inst.children # <<>>, "children",
                                   Block([i \in DOMAIN inst.children |-> OfLine(inst.children[i])]))))
               F(x) == [i \in DOMAIN inst.values |-> ValueLine(x, inst, inst.values[i])]
    <2>1. \A x : WriteInstance(x, inst) = L(F(x))
        BY Zenon DEF WriteInstance, Section, Each, ValueLine, OfLine
    <2>2. F(c) = F(m)
        BY <1>10
    <2> HIDE DEF L, F
    <2> QED BY <2>1, <2>2
<1>12. \A s : InstanceLines(c, s) = InstanceLines(m, s)
    BY <1>11 DEF InstanceLines
<1>13. ModelLines(c) = ModelLines(m)
    <2>1. (c.types # <<>>) = (m.types # <<>>) /\ TypeLines(c.types) = TypeLines(m.types)
        BY <1>1, <1>3
    <2> QED BY <1>1, <1>12, <2>1 DEF ModelLines
<1>14. Format(c) = Format(m)
    BY <1>13, FormatIs
<1> QED BY <1>4, <1>14 DEF c

-------------------------------------------------------------------------------
(* A text that Format wrote, as a whole.                                      *)
LEMMA ModelKept ==
    ASSUME NEW m, ModelIn(m), Format(m) # Garbled
    PROVE  /\ Parses(Format(m)) <=> ~Bare(m)
           /\ Parses(Format(m)) => Parse(Format(m)) = CanonicalModel(m)
<1> DEFINE t == Format(m)
           u == ModelLines(m)
           n1 == WriteHeader(m.header)
           n2 == HierarchyLines(m.hierarchy)
           n3 == ImportLines(m.imports)
           n4 == EnumLines(m.enums)
           n5 == TypeLines(m.types)
           n6 == InstanceLines(m, m.instances)
           n7 == PerspectiveLines(m.perspectives)
<1>1. t = Braces(u)
    BY FormatIs
<1>2. t # Garbled
    OBVIOUS
<1> HIDE DEF t, u
<1>3. t = Mapping(u) /\ Clean(u)
    BY <1>1, <1>2, BracesIs
<1>in. m.hierarchy.set \in BOOLEAN
    BY DEF ModelIn, HierarchyIn
<1> HIDE DEF n1, n2, n3, n4, n5, n6, n7
<1> DEFINE
    c1 == TRUE
           t1 == LineIf(c1, "model", n1)
           s1 == t1
           c2 == m.hierarchy.set
           t2 == LineIf(c2, "hierarchy", n2)
           s2 == s1 \o t2
           c3 == m.imports # <<>>
           t3 == LineIf(c3, "imports", n3)
           s3 == s2 \o t3
           c4 == m.enums # <<>>
           t4 == LineIf(c4, "enums", n4)
           s4 == s3 \o t4
           c5 == m.types # <<>>
           t5 == LineIf(c5, "object_types", n5)
           s5 == s4 \o t5
           c6 == m.instances # <<>>
           t6 == LineIf(c6, "instances", n6)
           s6 == s5 \o t6
           c7 == m.perspectives # <<>>
           t7 == LineIf(c7, "perspectives", n7)
           s7 == s6 \o t7
<1>0. u = s7
    <2>1. t1 = <<Line("model", n1)>>
        BY DEF LineIf
    <2> HIDE DEF t1
    <2> QED BY <2>1 DEF u, ModelLines, n1, n2, n3, n4, n5, n6, n7
<1>00. c1 \in BOOLEAN /\ c2 \in BOOLEAN /\ c3 \in BOOLEAN /\ c4 \in BOOLEAN
       /\ c5 \in BOOLEAN /\ c6 \in BOOLEAN /\ c7 \in BOOLEAN
    BY <1>in
<1>a1. IsSeq(s1)
    <2>1. IsSeq(<<>>)  BY EmptyIs
    <2> HIDE DEF c1
    <2> QED BY <2>1, <1>00, LineIfIs
<1>a2. IsSeq(s2)
    <2> HIDE DEF s1, c2
    <2> QED BY <1>a1, <1>00, LineIfIs
<1>a3. IsSeq(s3)
    <2> HIDE DEF s2, c3
    <2> QED BY <1>a2, <1>00, LineIfIs
<1>a4. IsSeq(s4)
    <2> HIDE DEF s3, c4
    <2> QED BY <1>a3, <1>00, LineIfIs
<1>a5. IsSeq(s5)
    <2> HIDE DEF s4, c5
    <2> QED BY <1>a4, <1>00, LineIfIs
<1>a6. IsSeq(s6)
    <2> HIDE DEF s5, c6
    <2> QED BY <1>a5, <1>00, LineIfIs
<1>a7. IsSeq(s7)
    <2> HIDE DEF s6, c7
    <2> QED BY <1>a6, <1>00, LineIfIs
<1>b7. Clean(s7)
    BY <1>0, <1>3
<1>l7. Longer(s6, c7, "perspectives", n7, s7)
    <2> HIDE DEF s6, c7
    <2> QED BY <1>a6, <1>b7, <1>00, LongerIs
<1>b6. Clean(s6)
    BY <1>l7 DEF Longer
<1>l6. Longer(s5, c6, "instances", n6, s6)
    <2> HIDE DEF s5, c6
    <2> QED BY <1>a5, <1>b6, <1>00, LongerIs
<1>b5. Clean(s5)
    BY <1>l6 DEF Longer
<1>l5. Longer(s4, c5, "object_types", n5, s5)
    <2> HIDE DEF s4, c5
    <2> QED BY <1>a4, <1>b5, <1>00, LongerIs
<1>b4. Clean(s4)
    BY <1>l5 DEF Longer
<1>l4. Longer(s3, c4, "enums", n4, s4)
    <2> HIDE DEF s3, c4
    <2> QED BY <1>a3, <1>b4, <1>00, LongerIs
<1>b3. Clean(s3)
    BY <1>l4 DEF Longer
<1>l3. Longer(s2, c3, "imports", n3, s3)
    <2> HIDE DEF s2, c3
    <2> QED BY <1>a2, <1>b3, <1>00, LongerIs
<1>b2. Clean(s2)
    BY <1>l3 DEF Longer
<1>l2. Longer(s1, c2, "hierarchy", n2, s2)
    <2> HIDE DEF s1, c2
    <2> QED BY <1>a1, <1>b2, <1>00, LongerIs
<1>b1. Clean(s1)
    BY <1>l2 DEF Longer
<1>l1. Longer(<<>>, c1, "model", n1, s1)
    <2> HIDE DEF c1
    <2> QED BY <1>b1, <1>00, FirstLine
<1> HIDE DEF s1, s2, s3, s4, s5, s6, s7, c1, c2, c3, c4, c5, c6, c7, u
<1>g. /\ c1 => n1 # Garbled
      /\ c2 => n2 # Garbled
      /\ c3 => n3 # Garbled
      /\ c4 => n4 # Garbled
      /\ c5 => n5 # Garbled
      /\ c6 => n6 # Garbled
      /\ c7 => n7 # Garbled
    BY <1>l1, <1>l2, <1>l3, <1>l4, <1>l5, <1>l6, <1>l7 DEF Longer
<1>z. IsSeq(u) /\ (u = <<>> <=> ~c1 /\ ~c2 /\ ~c3 /\ ~c4 /\ ~c5 /\ ~c6 /\ ~c7)
    BY <1>0, <1>a7, <1>l1, <1>l2, <1>l3, <1>l4, <1>l5, <1>l6, <1>l7 DEF Longer
<1>v1. \A d : At(Mapping(u), "model", d) = IF c1 THEN n1 ELSE d
    BY <1>0, <1>l1, <1>l2, <1>l3, <1>l4, <1>l5, <1>l6, <1>l7, NoLines DEF Longer
<1>v2. \A d : At(Mapping(u), "hierarchy", d) = IF c2 THEN n2 ELSE d
    BY <1>0, <1>l1, <1>l2, <1>l3, <1>l4, <1>l5, <1>l6, <1>l7, NoLines DEF Longer
<1>v3. \A d : At(Mapping(u), "imports", d) = IF c3 THEN n3 ELSE d
    BY <1>0, <1>l1, <1>l2, <1>l3, <1>l4, <1>l5, <1>l6, <1>l7, NoLines DEF Longer
<1>v4. \A d : At(Mapping(u), "enums", d) = IF c4 THEN n4 ELSE d
    BY <1>0, <1>l1, <1>l2, <1>l3, <1>l4, <1>l5, <1>l6, <1>l7, NoLines DEF Longer
<1>v5. \A d : At(Mapping(u), "object_types", d) = IF c5 THEN n5 ELSE d
    BY <1>0, <1>l1, <1>l2, <1>l3, <1>l4, <1>l5, <1>l6, <1>l7, NoLines DEF Longer
<1>v6. \A d : At(Mapping(u), "instances", d) = IF c6 THEN n6 ELSE d
    BY <1>0, <1>l1, <1>l2, <1>l3, <1>l4, <1>l5, <1>l6, <1>l7, NoLines DEF Longer
<1>v7. \A d : At(Mapping(u), "perspectives", d) = IF c7 THEN n7 ELSE d
    BY <1>0, <1>l1, <1>l2, <1>l3, <1>l4, <1>l5, <1>l6, <1>l7, NoLines DEF Longer
<1>k. Keys(Mapping(u)) \subseteq
          {"model", "hierarchy", "imports", "enums", "object_types", "instances", "perspectives"}
    BY <1>0, <1>l1, <1>l2, <1>l3, <1>l4, <1>l5, <1>l6, <1>l7, NoLines DEF Longer
<1>e. \A e \in In(u) :
          \/ c1 /\ e = Pair("model", n1)
          \/ c2 /\ e = Pair("hierarchy", n2)
          \/ c3 /\ e = Pair("imports", n3)
          \/ c4 /\ e = Pair("enums", n4)
          \/ c5 /\ e = Pair("object_types", n5)
          \/ c6 /\ e = Pair("instances", n6)
          \/ c7 /\ e = Pair("perspectives", n7)
    BY <1>0, <1>l1, <1>l2, <1>l3, <1>l4, <1>l5, <1>l6, <1>l7, NoLines DEF Longer
<1>f. /\ c1 => Pair("model", n1) \in In(u)
      /\ c2 => Pair("hierarchy", n2) \in In(u)
      /\ c3 => Pair("imports", n3) \in In(u)
      /\ c4 => Pair("enums", n4) \in In(u)
      /\ c5 => Pair("object_types", n5) \in In(u)
      /\ c6 => Pair("instances", n6) \in In(u)
      /\ c7 => Pair("perspectives", n7) \in In(u)
    BY <1>0, <1>l1, <1>l2, <1>l3, <1>l4, <1>l5, <1>l6, <1>l7, NoLines DEF Longer
<1>4. t.kind = "mapping" /\ t.entries = u /\ "model" \in Keys(t) /\ ("hierarchy" \in Keys(t) <=> c2)
    <2>1. t.kind = "mapping" /\ t.entries = u
        BY <1>3, MappingIs
    <2>2. "model" \in Keys(Mapping(u)) /\ ("hierarchy" \in Keys(Mapping(u)) <=> c2)
        BY <1>0, <1>l1, <1>l2, <1>l3, <1>l4, <1>l5, <1>l6, <1>l7, NoLines DEF Longer, c1
    <2> QED BY <2>1, <2>2, <1>3
<1>5. \A k, n : Pair(k, n).key = k /\ Pair(k, n).val = n
    BY DEF Pair
<1>6. /\ MapOf(n1, HeaderKeys)
      /\ \A k \in HeaderKeys : IF k \in Keys(n1) THEN Value(n1, k, "") = m.header[k] ELSE m.header[k] = ""
    <2> DEFINE h == m.header
    <2>1. WriteHeader(h) # Garbled
        BY <1>g DEF c1, n1
    <2> HIDE DEF h
    <2>2. /\ MapOf(WriteHeader(h), HeaderKeys)
          /\ \A k \in HeaderKeys :
               IF k \in Keys(WriteHeader(h)) THEN Value(WriteHeader(h), k, "") = h[k] ELSE h[k] = ""
        BY <2>1, HeaderKept
    <2> QED BY <2>2 DEF h, n1
<1>7. c2 => MapOf(n2, {"allowLevelSkip"}) /\ (Value(n2, "allowLevelSkip", "") = "true") = m.hierarchy.skip
    <2> DEFINE b == m.hierarchy.skip
    <2>1. b \in BOOLEAN
        BY DEF ModelIn, HierarchyIn
    <2>2. n2 = Braces(<<Line("allowLevelSkip", Scalar(IF b THEN "true" ELSE "false"))>>)
        BY DEF n2, HierarchyLines
    <2> HIDE DEF b
    <2>3. c2 => n2 # Garbled
        BY <1>g
    <2>4. c2 => MapOf(n2, {"allowLevelSkip"}) /\ (Value(n2, "allowLevelSkip", "") = "true") = b
        BY <2>1, <2>2, <2>3, HierarchyKept
    <2> QED BY <2>4 DEF b
<1>s3. LET ms == m.imports
           n == IF c3 THEN n3 ELSE Mapping(<<>>)
       IN  /\ ImportsOK(n)
           /\ ImportsOK(n) => [i \in DOMAIN n.entries |-> ReadImport(n.entries[i])] = ms
    <2> DEFINE ms == m.imports
               n == IF c3 THEN n3 ELSE Mapping(<<>>)
               blk == Block([i \in DOMAIN ms |-> WriteImport(ms[i])])
    <2>1. IsSeq(ms) /\ \A x \in In(ms) : ImportIn(x)
        BY DEF ModelIn
    <2>2. n = (IF ms # <<>> THEN blk ELSE Mapping(<<>>))
        BY DEF c3, n3, ImportLines
    <2>3. ms # <<>> => blk # Garbled
        BY <1>g DEF c3, n3, ImportLines
    <2> HIDE DEF n, ms
    <2>4. ImportsOK(n)
          /\ [i \in DOMAIN n.entries |-> ReadImport(n.entries[i])] = ms
        BY <2>1, <2>2, <2>3, ImportsKept
    <2> QED BY <2>4 DEF n, ms
<1>s4. LET ms == m.enums
           n == IF c4 THEN n4 ELSE Mapping(<<>>)
       IN  /\ EnumsOK(n) <=> \A i \in DOMAIN ms : ~(ms[i].values = <<>>)
           /\ EnumsOK(n) => [i \in DOMAIN n.entries |-> ReadEnum(n.entries[i])] = ms
    <2> DEFINE ms == m.enums
               n == IF c4 THEN n4 ELSE Mapping(<<>>)
               blk == Block([i \in DOMAIN ms |-> WriteEnum(ms[i])])
    <2>1. IsSeq(ms) /\ \A x \in In(ms) : EnumIn(x)
        BY DEF ModelIn
    <2>2. n = (IF ms # <<>> THEN blk ELSE Mapping(<<>>))
        BY DEF c4, n4, EnumLines
    <2>3. ms # <<>> => blk # Garbled
        BY <1>g DEF c4, n4, EnumLines
    <2> HIDE DEF n, ms
    <2>4. /\ EnumsOK(n) <=> \A i \in DOMAIN ms : ~(ms[i].values = <<>>)
          /\ EnumsOK(n) => [i \in DOMAIN n.entries |-> ReadEnum(n.entries[i])] = ms
        BY <2>1, <2>2, <2>3, EnumsKept
    <2> QED BY <2>4 DEF n, ms
<1>s5. LET ms == m.types
           n == IF c5 THEN n5 ELSE Mapping(<<>>)
       IN  /\ TypesOK(n) <=> \A i \in DOMAIN ms : ~BareType(ms[i])
           /\ TypesOK(n) =>
                [i \in DOMAIN n.entries |-> ReadType(n.entries[i])] = [i \in DOMAIN ms |-> CanonicalType(ms[i])]
    <2> DEFINE ms == m.types
               n == IF c5 THEN n5 ELSE Mapping(<<>>)
               blk == Block([i \in DOMAIN ms |-> WriteType(ms[i])])
    <2>1. IsSeq(ms) /\ \A x \in In(ms) : TypeIn(x)
        BY DEF ModelIn
    <2>2. n = (IF ms # <<>> THEN blk ELSE Mapping(<<>>))
        BY DEF c5, n5, TypeLines
    <2>3. ms # <<>> => blk # Garbled
        BY <1>g DEF c5, n5, TypeLines
    <2> HIDE DEF n, ms
    <2>4. /\ TypesOK(n) <=> \A i \in DOMAIN ms : ~BareType(ms[i])
          /\ TypesOK(n) =>
               [i \in DOMAIN n.entries |-> ReadType(n.entries[i])] = [i \in DOMAIN ms |-> CanonicalType(ms[i])]
        BY <2>1, <2>2, <2>3, TypesKept
    <2> QED BY <2>4 DEF n, ms
<1>s6. LET ms == m.instances
           n == IF c6 THEN n6 ELSE Mapping(<<>>)
       IN  /\ InstancesOK(n)
           /\ InstancesOK(n) => [i \in DOMAIN n.entries |-> ReadInstance(n.entries[i])] = ms
    <2> DEFINE ms == m.instances
               n == IF c6 THEN n6 ELSE Mapping(<<>>)
    <2>1. IsSeq(ms) /\ \A x \in In(ms) : InstanceIn(x)
        BY DEF ModelIn
    <2>2. n = (IF ms # <<>> THEN InstanceLines(m, ms) ELSE Mapping(<<>>))
        BY DEF c6, n6
    <2>3. ms # <<>> => InstanceLines(m, ms) # Garbled
        BY <1>g DEF c6, n6
    <2> HIDE DEF n, ms
    <2>4. InstancesAre(m, ms, n)
        BY <2>1, <2>2, <2>3 DEF InstancesAre
    <2>5. InstancesOK(n)
          /\ [i \in DOMAIN n.entries |-> ReadInstance(n.entries[i])] = ms
        BY <2>4, InstancesKept
    <2> QED BY <2>5 DEF n, ms
<1>s7. LET ms == m.perspectives
           n == IF c7 THEN n7 ELSE Mapping(<<>>)
       IN  /\ PerspectivesOK(n) <=> \A i \in DOMAIN ms : ~BarePerspective(ms[i])
           /\ PerspectivesOK(n) => [i \in DOMAIN n.entries |-> ReadPerspective(n.entries[i])] = ms
    <2> DEFINE ms == m.perspectives
               n == IF c7 THEN n7 ELSE Mapping(<<>>)
               blk == Block([i \in DOMAIN ms |-> WritePerspective(ms[i])])
    <2>1. IsSeq(ms) /\ \A x \in In(ms) : PerspectiveIn(x)
        BY DEF ModelIn
    <2>2. n = (IF ms # <<>> THEN blk ELSE Mapping(<<>>))
        BY DEF c7, n7, PerspectiveLines
    <2>3. ms # <<>> => blk # Garbled
        BY <1>g DEF c7, n7, PerspectiveLines
    <2> HIDE DEF n, ms
    <2>4. /\ PerspectivesOK(n) <=> \A i \in DOMAIN ms : ~BarePerspective(ms[i])
          /\ PerspectivesOK(n) => [i \in DOMAIN n.entries |-> ReadPerspective(n.entries[i])] = ms
        BY <2>1, <2>2, <2>3, PerspectivesKept
    <2> QED BY <2>4 DEF n, ms
<1> DEFINE p4 == \A i \in DOMAIN m.enums : ~(m.enums[i].values = <<>>)
           p5 == \A i \in DOMAIN m.types : ~BareType(m.types[i])
           p7 == \A i \in DOMAIN m.perspectives : ~BarePerspective(m.perspectives[i])
<1>8. Bare(m) <=> ~(p4 /\ p5 /\ p7)
    BY DEF Bare, BareType, BarePerspective, BareNode
<1>9. DOMAIN <<>> = {}
    OBVIOUS
<1>10. (c4 => EnumsOK(n4)) <=> p4
    BY <1>s4, <1>9 DEF c4
<1>11. (c5 => TypesOK(n5)) <=> p5
    BY <1>s5, <1>9 DEF c5
<1>12. (c7 => PerspectivesOK(n7)) <=> p7
    BY <1>s7, <1>9 DEF c7
<1>13. (c3 => ImportsOK(n3)) /\ (c6 => InstancesOK(n6))
    BY <1>s3, <1>s6
<1> HIDE DEF p4, p5, p7
<1>14. /\ \A n : SectionOK("model", n) <=> MapOf(n, HeaderKeys)
       /\ \A n : SectionOK("hierarchy", n) <=> MapOf(n, {"allowLevelSkip"})
       /\ \A n : SectionOK("imports", n) <=> ImportsOK(n)
       /\ \A n : SectionOK("enums", n) <=> EnumsOK(n)
       /\ \A n : SectionOK("object_types", n) <=> TypesOK(n)
       /\ \A n : SectionOK("instances", n) <=> InstancesOK(n)
       /\ \A n : SectionOK("perspectives", n) <=> PerspectivesOK(n)
    BY DEF SectionOK
<1>15. Parses(t) <=> p4 /\ p5 /\ p7
    <2>1. Parses(t) <=> \A e \in In(u) : SectionOK(e.key, e.val)
        BY <1>4 DEF Parses
    <2>2. ASSUME p4, p5, p7, NEW e \in In(u) PROVE SectionOK(e.key, e.val)
        <3>1. MapOf(n1, HeaderKeys)  BY <1>6
        <3>2. \/ c1 /\ e.key = "model" /\ e.val = n1
              \/ c2 /\ e.key = "hierarchy" /\ e.val = n2
              \/ c3 /\ e.key = "imports" /\ e.val = n3
              \/ c4 /\ e.key = "enums" /\ e.val = n4
              \/ c5 /\ e.key = "object_types" /\ e.val = n5
              \/ c6 /\ e.key = "instances" /\ e.val = n6
              \/ c7 /\ e.key = "perspectives" /\ e.val = n7
            BY <1>e, <1>5
        <3> QED BY <2>2, <3>1, <3>2, <1>7, <1>10, <1>11, <1>12, <1>13, <1>14
    <2>3. ASSUME \A e \in In(u) : SectionOK(e.key, e.val) PROVE p4 /\ p5 /\ p7
        <3>1. c4 => EnumsOK(n4)
            BY <2>3, <1>f, <1>5, <1>14
        <3>2. c5 => TypesOK(n5)
            BY <2>3, <1>f, <1>5, <1>14
        <3>3. c7 => PerspectivesOK(n7)
            BY <2>3, <1>f, <1>5, <1>14
        <3> QED BY <3>1, <3>2, <3>3, <1>10, <1>11, <1>12
    <2> QED BY <2>1, <2>2, <2>3
<1>16. ASSUME Parses(t) PROVE Parse(t) = CanonicalModel(m)
    <2>1. [k \in HeaderKeys |-> HeaderField(t, k)] = m.header
        <3>1. ASSUME NEW k \in HeaderKeys PROVE HeaderField(t, k) = m.header[k]
            <4> DEFINE D == DOMAIN u
                       Gives(i) == u[i].key = "model" /\ k \in Keys(u[i].val)
                       Last(i) == Gives(i) /\ \A j \in D : j > i => ~Gives(j)
                       b == CHOOSE i \in D : Last(i)
            <4>1. HeaderField(t, k) = IF ~\E i \in D : Gives(i) THEN "" ELSE Value(u[b].val, k, "")
                BY <1>4 DEF HeaderField
            <4>2. \A i \in D : u[i] \in In(u)
                BY DEF In
            <4>3. \A i \in D : u[i].key = "model" => u[i].val = n1
                BY <4>2, <1>e, <1>5
            <4>4. CASE k \notin Keys(n1)
                <5>1. ~\E i \in D : Gives(i)
                    BY <4>3, <4>4
                <5> HIDE DEF D, Gives, b
                <5>2. HeaderField(t, k) = ""
                    BY <4>1, <5>1
                <5> QED BY <5>2, <4>4, <1>6
            <4>5. CASE k \in Keys(n1)
                <5>1. IsSeq(t.entries)
                    BY <1>z, <1>4
                <5>2. \E i \in DOMAIN t.entries :
                          t.entries[i].key = "model"
                          /\ \A j \in DOMAIN t.entries : j > i => t.entries[j].key # "model"
                    BY <5>1, <1>4, LastWith
                <5>3. PICK i \in D : u[i].key = "model" /\ \A j \in D : j > i => u[j].key # "model"
                    BY <5>2, <1>4
                <5>4. Last(i)
                    BY <5>3, <4>3, <4>5
                <5>5. b \in D /\ Last(b)
                    <6> HIDE DEF Last, D
                    <6> QED BY <5>3, <5>4
                <5>6. u[b].val = n1 /\ \E x \in D : Gives(x)
                    <6>1. Gives(b)  BY <5>5
                    <6>2. u[b].key = "model"  BY <6>1
                    <6> HIDE DEF b, D, Gives
                    <6> QED BY <4>3, <5>5, <6>1, <6>2
                <5> HIDE DEF D, Gives, b
                <5>7. HeaderField(t, k) = Value(n1, k, "")
                    BY <4>1, <5>6
                <5> QED BY <5>7, <4>5, <1>6
            <4> QED BY <4>4, <4>5
        <3>2. m.header = [k \in HeaderKeys |-> m.header[k]]
            BY DEF ModelIn
        <3>3. [k \in HeaderKeys |-> HeaderField(t, k)] = [k \in HeaderKeys |-> m.header[k]]
            BY <3>1
        <3> QED BY <3>2, <3>3
    <2>2. [set |-> "hierarchy" \in Keys(t),
           skip |-> Value(At(t, "hierarchy", Mapping(<<>>)), "allowLevelSkip", "") = "true"] = m.hierarchy
        <3>1. At(t, "hierarchy", Mapping(<<>>)) = IF c2 THEN n2 ELSE Mapping(<<>>)
            BY <1>3, <1>v2
        <3>2. Value(Mapping(<<>>), "allowLevelSkip", "") = ""
            BY NoLines, ScalarIs DEF Value
        <3>3. ("hierarchy" \in Keys(t)) = m.hierarchy.set
            BY <1>4, <1>in DEF c2
        <3>4. (Value(At(t, "hierarchy", Mapping(<<>>)), "allowLevelSkip", "") = "true") = m.hierarchy.skip
            <4>1. m.hierarchy.skip \in BOOLEAN /\ (m.hierarchy.skip => m.hierarchy.set)
                BY DEF ModelIn, HierarchyIn
            <4>2. CASE c2
                BY <3>1, <4>2, <1>7
            <4>3. CASE ~c2
                <5>1. m.hierarchy.skip = FALSE
                    BY <4>1, <4>3 DEF c2
                <5>2. At(t, "hierarchy", Mapping(<<>>)) = Mapping(<<>>)
                    BY <3>1, <4>3
                <5> QED BY <3>2, <5>1, <5>2
            <4> QED BY <4>2, <4>3
        <3>5. m.hierarchy = [set |-> m.hierarchy.set, skip |-> m.hierarchy.skip]
            BY DEF ModelIn, HierarchyIn
        <3> QED BY <3>3, <3>4, <3>5
    <2>p. p4 /\ p5 /\ p7
        BY <1>15, <1>16
    <2>3. Each(Children(t, "imports"), ReadImport) = m.imports
        <3>1. At(t, "imports", Mapping(<<>>)) = IF c3 THEN n3 ELSE Mapping(<<>>)
            BY <1>3, <1>v3
        <3> QED BY <3>1, <1>s3 DEF Children, Each
    <2>4. Each(Children(t, "enums"), ReadEnum) = m.enums
        <3>1. At(t, "enums", Mapping(<<>>)) = IF c4 THEN n4 ELSE Mapping(<<>>)
            BY <1>3, <1>v4
        <3> QED BY <3>1, <2>p, <1>s4 DEF Children, Each, p4
    <2>5. Each(Children(t, "object_types"), ReadType) = CanonicalTypes(m.types)
        <3>1. At(t, "object_types", Mapping(<<>>)) = IF c5 THEN n5 ELSE Mapping(<<>>)
            BY <1>3, <1>v5
        <3> QED BY <3>1, <2>p, <1>s5 DEF Children, Each, p5, CanonicalTypes
    <2>6. Each(Children(t, "instances"), ReadInstance) = m.instances
        <3>1. At(t, "instances", Mapping(<<>>)) = IF c6 THEN n6 ELSE Mapping(<<>>)
            BY <1>3, <1>v6
        <3> QED BY <3>1, <1>s6 DEF Children, Each
    <2>7. Each(Children(t, "perspectives"), ReadPerspective) = m.perspectives
        <3>1. At(t, "perspectives", Mapping(<<>>)) = IF c7 THEN n7 ELSE Mapping(<<>>)
            BY <1>3, <1>v7
        <3> QED BY <3>1, <2>p, <1>s7 DEF Children, Each, p7
    <2>8. Parse(t) = [header |-> m.header, hierarchy |-> m.hierarchy, imports |-> m.imports, enums |-> m.enums,
                      types |-> CanonicalTypes(m.types), instances |-> m.instances, perspectives |-> m.perspectives]
        BY <2>1, <2>2, <2>3, <2>4, <2>5, <2>6, <2>7 DEF Parse
    <2> QED BY <2>8, CanonicalModelIs
<1> QED BY <1>8, <1>15, <1>16 DEF t

-------------------------------------------------------------------------------
(* What Parse reads in a text is a model.                                     *)
EntryIn(e) == e = Pair(e.key, e.val) /\ e.key \in STRING /\ e.val \in TreesTo[Depth]

(* The entries of a tree of a user.                                           *)
LEMMA ChildrenIn ==
    ASSUME NEW n \in TreesTo[Depth], NEW k
    PROVE  /\ IsSeq(Children(n, k)) /\ \A e \in In(Children(n, k)) : EntryIn(e)
           /\ \A e \in In(Children(n, k)) : \E v \in Under(n, k) : e \in In(v.entries)
<1>1. Depth \in Nat
    BY DepthIsNat
<1>2. /\ IsSeq(Children(n, k))
      /\ \A e \in In(Children(n, k)) :
            e = Pair(e.key, e.val) /\ e.key \in STRING /\ Depth # 0 /\ e.val \in TreesTo[Depth - 1]
    BY <1>1, ChildrenAre
<1>3. Depth # 0 => TreesTo[Depth - 1] \subseteq TreesTo[Depth]
    <2>1. Depth # 0 => Depth - 1 \in Nat /\ Depth - 1 <= Depth
        BY <1>1
    <2> QED BY <1>1, <2>1, TreesGrow
<1>4. \A e \in In(Children(n, k)) : EntryIn(e)
    BY <1>2, <1>3 DEF EntryIn
<1>5. \A e \in In(Children(n, k)) : \E v \in Under(n, k) : e \in In(v.entries)
    <2> DEFINE v == At(n, k, Mapping(<<>>))
    <2>1. v = Mapping(<<>>) \/ v \in Under(n, k)
        <3>1. IsSeq(n.entries)  BY <1>1, PartsOfTree
        <3> QED BY <3>1, AtOneOf
    <2>2. Children(n, k) = v.entries
        BY DEF Children
    <2>3. v = Mapping(<<>>) => In(v.entries) = {}
        BY MappingIs, EmptyIs
    <2> HIDE DEF v
    <2> QED BY <2>1, <2>2, <2>3
<1> QED BY <1>2, <1>4, <1>5

(* The items of a list of a user.                                             *)
LEMMA ItemsIn ==
    ASSUME NEW n \in TreesTo[Depth], NEW k
    PROVE  LET v == At(n, k, List(<<>>))
           IN  IsSeq(v.items) /\ (In(v.items) = {} \/ v \in Under(n, k)) /\ IsSeq(Texts(v))
<1> DEFINE v == At(n, k, List(<<>>))
<1>1. Depth \in Nat
    BY DepthIsNat
<1>2. IsSeq(v.items)
    BY <1>1, ItemsAre
<1>3. v = List(<<>>) \/ v \in Under(n, k)
    <2>1. IsSeq(n.entries)  BY <1>1, PartsOfTree
    <2> QED BY <2>1, AtOneOf
<1>4. v = List(<<>>) => In(v.items) = {}
    BY ListIs, EmptyIs
<1> HIDE DEF v
<1>5. IsSeq(Texts(v))
    <2> DEFINE s == v.items
               f == [i \in DOMAIN s |-> s[i].value]
    <2>1. Texts(v) = IF v.kind = "sequence" THEN f ELSE <<>>
        BY DEF Texts
    <2>2. f = [i \in DOMAIN s |-> f[i]]
        OBVIOUS
    <2> HIDE DEF f
    <2>3. IsSeq(f)
        BY <1>2, <2>2, ItemwiseIs
    <2> QED BY <2>1, <2>3, EmptyIs
<1> QED BY <1>2, <1>3, <1>4, <1>5 DEF v

(* Each declaration that is accepted is read as one.                          *)
LEMMA ReadImportIn == ASSUME NEW e, ImportEntryOK(e) PROVE ImportIn(ReadImport(e))
<1>1. CASE e.val.kind = "scalar"
    BY <1>1 DEF ReadImport, ImportIn
<1>2. CASE e.val.kind # "scalar"
    BY <1>2 DEF ReadImport, ImportIn, ImportEntryOK
<1> QED BY <1>1, <1>2

LEMMA ReadEnumIn == ASSUME NEW e, EntryIn(e), EnumEntryOK(e) PROVE EnumIn(ReadEnum(e))
<1> DEFINE s == At(e.val, "values", List(<<>>)).items
           f == [i \in DOMAIN s |-> ReadEnumItem(s[i], i)]
           d == CleanDoc(e.val)
<1>1. ReadEnum(e) = [name |-> e.key, doc |-> d, values |-> f]
    BY DEF ReadEnum, ReadEnumItem
<1>2. e.val \in TreesTo[Depth] /\ Depth \in Nat
    BY DepthIsNat DEF EntryIn
<1>3. d \notin DOMAIN Cleaned
    BY <1>2, CleanDocIs
<1>4. IsSeq(s) /\ \A x \in In(s) : EnumValueOK(x)
    BY <1>2, ItemsIn DEF EnumEntryOK
<1>5. f = [i \in DOMAIN s |-> f[i]] /\ \A i \in DOMAIN s : f[i] = ReadEnumItem(s[i], i)
    OBVIOUS
<1> HIDE DEF s, f, d
<1>6. IsSeq(f) /\ DOMAIN f = DOMAIN s
    BY <1>4, <1>5, ItemwiseIs
<1>7. \A i \in DOMAIN s : EnumValueIn(f[i], i)
    <2> TAKE i \in DOMAIN s
    <2>1. EnumValueOK(s[i])
        BY <1>4 DEF In
    <2>2. f[i] = ReadEnumItem(s[i], i)
        BY <1>5
    <2>3. CASE s[i].kind = "scalar"
        BY <2>2, <2>3 DEF ReadEnumItem, EnumValueIn
    <2>4. CASE s[i].kind # "scalar"
        BY <2>1, <2>2, <2>4 DEF ReadEnumItem, EnumValueIn, EnumValueOK
    <2> QED BY <2>3, <2>4
<1> QED BY <1>1, <1>3, <1>6, <1>7 DEF EnumIn

LEMMA ReadTypeIn == ASSUME NEW e, EntryIn(e), TypeEntryOK(e) PROVE TypeIn(ReadType(e))
<1> DEFINE s == Children(e.val, "members")
           f == [i \in DOMAIN s |-> ReadMember[s[i]]]
           d == CleanDoc(e.val)
           b == Value(e.val, "base", "")
           a == Bools[Value(e.val, "abstract", "false")]
<1>1. ReadType(e) = [name |-> e.key, doc |-> d, base |-> b, abstract |-> a, members |-> f]
    BY Zenon DEF ReadType, Each
<1>2. e.val \in TreesTo[Depth] /\ Depth \in Nat
    BY DepthIsNat DEF EntryIn
<1>3. d \notin DOMAIN Cleaned
    BY <1>2, CleanDocIs
<1>4. a \in BOOLEAN
    <2> DEFINE v == At(e.val, "abstract", Scalar("false"))
    <2>1. v = Scalar("false") \/ v \in Under(e.val, "abstract")
        <3>1. IsSeq(e.val.entries)  BY <1>2, PartsOfTree
        <3> QED BY <3>1, AtOneOf
    <2> HIDE DEF v
    <2>2. v.value \in DOMAIN Bools
        BY <2>1, ScalarIs, StringsAssumption DEF TypeEntryOK
    <2> QED BY <2>2, StringsAssumption DEF Value, v
<1>5. IsSeq(s) /\ \A x \in In(s) : EntryIn(x)
    BY <1>2, ChildrenIn
<1>6. f = [i \in DOMAIN s |-> f[i]] /\ \A i \in DOMAIN s : f[i] = ReadMember[s[i]]
    OBVIOUS
<1> HIDE DEF s, f, d, b, a
<1>7. IsSeq(f) /\ \A x \in In(f) : \E i \in DOMAIN s : x = f[i]
    BY <1>5, <1>6, ItemwiseIs
<1>8. \A i \in DOMAIN s : f[i] \in Members /\ Proper(f[i])
    <2> TAKE i \in DOMAIN s
    <2>1. s[i] = Pair(s[i].key, s[i].val) /\ s[i].key \in STRING /\ s[i].val \in TreesTo[Depth]
        BY <1>5 DEF In, EntryIn
    <2>2. TreesTo[Depth] \subseteq Trees
        <3>1. Depth \in Nat /\ 2 * Depth + 8 \in Nat /\ Depth <= 2 * Depth + 8
            BY DepthIsNat
        <3> QED BY <3>1, TreesGrow DEF Trees
    <2>3. s[i] \in [key : STRING, val : TreesTo[Depth]]
        BY <2>1 DEF Pair
    <2>4. s[i] \in [key : STRING, val : Trees]
        BY <2>1, <2>2 DEF Pair
    <2>5. ReadMember[s[i]] \in MembersTo[Depth]
        <3>1. Depth <= 2 * Depth + 8
            BY DepthIsNat
        <3> QED BY <1>2, <2>3, <3>1, ReadMemberTyped
    <2>6. Proper(ReadMember[s[i]])
        BY <2>4, ReadIsProper
    <2> QED BY <1>6, <2>5, <2>6 DEF Members
<1> QED BY <1>1, <1>3, <1>4, <1>7, <1>8 DEF TypeIn

(* Reading one by one.                                                        *)
LEMMA EachIs ==
    ASSUME NEW s, IsSeq(s), NEW f, f = [i \in DOMAIN s |-> f[i]]
    PROVE  IsSeq(f) /\ \A x \in In(f) : \E i \in DOMAIN s : x = f[i]
BY ItemwiseIs

LEMMA ReadInstanceIn == ASSUME NEW e, EntryIn(e), InstanceEntryOK(e) PROVE InstanceIn(ReadInstance(e))
<1> DEFINE s == Children(e.val, "values")
           c == Children(e.val, "children")
           f == [i \in DOMAIN s |-> ReadValueLine(s[i])]
           g == [i \in DOMAIN c |-> ReadOfLine(c[i])]
           ty == Value(e.val, "type", "")
           un == Value(e.val, "under", "")
           le == Value(e.val, "level", "")
<1>1. ReadInstance(e) = [name |-> e.key, type |-> ty, under |-> un, level |-> le, values |-> f, children |-> g]
    BY Zenon DEF ReadInstance, ReadValueLine, ReadOfLine, Each
<1>2. e.val \in TreesTo[Depth]
    BY DEF EntryIn
<1>3. IsSeq(s) /\ IsSeq(c)
    BY <1>2, ChildrenIn
<1>4. \A x \in In(c) : Value(x.val, "of", "") # ""
    <2> TAKE x \in In(c)
    <2>1. PICK v \in Under(e.val, "children") : x \in In(v.entries)
        BY <1>2, ChildrenIn
    <2> QED BY <2>1 DEF InstanceEntryOK, OfOK
<1>5. /\ f = [i \in DOMAIN s |-> f[i]] /\ \A i \in DOMAIN s : f[i] = ReadValueLine(s[i])
      /\ g = [i \in DOMAIN c |-> g[i]] /\ \A i \in DOMAIN c : g[i] = ReadOfLine(c[i])
    OBVIOUS
<1> HIDE DEF s, c, f, g, ty, un, le
<1>6. IsSeq(f) /\ \A x \in In(f) : \E i \in DOMAIN s : x = f[i]
    BY <1>3, <1>5, ItemwiseIs
<1>7. IsSeq(g) /\ \A x \in In(g) : \E i \in DOMAIN c : x = g[i]
    BY <1>3, <1>5, ItemwiseIs
<1>8. \A v \in In(f) : v = [member |-> v.member, raw |-> v.raw]
    BY <1>5, <1>6 DEF ReadValueLine
<1>9. \A ch \in In(g) : ch = [name |-> ch.name, of |-> ch.of] /\ ch.of # ""
    <2> TAKE ch \in In(g)
    <2>1. PICK i \in DOMAIN c : ch = ReadOfLine(c[i])
        BY <1>5, <1>7
    <2>2. Value(c[i].val, "of", "") # ""
        BY <1>4 DEF In
    <2> QED BY <2>1, <2>2 DEF ReadOfLine
<1> DEFINE inst == ReadInstance(e)
<1>10. inst.values = f /\ inst.children = g
       /\ inst = [name |-> inst.name, type |-> inst.type, under |-> inst.under, level |-> inst.level,
                  values |-> inst.values, children |-> inst.children]
    BY <1>1
<1> HIDE DEF inst
<1>11. InstanceIn(inst)
    BY <1>6, <1>7, <1>8, <1>9, <1>10 DEF InstanceIn
<1> QED BY <1>11 DEF inst

LEMMA ReadPerspectiveIn == ASSUME NEW e, EntryIn(e), PerspectiveEntryOK(e) PROVE PerspectiveIn(ReadPerspective(e))
<1> DEFINE s == Children(e.val, "nodes")
           f == [i \in DOMAIN s |-> ReadNodeLine(s[i])]
           la == Value(e.val, "label", "")
           me == Value(e.val, "membership", "")
           ex == Value(e.val, "export", "") = "true"
<1>1. ReadPerspective(e) = [id |-> e.key, label |-> la, membership |-> me, export |-> ex, nodes |-> f]
    BY Zenon DEF ReadPerspective, ReadNodeLine, Each
<1>2. e.val \in TreesTo[Depth]
    BY DEF EntryIn
<1>3. IsSeq(s) /\ \A x \in In(s) : EntryIn(x)
    BY <1>2, ChildrenIn
<1>4. ex \in BOOLEAN
    OBVIOUS
<1>5. f = [i \in DOMAIN s |-> f[i]] /\ \A i \in DOMAIN s : f[i] = ReadNodeLine(s[i])
    OBVIOUS
<1> HIDE DEF s, f, la, me, ex
<1>6. IsSeq(f) /\ \A x \in In(f) : \E i \in DOMAIN s : x = f[i]
    BY <1>3, <1>5, ItemwiseIs
<1>7. \A i \in DOMAIN s : NodeIn(f[i])
    <2> TAKE i \in DOMAIN s
    <2> DEFINE n == s[i].val
               cs == Texts(At(n, "children", List(<<>>)))
               ms == Texts(At(n, "members", List(<<>>)))
               lb == Value(n, "label", "")
    <2>1. s[i].val \in TreesTo[Depth]
        BY <1>3 DEF In, EntryIn
    <2>2. IsSeq(cs) /\ IsSeq(ms)
        BY <2>1, ItemsIn
    <2>3. f[i] = [id |-> s[i].key, label |-> lb, children |-> cs, members |-> ms]
        BY <1>5 DEF ReadNodeLine
    <2> HIDE DEF cs, ms, lb
    <2> QED BY <2>2, <2>3 DEF NodeIn
<1> QED BY <1>1, <1>4, <1>6, <1>7 DEF PerspectiveIn

(* The declarations of a section, which it is asked to be of its kind.        *)
LEMMA SectionIn ==
    ASSUME NEW t \in TreesTo[Depth], Parses(t), NEW k, NEW e \in In(Children(t, k))
    PROVE  /\ EntryIn(e)
           /\ k = "imports" => ImportEntryOK(e)
           /\ k = "enums" => EnumEntryOK(e)
           /\ k = "object_types" => TypeEntryOK(e)
           /\ k = "instances" => InstanceEntryOK(e)
           /\ k = "perspectives" => PerspectiveEntryOK(e)
<1>1. EntryIn(e)
    BY ChildrenIn
<1>2. PICK v \in Under(t, k) : e \in In(v.entries)
    BY ChildrenIn
<1>3. SectionOK(k, v)
    BY <1>2, UnderIs DEF Parses
<1>4. k = "imports" => ImportEntryOK(e)
    BY <1>2, <1>3 DEF SectionOK, ImportsOK, ImportEntryOK
<1>5. k = "enums" => EnumEntryOK(e)
    BY <1>2, <1>3 DEF SectionOK, EnumsOK, EnumEntryOK, Named
<1>6. k = "object_types" => TypeEntryOK(e)
    BY <1>2, <1>3 DEF SectionOK, TypesOK, TypeEntryOK, Named
<1>7. k = "instances" => InstanceEntryOK(e)
    BY <1>2, <1>3 DEF SectionOK, InstancesOK, InstanceEntryOK, Named, OfOK, ValuesOK
<1>8. k = "perspectives" => PerspectiveEntryOK(e)
    BY <1>2, <1>3 DEF SectionOK, PerspectivesOK, PerspectiveEntryOK, Named, NodesOK, NodeKeys
<1> QED BY <1>1, <1>4, <1>5, <1>6, <1>7, <1>8

(* What is read in a text that parses is a model.                             *)
LEMMA ParseIn == ASSUME NEW t \in TreesTo[Depth], Parses(t) PROVE ModelIn(Parse(t))
<1> DEFINE s3 == Children(t, "imports")
           s4 == Children(t, "enums")
           s5 == Children(t, "object_types")
           s6 == Children(t, "instances")
           s7 == Children(t, "perspectives")
           f3 == [i \in DOMAIN s3 |-> ReadImport(s3[i])]
           f4 == [i \in DOMAIN s4 |-> ReadEnum(s4[i])]
           f5 == [i \in DOMAIN s5 |-> ReadType(s5[i])]
           f6 == [i \in DOMAIN s6 |-> ReadInstance(s6[i])]
           f7 == [i \in DOMAIN s7 |-> ReadPerspective(s7[i])]
           h == [k \in HeaderKeys |-> HeaderField(t, k)]
           set == "hierarchy" \in Keys(t)
           skip == Value(At(t, "hierarchy", Mapping(<<>>)), "allowLevelSkip", "") = "true"
           hi == [set |-> set, skip |-> skip]
<1>1. Parse(t) = [header |-> h, hierarchy |-> hi, imports |-> f3, enums |-> f4,
                  types |-> f5, instances |-> f6, perspectives |-> f7]
    BY Zenon DEF Parse, Each
<1>2. h = [k \in HeaderKeys |-> h[k]]
    OBVIOUS
<1>3. HierarchyIn(hi)
    <2>1. set \in BOOLEAN /\ skip \in BOOLEAN
        OBVIOUS
    <2>2. skip => set
        <3> SUFFICES ASSUME ~set PROVE ~skip
            OBVIOUS
        <3>1. IsSeq(t.entries)
            BY DepthIsNat, PartsOfTree
        <3>2. At(t, "hierarchy", Mapping(<<>>)) = Mapping(<<>>)
            BY <3>1, AtIs
        <3>3. At(Mapping(<<>>), "allowLevelSkip", Scalar("")) = Scalar("")
            BY NoLines
        <3>4. Scalar("").value = ""
            BY ScalarIs
        <3> QED BY <3>2, <3>3, <3>4 DEF Value
    <2> HIDE DEF set, skip
    <2> QED BY <2>1, <2>2 DEF HierarchyIn
<1>4. IsSeq(s3) /\ IsSeq(s4) /\ IsSeq(s5) /\ IsSeq(s6) /\ IsSeq(s7)
    BY ChildrenIn
<1>5. /\ \A i \in DOMAIN s3 : ImportEntryOK(s3[i])
      /\ \A i \in DOMAIN s4 : EntryIn(s4[i]) /\ EnumEntryOK(s4[i])
      /\ \A i \in DOMAIN s5 : EntryIn(s5[i]) /\ TypeEntryOK(s5[i])
      /\ \A i \in DOMAIN s6 : EntryIn(s6[i]) /\ InstanceEntryOK(s6[i])
      /\ \A i \in DOMAIN s7 : EntryIn(s7[i]) /\ PerspectiveEntryOK(s7[i])
    <2>1. \A s : \A i \in DOMAIN s : s[i] \in In(s)
        BY DEF In
    <2> HIDE DEF s3, s4, s5, s6, s7
    <2>3. \A e \in In(s3) : ImportEntryOK(e)
        BY SectionIn DEF s3
    <2>4. \A e \in In(s4) : EntryIn(e) /\ EnumEntryOK(e)
        BY SectionIn DEF s4
    <2>5. \A e \in In(s5) : EntryIn(e) /\ TypeEntryOK(e)
        BY SectionIn DEF s5
    <2>6. \A e \in In(s6) : EntryIn(e) /\ InstanceEntryOK(e)
        BY SectionIn DEF s6
    <2>7. \A e \in In(s7) : EntryIn(e) /\ PerspectiveEntryOK(e)
        BY SectionIn DEF s7
    <2> QED BY <2>1, <2>3, <2>4, <2>5, <2>6, <2>7
<1>6. /\ f3 = [i \in DOMAIN s3 |-> f3[i]] /\ f4 = [i \in DOMAIN s4 |-> f4[i]]
      /\ f5 = [i \in DOMAIN s5 |-> f5[i]] /\ f6 = [i \in DOMAIN s6 |-> f6[i]]
      /\ f7 = [i \in DOMAIN s7 |-> f7[i]]
    OBVIOUS
<1>7. /\ \A i \in DOMAIN s3 : ImportIn(f3[i])
      /\ \A i \in DOMAIN s4 : EnumIn(f4[i])
      /\ \A i \in DOMAIN s5 : TypeIn(f5[i])
      /\ \A i \in DOMAIN s6 : InstanceIn(f6[i])
      /\ \A i \in DOMAIN s7 : PerspectiveIn(f7[i])
    <2> HIDE DEF s3, s4, s5, s6, s7
    <2> QED BY <1>5, ReadImportIn, ReadEnumIn, ReadTypeIn, ReadInstanceIn, ReadPerspectiveIn
<1> HIDE DEF s3, s4, s5, s6, s7, f3, f4, f5, f6, f7, h, hi
<1>8. IsSeq(f3) /\ \A x \in In(f3) : ImportIn(x)
    <2>8. IsSeq(s3) /\ f3 = [i \in DOMAIN s3 |-> f3[i]]
        BY <1>4, <1>6
    <2>1. IsSeq(f3) /\ \A x \in In(f3) : \E i \in DOMAIN s3 : x = f3[i]
        BY <2>8, EachIs
    <2> QED BY <1>7, <2>1
<1>9. IsSeq(f4) /\ \A x \in In(f4) : EnumIn(x)
    <2>8. IsSeq(s4) /\ f4 = [i \in DOMAIN s4 |-> f4[i]]
        BY <1>4, <1>6
    <2>1. IsSeq(f4) /\ \A x \in In(f4) : \E i \in DOMAIN s4 : x = f4[i]
        BY <2>8, EachIs
    <2> QED BY <1>7, <2>1
<1>10. IsSeq(f5) /\ \A x \in In(f5) : TypeIn(x)
    <2>8. IsSeq(s5) /\ f5 = [i \in DOMAIN s5 |-> f5[i]]
        BY <1>4, <1>6
    <2>1. IsSeq(f5) /\ \A x \in In(f5) : \E i \in DOMAIN s5 : x = f5[i]
        BY <2>8, EachIs
    <2> QED BY <1>7, <2>1
<1>11. IsSeq(f6) /\ \A x \in In(f6) : InstanceIn(x)
    <2>8. IsSeq(s6) /\ f6 = [i \in DOMAIN s6 |-> f6[i]]
        BY <1>4, <1>6
    <2>1. IsSeq(f6) /\ \A x \in In(f6) : \E i \in DOMAIN s6 : x = f6[i]
        BY <2>8, EachIs
    <2> QED BY <1>7, <2>1
<1>12. IsSeq(f7) /\ \A x \in In(f7) : PerspectiveIn(x)
    <2>8. IsSeq(s7) /\ f7 = [i \in DOMAIN s7 |-> f7[i]]
        BY <1>4, <1>6
    <2>1. IsSeq(f7) /\ \A x \in In(f7) : \E i \in DOMAIN s7 : x = f7[i]
        BY <2>8, EachIs
    <2> QED BY <1>7, <2>1
<1> DEFINE m == Parse(t)
<1>13. m.header = h /\ m.hierarchy = hi /\ m.imports = f3 /\ m.enums = f4
       /\ m.types = f5 /\ m.instances = f6 /\ m.perspectives = f7
    BY <1>1
<1>14. m = [header |-> m.header, hierarchy |-> m.hierarchy, imports |-> m.imports, enums |-> m.enums,
            types |-> m.types, instances |-> m.instances, perspectives |-> m.perspectives]
    BY <1>1, <1>13
<1> HIDE DEF m
<1>15. ModelIn(m)
    BY <1>2, <1>3, <1>8, <1>9, <1>10, <1>11, <1>12, <1>13, <1>14 DEF ModelIn
<1> QED BY <1>15 DEF m

-------------------------------------------------------------------------------
(* A declaration more.                                                        *)
LEMMA AppendIs ==
    ASSUME NEW s, IsSeq(s), NEW x
    PROVE  IsSeq(Append(s, x)) /\ \A y \in In(Append(s, x)) : y \in In(s) \/ y = x
<1> DEFINE S == In(s) \cup {x}
<1>1. s \in Seq(S) /\ x \in S
    <2> DEFINE T == In(s)
    <2>1. s \in Seq(T) /\ T \subseteq S  BY DEF IsSeq
    <2> HIDE DEF T, S
    <2>2. s \in Seq(S)  BY <2>1
    <2> QED BY <2>2 DEF S
<1> HIDE DEF S
<1>2. Append(s, x) \in Seq(S)
    BY <1>1
<1>3. IsSeq(Append(s, x)) /\ \A i \in DOMAIN Append(s, x) : Append(s, x)[i] \in S
    BY <1>2, SequenceOf
<1> QED BY <1>3 DEF In, S

(* A model with other types, or other instances, field by field.              *)
LEMMA WithTypes ==
    ASSUME NEW m, NEW c,
           m = [header |-> m.header, hierarchy |-> m.hierarchy, imports |-> m.imports, enums |-> m.enums,
                 types |-> m.types, instances |-> m.instances, perspectives |-> m.perspectives]
    PROVE  [m EXCEPT !.types = c] =
                [header |-> m.header, hierarchy |-> m.hierarchy, imports |-> m.imports, enums |-> m.enums,
                 types |-> c, instances |-> m.instances, perspectives |-> m.perspectives]
<1> DEFINE D == {"header", "hierarchy", "imports", "enums", "types", "instances", "perspectives"}
           q == [header |-> m.header, hierarchy |-> m.hierarchy, imports |-> m.imports, enums |-> m.enums,
                 types |-> m.types, instances |-> m.instances, perspectives |-> m.perspectives]
           l == [m EXCEPT !.types = c]
           r == [header |-> m.header, hierarchy |-> m.hierarchy, imports |-> m.imports, enums |-> m.enums,
                 types |-> c, instances |-> m.instances, perspectives |-> m.perspectives]
<1>1. DOMAIN m = D
    <2>1. m = q  OBVIOUS
    <2>2. DOMAIN q = D  OBVIOUS
    <2> HIDE DEF D, q
    <2> QED BY <2>1, <2>2
<1>2. l = [x \in D |-> IF x = "types" THEN c ELSE m[x]]
    BY <1>1
<1>3. r = [x \in D |-> r[x]]
    OBVIOUS
<1>4. \A x \in D : r[x] = IF x = "types" THEN c ELSE m[x]
    OBVIOUS
<1> HIDE DEF l, r, D
<1>5. l = r
    BY <1>2, <1>3, <1>4
<1> QED BY <1>5 DEF l, r

LEMMA WithInstances ==
    ASSUME NEW m, NEW c,
           m = [header |-> m.header, hierarchy |-> m.hierarchy, imports |-> m.imports, enums |-> m.enums,
                 types |-> m.types, instances |-> m.instances, perspectives |-> m.perspectives]
    PROVE  [m EXCEPT !.instances = c] =
                [header |-> m.header, hierarchy |-> m.hierarchy, imports |-> m.imports, enums |-> m.enums,
                 types |-> m.types, instances |-> c, perspectives |-> m.perspectives]
<1> DEFINE D == {"header", "hierarchy", "imports", "enums", "types", "instances", "perspectives"}
           q == [header |-> m.header, hierarchy |-> m.hierarchy, imports |-> m.imports, enums |-> m.enums,
                 types |-> m.types, instances |-> m.instances, perspectives |-> m.perspectives]
           l == [m EXCEPT !.instances = c]
           r == [header |-> m.header, hierarchy |-> m.hierarchy, imports |-> m.imports, enums |-> m.enums,
                 types |-> m.types, instances |-> c, perspectives |-> m.perspectives]
<1>1. DOMAIN m = D
    <2>1. m = q  OBVIOUS
    <2>2. DOMAIN q = D  OBVIOUS
    <2> HIDE DEF D, q
    <2> QED BY <2>1, <2>2
<1>2. l = [x \in D |-> IF x = "instances" THEN c ELSE m[x]]
    BY <1>1
<1>3. r = [x \in D |-> r[x]]
    OBVIOUS
<1>4. \A x \in D : r[x] = IF x = "instances" THEN c ELSE m[x]
    OBVIOUS
<1> HIDE DEF l, r, D
<1>5. l = r
    BY <1>2, <1>3, <1>4
<1> QED BY <1>5 DEF l, r

(* Adding a declaration to a model gives a model.                             *)
LEMMA WithType ==
    ASSUME NEW m, ModelIn(m), NEW x, TypeIn(x)
    PROVE  ModelIn([m EXCEPT !.types = Append(@, x)])
<1> DEFINE c == Append(m.types, x)
           l == [m EXCEPT !.types = c]
<1>1. IsSeq(c) /\ \A y \in In(c) : TypeIn(y)
    <2>1. IsSeq(m.types) /\ \A y \in In(m.types) : TypeIn(y)
        BY DEF ModelIn
    <2> QED BY <2>1, AppendIs
<1> HIDE DEF c
<1>2. l = [header |-> m.header, hierarchy |-> m.hierarchy, imports |-> m.imports, enums |-> m.enums,
           types |-> c, instances |-> m.instances, perspectives |-> m.perspectives]
    <2>1. m = [header |-> m.header, hierarchy |-> m.hierarchy, imports |-> m.imports, enums |-> m.enums,
               types |-> m.types, instances |-> m.instances, perspectives |-> m.perspectives]
        BY DEF ModelIn
    <2> QED BY <2>1, WithTypes
<1> HIDE DEF l
<1>3. /\ l.header = m.header /\ l.hierarchy = m.hierarchy /\ l.imports = m.imports /\ l.enums = m.enums
      /\ l.types = c /\ l.instances = m.instances /\ l.perspectives = m.perspectives
    BY <1>2
<1>4. l = [header |-> l.header, hierarchy |-> l.hierarchy, imports |-> l.imports, enums |-> l.enums,
           types |-> l.types, instances |-> l.instances, perspectives |-> l.perspectives]
    BY <1>2, <1>3
<1>5. ModelIn(l)
    BY <1>1, <1>3, <1>4 DEF ModelIn
<1> QED BY <1>5 DEF l, c

LEMMA WithInstance ==
    ASSUME NEW m, ModelIn(m), NEW x, InstanceIn(x)
    PROVE  ModelIn([m EXCEPT !.instances = Append(@, x)])
<1> DEFINE c == Append(m.instances, x)
           l == [m EXCEPT !.instances = c]
<1>1. IsSeq(c) /\ \A y \in In(c) : InstanceIn(y)
    <2>1. IsSeq(m.instances) /\ \A y \in In(m.instances) : InstanceIn(y)
        BY DEF ModelIn
    <2> QED BY <2>1, AppendIs
<1> HIDE DEF c
<1>2. l = [header |-> m.header, hierarchy |-> m.hierarchy, imports |-> m.imports, enums |-> m.enums,
           types |-> m.types, instances |-> c, perspectives |-> m.perspectives]
    <2>1. m = [header |-> m.header, hierarchy |-> m.hierarchy, imports |-> m.imports, enums |-> m.enums,
               types |-> m.types, instances |-> m.instances, perspectives |-> m.perspectives]
        BY DEF ModelIn
    <2> QED BY <2>1, WithInstances
<1> HIDE DEF l
<1>3. /\ l.header = m.header /\ l.hierarchy = m.hierarchy /\ l.imports = m.imports /\ l.enums = m.enums
      /\ l.types = m.types /\ l.instances = c /\ l.perspectives = m.perspectives
    BY <1>2
<1>4. l = [header |-> l.header, hierarchy |-> l.hierarchy, imports |-> l.imports, enums |-> l.enums,
           types |-> l.types, instances |-> l.instances, perspectives |-> l.perspectives]
    BY <1>2, <1>3
<1>5. ModelIn(l)
    BY <1>1, <1>3, <1>4 DEF ModelIn
<1> QED BY <1>5 DEF l, c

-------------------------------------------------------------------------------
(* Storing.                                                                   *)

(* A file holds a text that a user saved, or what Format writes of the model  *)
(* that it was stored for.                                                    *)
TextInv ==
    \/ meant = NoModel /\ text \in Saved
    \/ ModelIn(meant) /\ text = Format(meant)

(* A garbled text does not parse.                                             *)
LEMMA GarbledIsNot == ASSUME NEW t, Parses(t) PROVE t # Garbled
<1>1. t.kind = "mapping"
    BY DEF Parses
<1>2. Garbled.kind = "garbled"
    BY DEF Garbled
<1> QED BY <1>1, <1>2

(* What was formatted and parses is the model, in its canonical form.         *)
LEMMA ReadBack ==
    ASSUME NEW m, ModelIn(m), Parses(Format(m))
    PROVE  Parse(Format(m)) = CanonicalModel(m)
<1>1. Format(m) # Garbled
    BY GarbledIsNot
<1> QED BY <1>1, ModelKept

(* So the file, if it parses, has a model in it.                              *)
LEMMA TextIsModel == ASSUME TextInv, Parses(text) PROVE ModelIn(Parse(text))
<1>1. CASE text \in Saved
    <2>1. text \in TreesTo[Depth]
        BY <1>1, TextsAssumption
    <2> QED BY <2>1, ParseIn
<1>2. CASE ModelIn(meant) /\ text = Format(meant)
    <2>1. Parse(text) = CanonicalModel(meant)
        BY <1>2, ReadBack
    <2> QED BY <1>2, <2>1, ModelAlike
<1> QED BY <1>1, <1>2 DEF TextInv

(* The declaration in a fragment that is accepted.                            *)
LEMMA FragmentIn ==
    ASSUME NEW f \in Fragments, SectionOK(f.section, Mapping(<<Pair(f.name, f.body)>>))
    PROVE  /\ f.section = "object_types" => TypeIn(ReadType(Pair(f.name, f.body)))
           /\ f.section = "instances" => InstanceIn(ReadInstance(Pair(f.name, f.body)))
<1> DEFINE e == Pair(f.name, f.body)
           n == Mapping(<<e>>)
<1>1. EntryIn(e)
    BY TextsAssumption DEF EntryIn, Pair
<1>2. e \in In(n.entries)
    <2> HIDE DEF e
    <2>1. In(<<e>>) = {e}  BY SingletonIs
    <2>2. n.entries = <<e>>  BY MappingIs
    <2> QED BY <2>1, <2>2
<1>3. SectionOK(f.section, n)
    OBVIOUS
<1> HIDE DEF e, n
<1>4. f.section = "object_types" => TypeEntryOK(e)
    BY <1>2, <1>3 DEF SectionOK, TypesOK, TypeEntryOK, Named
<1>5. f.section = "instances" => InstanceEntryOK(e)
    BY <1>2, <1>3 DEF SectionOK, InstancesOK, InstanceEntryOK, Named, OfOK, ValuesOK
<1>6. f.section = "object_types" => TypeIn(ReadType(e))
    BY <1>1, <1>4, ReadTypeIn
<1>7. f.section = "instances" => InstanceIn(ReadInstance(e))
    BY <1>1, <1>5, ReadInstanceIn
<1> QED BY <1>6, <1>7 DEF e

(* No way of storing a file leaves anything else in it.                       *)
THEOREM TextInvIsKept == Spec => []TextInv
<1>1. Init => TextInv
    BY DEF Init, TextInv
<1>2. ASSUME TextInv, [Next]_vars PROVE TextInv'
    <2>1. ASSUME NEW m, ModelIn(m), Store(m) PROVE TextInv'
        BY <2>1 DEF Store, TextInv
    <2>2. ASSUME NEW t \in Saved, Canonicalize(t) PROVE TextInv'
        <3>1. CASE Parses(t)
            <4>1. t \in TreesTo[Depth]
                BY TextsAssumption
            <4>2. ModelIn(Parse(t)) /\ Store(Parse(t))
                BY <2>2, <3>1, <4>1, ParseIn DEF Canonicalize
            <4> QED BY <2>1, <4>2
        <3>2. CASE ~Parses(t)
            BY <2>2, <3>2 DEF Canonicalize, TextInv
        <3> QED BY <3>1, <3>2
    <2>3. ASSUME Fmt PROVE TextInv'
        <3>1. ModelIn(Parse(text)) /\ Store(Parse(text))
            BY <1>2, <2>3, TextIsModel DEF Fmt
        <3> QED BY <2>1, <3>1
    <2>4. ASSUME NEW f \in Fragments, AddDeclaration(f) PROVE TextInv'
        <3> DEFINE m == Parse(text)
                   e == Pair(f.name, f.body)
        <3>1. ModelIn(m) /\ SectionOK(f.section, Mapping(<<e>>))
            BY <1>2, <2>4, TextIsModel DEF AddDeclaration
        <3>2. CASE f.section = "object_types" /\ Store([m EXCEPT !.types = Append(@, ReadType(e))])
            <4>1. TypeIn(ReadType(e))
                BY <3>1, <3>2, FragmentIn
            <4> HIDE DEF m, e
            <4>2. ModelIn([m EXCEPT !.types = Append(@, ReadType(e))])
                BY <3>1, <4>1, WithType
            <4> QED BY <2>1, <3>2, <4>2
        <3>3. CASE f.section = "instances" /\ Store([m EXCEPT !.instances = Append(@, ReadInstance(e))])
            <4>1. InstanceIn(ReadInstance(e))
                BY <3>1, <3>3, FragmentIn
            <4> HIDE DEF m, e
            <4>2. ModelIn([m EXCEPT !.instances = Append(@, ReadInstance(e))])
                BY <3>1, <4>1, WithInstance
            <4> QED BY <2>1, <3>3, <4>2
        <3> QED BY <2>4, <3>2, <3>3 DEF AddDeclaration
    <2>5. CASE UNCHANGED vars
        BY <1>2, <2>5 DEF vars, TextInv
    <2> QED BY <1>2, <2>2, <2>3, <2>4, <2>5 DEF Next
<1> QED BY <1>1, <1>2, PTL DEF Spec

(* What is stored is the model it was stored for, and formatting it again     *)
(* changes nothing: whatever the models are, and however deep they nest.      *)
THEOREM FormattingIsKept == Spec => []FormatKeeps
<1>1. TextInv => FormatKeeps
    <2> SUFFICES ASSUME TextInv, meant # NoModel, Legible(text) PROVE
              /\ Parses(text) <=> ~Bare(meant)
              /\ Parses(text) =>
                    /\ Parse(text) = CanonicalModel(meant)
                    /\ Format(Parse(text)) = text
        BY DEF FormatKeeps
    <2>1. ModelIn(meant) /\ text = Format(meant) /\ Format(meant) # Garbled
        BY DEF TextInv, Legible
    <2>2. /\ Parses(text) <=> ~Bare(meant)
          /\ Parses(text) => Parse(text) = CanonicalModel(meant)
        BY <2>1, ModelKept
    <2>3. Format(CanonicalModel(meant)) = text
        BY <2>1, ModelAlike
    <2> QED BY <2>2, <2>3
<1> QED BY <1>1, TextInvIsKept, PTL
===============================================================================
