----------------------------- MODULE ModelTools_proofs -----------------------------
(* What the tools make of a model, for every base, every draft and every       *)
(* bundle of companion specifications (Dsl, Lint, Emitters and SemDiff joined  *)
(* in ModelTools):                                                             *)
(*   ModelTypes                the type invariant                              *)
(*   LoopsAreFound             the linter finds the cycles that there are      *)
(*   ServiceAndCommandAgree    the two ways to load the bundle are judged alike*)
(*   LevelsAreOrdered          organizational levels descend in what is built  *)
(*   NamesAreThere             what is built names only what is there          *)
(*   NothingIsHidden           no change is left out of the review             *)
(* The operators recur over data. An operator that is a recursive function is  *)
(* reasoned about by the set of the numbers for which the claim holds (lemmas  *)
(* Induction and Iteration); a search that goes on until nothing is left, by   *)
(* the finite set of the steps it may take.                                    *)
EXTENDS ModelTools, FiniteSetTheorems, WellFoundedInduction, TLAPS

-------------------------------------------------------------------------------
(* Recursion over the natural numbers.                                        *)
(* How a function that is defined by its own values runs, and where a walk of *)
(* from name to name ends (Dsl!Walk).                                         *)

LEMMA LeastOf == ASSUME NEW T, T \subseteq Nat, T # {} PROVE \E m \in T : \A k \in T : m <= k
<1> DEFINE U == {0..m : m \in T}
<1>1. U \subseteq FiniteSubsetsOf(Nat) /\ U # {}
  <2>1. \A m \in T : IsFiniteSet(0..m) /\ 0..m \in SUBSET Nat
    BY FS_Interval
  <2> QED BY <2>1, Zenon DEF FiniteSubsetsOf
<1>2. \E x \in U : \A y \in U : ~(<<y, x>> \in StrictSubsetOrdering(Nat))
  <2> HIDE DEF U
  <2> QED BY <1>1, FS_StrictSubsetOrderingWellFounded, WFMin
<1>3. PICK m \in T : \A k \in T : <<0..k, 0..m>> \notin StrictSubsetOrdering(Nat)
  BY <1>2
<1>4. ASSUME NEW k \in T, k < m PROVE FALSE
  <2>1. 0..k \in SUBSET Nat /\ 0..m \in SUBSET Nat /\ 0..k \subseteq 0..m /\ m \in 0..m /\ m \notin 0..k
    BY <1>4
  <2> QED BY <2>1, <1>3 DEF StrictSubsetOrdering
<1> QED BY <1>3, <1>4

LEMMA Induction == ASSUME NEW T, 0 \in T, \A k \in Nat : k \in T => k + 1 \in T
  PROVE Nat \subseteq T
<1> SUFFICES ASSUME Nat \ T # {} PROVE FALSE
  OBVIOUS
<1>1. PICK m \in Nat \ T : \A k \in Nat \ T : m <= k
  <2> DEFINE U == Nat \ T
  <2>1. U \subseteq Nat /\ U # {}  OBVIOUS
  <2> HIDE DEF U
  <2>2. \E m \in U : \A k \in U : m <= k  BY <2>1, LeastOf
  <2> QED BY <2>2 DEF U
<1>2. m # 0 /\ m - 1 \in Nat /\ ~(m <= m - 1)
  BY <1>1
<1>3. m - 1 \in T
  BY <1>1, <1>2
<1> QED BY <1>1, <1>2, <1>3

(* A function is given by where it starts and how it goes on.                 *)
Runs(f, S, b, step) == f \in [Nat -> S] /\ f[0] = b /\ \A k \in Nat : f[k + 1] = step[k][f[k]]

LEMMA Recursion ==
  ASSUME NEW S, NEW b \in S, NEW step, \A k \in Nat : step[k] \in [S -> S]
  PROVE \E f : Runs(f, S, b, step)
<1> DEFINE Upto(n, g) == /\ g \in [0..n -> S] /\ g[0] = b
                         /\ \A k \in 0..(n - 1) : g[k + 1] = step[k][g[k]]
           T == {n \in Nat : \E g : Upto(n, g)}
<1>1. 0 \in T
  <2>1. Upto(0, [k \in 0..0 |-> b])
    OBVIOUS
  <2> QED BY <2>1
<1>2. ASSUME NEW n \in Nat, n \in T PROVE n + 1 \in T
  <2>1. PICK g : Upto(n, g)
    BY <1>2
  <2> DEFINE h == [k \in 0..(n + 1) |-> IF k = n + 1 THEN step[n][g[n]] ELSE g[k]]
  <2>0. step[n][g[n]] \in S
    BY <2>1
  <2>2. /\ \A k \in 0..n : h[k] = g[k] /\ g[k] \in S
        /\ h[n + 1] = step[n][g[n]] /\ DOMAIN h = 0..(n + 1)
    BY <2>1
  <2>3. h \in [0..(n + 1) -> S]
    BY <2>0, <2>1
  <2> HIDE DEF h
  <2>4. \A k \in 0..((n + 1) - 1) : h[k + 1] = step[k][h[k]]
    <3>1. ASSUME NEW k \in 0..n PROVE h[k + 1] = step[k][h[k]]
      <4>1. CASE k = n BY <2>2, <4>1
      <4>2. CASE k # n BY <2>1, <2>2, <4>2
      <4> QED BY <4>1, <4>2
    <3> QED BY <3>1
  <2>5. Upto(n + 1, h)
    BY <2>1, <2>2, <2>3, <2>4
  <2> HIDE DEF Upto
  <2> QED BY <2>5
<1>3. Nat \subseteq T
  <2> HIDE DEF T
  <2> QED BY <1>1, <1>2, Induction
<1> DEFINE G(n) == CHOOSE g : Upto(n, g)
<1>4. \A n \in Nat : Upto(n, G(n))
  <2> HIDE DEF Upto
  <2> QED BY <1>3
<1>5. ASSUME NEW m \in Nat, NEW n \in Nat
      PROVE  \A k \in Nat : k <= m /\ k <= n => G(m)[k] = G(n)[k]
  <2> DEFINE E == {k \in Nat : k <= m /\ k <= n => G(m)[k] = G(n)[k]}
  <2>0. Upto(n, G(n)) /\ Upto(m, G(m)) BY <1>4
  <2> HIDE DEF G
  <2>1. 0 \in E
    BY <2>0
  <2>2. ASSUME NEW k \in Nat, k \in E PROVE k + 1 \in E
    <3>1. SUFFICES ASSUME k + 1 <= m, k + 1 <= n PROVE G(m)[k + 1] = G(n)[k + 1]
      OBVIOUS
    <3>2. G(m)[k] = G(n)[k] /\ k \in 0..(m - 1) /\ k \in 0..(n - 1)
      BY <2>2, <3>1
    <3>3. G(m)[k + 1] = step[k][G(m)[k]] /\ G(n)[k + 1] = step[k][G(n)[k]]
      BY <2>0, <3>2
    <3> QED BY <3>2, <3>3
  <2> HIDE DEF E
  <2>3. Nat \subseteq E
    BY <2>1, <2>2, Induction
  <2> QED BY <2>3 DEF E
<1> DEFINE f == [n \in Nat |-> G(n)[n]]
<1> HIDE DEF G
<1>6. f \in [Nat -> S] /\ f[0] = b
  BY <1>4
<1>7. ASSUME NEW k \in Nat PROVE f[k + 1] = step[k][f[k]]
  <2>1. G(k + 1)[k + 1] = step[k][G(k + 1)[k]]
    <3>1. k \in 0..((k + 1) - 1)
      OBVIOUS
    <3> QED BY <1>4, <3>1
  <2>2. G(k + 1)[k] = G(k)[k]
    BY <1>5
  <2> QED BY <2>1, <2>2
<1> HIDE DEF f
<1> QED BY <1>6, <1>7 DEF Runs

Iterates(f, S, b, step) == f \in [Nat -> S] /\ f[0] = b /\ \A k \in Nat : f[k + 1] = step[f[k]]

LEMMA Iteration ==
  ASSUME NEW S, NEW b \in S, NEW step \in [S -> S]
  PROVE \E f : Iterates(f, S, b, step)
<1> DEFINE steps == [k \in Nat |-> step]
<1>1. \A k \in Nat : steps[k] = step /\ steps[k] \in [S -> S]
  OBVIOUS
<1> HIDE DEF steps
<1>2. \E f : Runs(f, S, b, steps)
  BY <1>1, Recursion
<1> QED BY <1>1, <1>2 DEF Runs, Iterates

IsPath(up, x, w) ==
  /\ Len(w) > 0 /\ w[1] = x
  /\ \A i \in 1..Len(w) - 1 : w[i] \in DOMAIN up /\ w[i + 1] = up[w[i]]
  /\ \A i, j \in 1..Len(w) : w[i] = w[j] => i = j
Ends(up, w) == Last(w) \in DOMAIN up => Contains(w, up[Last(w)])

Longer(up, w) ==
   IF Last(w) \in DOMAIN up /\ ~Contains(w, up[Last(w)])
   THEN Append(w, up[Last(w)]) ELSE w
Places(up, x) == {x} \cup {up[y] : y \in DOMAIN up}

LEMMA LongerPath == ASSUME NEW up, NEW x, NEW w \in Seq(Places(up, x)), IsPath(up, x, w)
  PROVE /\ Longer(up, w) \in Seq(Places(up, x)) /\ IsPath(up, x, Longer(up, w))
        /\ Ends(up, w) => Longer(up, w) = w
        /\ ~Ends(up, w) => Len(Longer(up, w)) = Len(w) + 1
<1>1. CASE Ends(up, w)
  BY <1>1 DEF Ends, Longer
<1>2. CASE ~Ends(up, w)
  <2> DEFINE y == up[Last(w)]
             v == Append(w, y)
  <2>1. Last(w) \in DOMAIN up /\ \A i \in 1..Len(w) : w[i] # y
    BY <1>2 DEF Ends, Contains
  <2>2. Longer(up, w) = v /\ y \in Places(up, x)
    BY <1>2, <2>1 DEF Ends, Longer, Places
  <2> HIDE DEF y
  <2>3. v \in Seq(Places(up, x)) /\ Len(v) = Len(w) + 1 /\ v[Len(w) + 1] = y
        /\ \A i \in 1..Len(w) : v[i] = w[i]
    BY <2>2
  <2>4. IsPath(up, x, v)
    <3> HIDE DEF v
    <3>1. Len(w) \in Nat BY DEF Places
    <3>2. \A i, j \in 1..Len(v) : v[i] = v[j] => i = j
      BY <3>1, <2>1, <2>3 DEF IsPath
    <3>3. \A i \in 1..Len(v) - 1 : v[i] \in DOMAIN up /\ v[i + 1] = up[v[i]]
      BY <3>1, <2>1, <2>3 DEF IsPath, Last, y
    <3> QED BY <3>1, <3>2, <3>3, <2>3 DEF IsPath
  <2> QED BY <2>2, <2>3, <2>4, <1>2
<1> QED BY <1>1, <1>2

LEMMA WalkIs == ASSUME NEW up, NEW x, IsFiniteSet(DOMAIN up)
  PROVE /\ Walk(up, x) \in Seq(Places(up, x))
        /\ IsPath(up, x, Walk(up, x))
        /\ Ends(up, Walk(up, x))
<1> DEFINE n == Cardinality(DOMAIN up)
           S == Seq(Places(up, x))
           Right(g) == g = [k \in 0..n |-> IF k = 0 THEN <<x>> ELSE Longer(up, g[k - 1])]
           IP == {w \in S : IsPath(up, x, w)}
<1>1. n \in Nat
  BY FS_CardinalityType
<1>2. <<x>> \in IP
  BY DEF IsPath, Places
<1>3. \E g : Right(g)
  <2> DEFINE step == [w \in IP |-> Longer(up, w)]
  <2>1. step \in [IP -> IP]
    BY LongerPath
  <2>2. PICK f \in [Nat -> IP] : f[0] = <<x>> /\ \A k \in Nat : f[k + 1] = step[f[k]]
    <3> HIDE DEF step, IP
    <3>1. \E f : Iterates(f, IP, <<x>>, step)
      BY <1>2, <2>1, Iteration
    <3> QED BY <3>1 DEF Iterates
  <2>3. \A k \in Nat : f[k + 1] = Longer(up, f[k])
    <3> HIDE DEF IP
    <3> QED BY <2>2
  <2>4. ASSUME NEW k \in 0..n, k # 0 PROVE f[k] = Longer(up, f[k - 1])
    <3>1. k - 1 \in Nat /\ (k - 1) + 1 = k  BY <1>1, <2>4
    <3>2. f[(k - 1) + 1] = Longer(up, f[k - 1]) BY <2>3, <3>1
    <3> QED BY <3>1, <3>2
  <2> DEFINE g == [k \in 0..n |-> f[k]]
  <2>5. \A k \in 0..n : k # 0 => g[k - 1] = f[k - 1]
    BY <1>1
  <2>6. \A k \in 0..n : g[k] = IF k = 0 THEN <<x>> ELSE Longer(up, g[k - 1])
    BY <2>2, <2>4, <2>5
  <2>7. g = [k \in 0..n |-> IF k = 0 THEN <<x>> ELSE Longer(up, g[k - 1])]
    <3> QED BY <2>6
  <2> QED BY <2>7, Zenon
<1>4. PICK g : Right(g) /\ Walk(up, x) = g[n]
  BY <1>3 DEF Walk, Longer
<1>a. g[0] = <<x>> /\ \A k \in Nat : k + 1 <= n => g[k + 1] = Longer(up, g[k])
  BY <1>1, <1>4
<1> HIDE DEF n
<1> DEFINE T == {k \in Nat : k <= n => g[k] \in IP /\ (Ends(up, g[k]) \/ Len(g[k]) = k + 1)}
<1>5. Nat \subseteq T
  <2>1. 0 \in T
    <3>1. Len(<<x>>) = 0 + 1 OBVIOUS
    <3> QED BY <3>1, <1>a, <1>2
  <2>2. ASSUME NEW k \in Nat, k \in T PROVE k + 1 \in T
    <3>0. CASE ~(k + 1 <= n)  BY <3>0
    <3>4. CASE k + 1 <= n
      <4>1. g[k] \in IP /\ (Ends(up, g[k]) \/ Len(g[k]) = k + 1)
        BY <2>2, <1>1, <3>4
      <4>2. g[k + 1] = Longer(up, g[k])
        BY <3>4, <1>a
      <4>3. g[k + 1] \in IP
        BY <4>1, <4>2, LongerPath
      <4>4. Ends(up, g[k + 1]) \/ Len(g[k + 1]) = (k + 1) + 1
        <5>1. CASE Ends(up, g[k]) BY <5>1, <4>1, <4>2, LongerPath
        <5>2. CASE ~Ends(up, g[k]) BY <5>2, <4>1, <4>2, LongerPath
        <5> QED BY <5>1, <5>2
      <4> QED BY <4>3, <4>4
    <3> QED BY <3>0, <3>4
  <2> HIDE DEF T
  <2> QED BY <2>1, <2>2, Induction
<1>6. Walk(up, x) \in IP /\ (Ends(up, Walk(up, x)) \/ Len(Walk(up, x)) = n + 1)
  <2>1. n \in T /\ n <= n BY <1>1, <1>5
  <2> QED BY <2>1, <1>4
<1>7. ASSUME ~Ends(up, Walk(up, x)) PROVE FALSE
  <2> DEFINE w == Walk(up, x)
  <2>1. Len(w) = n + 1 /\ w \in IP BY <1>6, <1>7
  <2>2. \A i \in 1..(n + 1) : w[i] \in DOMAIN up
    <3>1. w[n + 1] \in DOMAIN up
      BY <2>1, <1>7 DEF Ends, Last
    <3> QED BY <3>1, <2>1, <1>1 DEF IsPath
  <2> DEFINE h == [i \in 1..(n + 1) |-> w[i]]
  <2>3. IsFiniteSet(1..(n + 1)) /\ Cardinality(1..(n + 1)) = n + 1
    BY FS_Interval, <1>1 DEF n
  <2>4. h \in [1..(n + 1) -> DOMAIN up]
    BY <2>2
  <2>5. \A i, j \in 1..(n + 1) : h[i] = h[j] => i = j
    BY <2>1 DEF IsPath
  <2> HIDE DEF h
  <2>6. \E i, j \in 1..(n + 1) : i # j /\ h[i] = h[j]
    <3> HIDE DEF w
    <3>1. Cardinality(DOMAIN up) < Cardinality(1..(n + 1)) BY <1>1, <2>3 DEF n
    <3> QED BY <2>3, <2>4, <3>1, FS_PigeonHole
  <2> QED BY <2>5, <2>6
<1> QED BY <1>6, <1>7

-------------------------------------------------------------------------------
(* Declarations of a list, by name.                                           *)
(* FirstNamed and LastNamed of a list, and of two lists put together.         *)

(* The first and the last of a name.                                          *)
LEMMA FirstNamedIs ==
    ASSUME NEW S, NEW s \in Seq(S), NEW n \in Names(s)
    PROVE  \E i \in DOMAIN s : /\ s[i].name = n /\ \A j \in 1..i-1 : s[j].name # n
                               /\ FirstNamed(s, n) = s[i]
<1> DEFINE T == {i \in DOMAIN s : s[i].name = n}
<1>1. T \subseteq Nat /\ T # {}
    BY DEF Names
<1>2. PICK i \in T : \A k \in T : i <= k
    <2> HIDE DEF T
    <2> QED BY <1>1, LeastOf
<1>3. \A j \in 1..i-1 : s[j].name # n
    BY <1>2
<1>4. \E k \in DOMAIN s : s[k].name = n /\ \A j \in 1..k-1 : s[j].name # n
    BY <1>2, <1>3
<1> DEFINE c == CHOOSE k \in DOMAIN s : s[k].name = n /\ \A j \in 1..k-1 : s[j].name # n
<1>5. c \in DOMAIN s /\ s[c].name = n /\ \A j \in 1..c-1 : s[j].name # n
    BY <1>4
<1> HIDE DEF c
<1>6. FirstNamed(s, n) = s[c]
    BY DEF FirstNamed, c
<1> QED BY <1>5, <1>6

LEMMA LastNamedIs ==
    ASSUME NEW S, NEW s \in Seq(S), NEW n \in Names(s)
    PROVE  \E i \in DOMAIN s : /\ s[i].name = n /\ \A j \in i+1..Len(s) : s[j].name # n
                               /\ LastNamed(s, n) = s[i]
<1> DEFINE T == {k \in Nat : \E i \in DOMAIN s : s[i].name = n /\ k = Len(s) - i}
<1>1. T \subseteq Nat /\ T # {}
    <2>1. PICK i \in DOMAIN s : s[i].name = n
        BY DEF Names
    <2>2. Len(s) - i \in T
        BY <2>1
    <2> QED BY <2>2
<1>2. PICK m \in T : \A k \in T : m <= k
    <2> HIDE DEF T
    <2> QED BY <1>1, LeastOf
<1>3. PICK i \in DOMAIN s : s[i].name = n /\ m = Len(s) - i
    BY <1>2
<1>4. ASSUME NEW j \in i+1..Len(s), s[j].name = n PROVE FALSE
    <2>1. Len(s) - j \in T /\ Len(s) - j < m
        BY <1>3, <1>4
    <2> QED BY <1>2, <2>1
<1>5. \E k \in DOMAIN s : s[k].name = n /\ \A j \in k+1..Len(s) : s[j].name # n
    BY <1>3, <1>4
<1> DEFINE c == CHOOSE k \in DOMAIN s : s[k].name = n /\ \A j \in k+1..Len(s) : s[j].name # n
<1>6. c \in DOMAIN s /\ s[c].name = n /\ \A j \in c+1..Len(s) : s[j].name # n
    BY <1>5
<1> HIDE DEF c
<1>7. LastNamed(s, n) = s[c]
    BY DEF LastNamed, c
<1> QED BY <1>6, <1>7

LEMMA Named ==
    ASSUME NEW S, NEW s \in Seq(S), NEW n \in Names(s)
    PROVE  \A x \in {FirstNamed(s, n), LastNamed(s, n)} : x \in ToSet(s) /\ x \in S /\ x.name = n
    BY FirstNamedIs, LastNamedIs DEF ToSet

LEMMA NamesOf ==
    ASSUME NEW S, NEW s \in Seq(S)
    PROVE  /\ Names(s) = {x.name : x \in ToSet(s)} /\ ToSet(s) \subseteq S
           /\ \A x \in ToSet(s) : x.name \in Names(s)
    BY DEF Names, ToSet

LEMMA UniqueNamed ==
    ASSUME NEW S, NEW s \in Seq(S), Repeated(s) = {}
    PROVE  /\ \A i, j \in DOMAIN s : s[i].name = s[j].name => i = j
           /\ \A x \in ToSet(s) : FirstNamed(s, x.name) = x /\ LastNamed(s, x.name) = x
           /\ \A n \in Names(s) : LastNamed(s, n) = FirstNamed(s, n)
<1>1. ASSUME NEW i \in DOMAIN s, NEW j \in DOMAIN s, i < j, s[i].name = s[j].name PROVE FALSE
    <2>1. i \in 1..j-1
        BY <1>1
    <2>2. s[j].name \in Repeated(s)
        BY <1>1, <2>1 DEF Repeated
    <2> QED BY <2>2
<1>2. \A i, j \in DOMAIN s : s[i].name = s[j].name => i = j
    <2> SUFFICES ASSUME NEW i \in DOMAIN s, NEW j \in DOMAIN s, s[i].name = s[j].name PROVE i = j
        OBVIOUS
    <2>1. i \in Nat /\ j \in Nat
        OBVIOUS
    <2>2. i < j \/ j < i \/ i = j
        BY <2>1
    <2> QED BY <1>1, <2>2
<1>3. ASSUME NEW x \in ToSet(s) PROVE FirstNamed(s, x.name) = x /\ LastNamed(s, x.name) = x
    <2>1. PICK i \in DOMAIN s : x = s[i]
        BY DEF ToSet
    <2>2. x.name \in Names(s)
        BY <2>1 DEF Names
    <2> QED BY <1>2, <2>1, <2>2, FirstNamedIs, LastNamedIs
<1>4. \A n \in Names(s) : \E x \in ToSet(s) : x.name = n
    BY DEF Names, ToSet
<1> QED BY <1>2, <1>3, <1>4

(* Sequences put together.                                                    *)
LEMMA ConcatIs ==
    ASSUME NEW S, NEW s \in Seq(S), NEW t \in Seq(S)
    PROVE  /\ s \o t \in Seq(S) /\ Len(s \o t) = Len(s) + Len(t)
           /\ \A i \in 1..Len(s) : (s \o t)[i] = s[i]
           /\ \A i \in 1..Len(t) : (s \o t)[Len(s) + i] = t[i]
           /\ ToSet(s \o t) = ToSet(s) \cup ToSet(t)
           /\ Names(s \o t) = Names(s) \cup Names(t)
<1> DEFINE u == s \o t
<1>1. /\ u \in Seq(S) /\ Len(u) = Len(s) + Len(t) /\ DOMAIN u = 1..Len(u)
      /\ \A i \in 1..Len(s) : u[i] = s[i]
      /\ \A i \in 1..Len(t) : u[Len(s) + i] = t[i]
    OBVIOUS
<1>2. \A i \in 1..Len(u) : i \in 1..Len(s) \/ (i - Len(s) \in 1..Len(t) /\ i = Len(s) + (i - Len(s)))
    BY <1>1
<1>3. \A i \in 1..Len(s) : i \in 1..Len(u)
    BY <1>1
<1>4. \A i \in 1..Len(t) : Len(s) + i \in 1..Len(u)
    BY <1>1
<1>5. DOMAIN s = 1..Len(s) /\ DOMAIN t = 1..Len(t)
    OBVIOUS
<1> HIDE DEF u
<1>a. \A i \in 1..Len(u) : (\E j \in 1..Len(s) : u[i] = s[j]) \/ (\E j \in 1..Len(t) : u[i] = t[j])
    BY <1>1, <1>2
<1>b. \A j \in 1..Len(s) : \E i \in 1..Len(u) : u[i] = s[j]
    BY <1>1, <1>3
<1>c. \A j \in 1..Len(t) : \E i \in 1..Len(u) : u[i] = t[j]
    <2> TAKE j \in 1..Len(t)
    <2>1. Len(s) + j \in 1..Len(u) /\ u[Len(s) + j] = t[j]
        BY <1>1, <1>4
    <2> QED BY <2>1
<1>d. /\ ToSet(u) = {u[i] : i \in 1..Len(u)} /\ Names(u) = {u[i].name : i \in 1..Len(u)}
      /\ ToSet(s) = {s[i] : i \in 1..Len(s)} /\ Names(s) = {s[i].name : i \in 1..Len(s)}
      /\ ToSet(t) = {t[i] : i \in 1..Len(t)} /\ Names(t) = {t[i].name : i \in 1..Len(t)}
    BY <1>1, <1>5 DEF ToSet, Names
<1>6. ToSet(u) = ToSet(s) \cup ToSet(t)
    BY <1>a, <1>b, <1>c, <1>d, Zenon
<1>7. Names(u) = Names(s) \cup Names(t)
    <2>1. Names(u) = {x.name : x \in ToSet(u)} /\ Names(s) = {x.name : x \in ToSet(s)}
          /\ Names(t) = {x.name : x \in ToSet(t)}
        BY <1>1, NamesOf
    <2> QED BY <1>6, <2>1
<1> QED BY <1>1, <1>6, <1>7 DEF u

LEMMA ConcatFirst ==
    ASSUME NEW S, NEW s \in Seq(S), NEW t \in Seq(S), NEW n \in Names(s) \cup Names(t)
    PROVE  FirstNamed(s \o t, n) = IF n \in Names(s) THEN FirstNamed(s, n) ELSE FirstNamed(t, n)
<1> DEFINE u == s \o t
<1>1. /\ u \in Seq(S) /\ Len(u) = Len(s) + Len(t) /\ DOMAIN u = 1..Len(u)
      /\ \A i \in 1..Len(s) : u[i] = s[i]
      /\ \A i \in 1..Len(t) : u[Len(s) + i] = t[i]
      /\ n \in Names(u)
    BY ConcatIs
<1>5. DOMAIN s = 1..Len(s) /\ DOMAIN t = 1..Len(t) /\ Len(s) \in Nat /\ Len(t) \in Nat
    OBVIOUS
<1> HIDE DEF u
<1>2. PICK c \in DOMAIN u : u[c].name = n /\ (\A j \in 1..c-1 : u[j].name # n) /\ FirstNamed(u, n) = u[c]
    BY <1>1, FirstNamedIs
<1>3. CASE n \in Names(s)
    <2>1. PICK i \in DOMAIN s : s[i].name = n /\ (\A j \in 1..i-1 : s[j].name # n) /\ FirstNamed(s, n) = s[i]
        BY <1>3, FirstNamedIs
    <2>2. u[i] = s[i] /\ \A j \in 1..i-1 : u[j] = s[j]
        BY <1>1, <1>5
    <2>3. i = c
        BY <1>1, <1>2, <1>5, <2>1, <2>2
    <2> QED BY <1>2, <1>3, <2>1, <2>2, <2>3 DEF u
<1>4. CASE n \notin Names(s)
    <2>1. PICK i \in DOMAIN t : t[i].name = n /\ (\A j \in 1..i-1 : t[j].name # n) /\ FirstNamed(t, n) = t[i]
        BY <1>4, FirstNamedIs
    <2>2. u[Len(s) + i] = t[i] /\ \A j \in 1..i-1 : u[Len(s) + j] = t[j]
        BY <1>1, <1>5
    <2>3. \A j \in 1..Len(s) : u[j].name # n
        BY <1>1, <1>4, <1>5 DEF Names
    <2>4. c > Len(s) /\ c - Len(s) \in 1..Len(t) /\ c = Len(s) + (c - Len(s))
        BY <1>1, <1>2, <1>5, <2>3
    <2>5. c - Len(s) = i
        <3> DEFINE d == c - Len(s)
        <3>1. d \in 1..Len(t) /\ u[Len(s) + d] = t[d] /\ t[d].name = n
            BY <1>1, <1>2, <2>4
        <3>2. ~(d < i)
            BY <1>5, <2>1, <3>1
        <3>3. ~(i < d)
            <4> SUFFICES ASSUME i < d PROVE FALSE
                OBVIOUS
            <4>1. Len(s) + i \in 1..c-1
                BY <1>5, <2>4
            <4> QED BY <1>2, <2>1, <2>2, <4>1
        <3> QED BY <1>5, <3>1, <3>2, <3>3
    <2> QED BY <1>2, <1>4, <2>1, <2>2, <2>4, <2>5 DEF u
<1> QED BY <1>3, <1>4 DEF u

-------------------------------------------------------------------------------
(* The first of each name, and lists flattened.                               *)
(* Unrepeated keeps the first of each name; FlattenSeq finds it in the list   *)
(* that has it first.                                                         *)

Counts(f, S, b, step) ==
    f \in [Nat -> S] /\ f[0] = b /\ \A k \in Nat : f[k + 1] = step[<<k, f[k]>>]

LEMMA Counting ==
    ASSUME NEW S, NEW b \in S, NEW step \in [Nat \X S -> S]
    PROVE  \E f : Counts(f, S, b, step)
<1> DEFINE both == [p \in Nat \X S |-> <<p[1] + 1, step[p]>>]
           R == Nat \X S
<1>1. both \in [R -> R] /\ <<0, b>> \in R
    OBVIOUS
<1>2. PICK g \in [Nat -> R] : g[0] = <<0, b>> /\ \A k \in Nat : g[k + 1] = both[g[k]]
    <2> DEFINE c == <<0, b>>
    <2>1. c \in R
        BY <1>1
    <2> HIDE DEF both, R, c
    <2>2. \E g : Iterates(g, R, c, both)
        BY <1>1, <2>1, Iteration
    <2> QED BY <2>2 DEF c, Iterates
<1>3. \A k \in Nat : g[k] = <<g[k][1], g[k][2]>> /\ g[k][1] \in Nat /\ g[k][2] \in S
    OBVIOUS
<1>4. \A k \in Nat : g[k + 1] = <<g[k][1] + 1, step[g[k]]>>
    BY <1>2
<1> HIDE DEF both, R
<1> DEFINE T == {k \in Nat : g[k][1] = k}
<1>5. Nat \subseteq T
    <2>1. 0 \in T
        BY <1>2
    <2>2. \A k \in Nat : k \in T => k + 1 \in T
        BY <1>4
    <2> HIDE DEF T
    <2> QED BY <2>1, <2>2, Induction
<1> DEFINE f == [k \in Nat |-> g[k][2]]
<1>6. \A k \in Nat : f[k] = g[k][2]
    OBVIOUS
<1>7. f \in [Nat -> S] /\ f[0] = b
    BY <1>2, <1>3
<1>8. ASSUME NEW k \in Nat PROVE f[k + 1] = step[<<k, f[k]>>]
    <2>0. k + 1 \in Nat
        OBVIOUS
    <2>1. g[k] = <<k, f[k]>>
        BY <1>3, <1>5, <1>6
    <2>2. f[k + 1] = g[k + 1][2]
        BY <1>6, <2>0
    <2>3. g[k + 1] = <<k + 1, step[<<k, f[k]>>]>>
        BY <1>4, <1>5, <2>1
    <2> HIDE DEF f
    <2> QED BY <2>2, <2>3
<1> HIDE DEF f
<1> QED BY <1>7, <1>8 DEF Counts

Kept(s, k) == {s[i] : i \in {i \in 1..k : \A j \in 1..i-1 : s[j].name # s[i].name}}
Keeping(s, k, w) ==
    /\ \A i, j \in DOMAIN w : w[i].name = w[j].name => i = j
    /\ Names(w) = {s[i].name : i \in 1..k}
    /\ ToSet(w) = Kept(s, k)

LEMMA KeepingNext ==
    ASSUME NEW S, NEW s \in Seq(S), NEW k \in Nat, k + 1 <= Len(s), NEW w \in Seq(S), Keeping(s, k, w)
    PROVE  Keeping(s, k + 1, IF s[k + 1].name \in Names(w) THEN w ELSE Append(w, s[k + 1]))
<1> DEFINE x == s[k + 1]
<1>1. x \in S /\ 1..k+1 = 1..k \cup {k + 1} /\ k + 1 \notin 1..k
    OBVIOUS
<1>2. {s[i].name : i \in 1..k+1} = {s[i].name : i \in 1..k} \cup {x.name}
    BY <1>1
<1>3. Names(w) = {s[i].name : i \in 1..k} /\ ToSet(w) = Kept(s, k)
    BY DEF Keeping
<1>4. (\A j \in 1..(k+1)-1 : s[j].name # x.name) <=> x.name \notin Names(w)
    BY <1>3
<1>5. Kept(s, k + 1) = Kept(s, k) \cup IF x.name \in Names(w) THEN {} ELSE {x}
    <2>1. \A i \in 1..k : i \in 1..k+1
        BY <1>1
    <2> QED BY <1>1, <1>4, <2>1 DEF Kept
<1>6. CASE x.name \in Names(w)
    BY <1>2, <1>3, <1>5, <1>6 DEF Keeping
<1>7. CASE x.name \notin Names(w)
    <2> DEFINE v == Append(w, x)
    <2>1. /\ v \in Seq(S) /\ DOMAIN v = 1..Len(w)+1 /\ DOMAIN w = 1..Len(w) /\ Len(w) \in Nat
          /\ v[Len(w) + 1] = x /\ \A i \in 1..Len(w) : v[i] = w[i]
        BY <1>1
    <2>2. 1..Len(w)+1 = 1..Len(w) \cup {Len(w) + 1}
        BY <2>1
    <2> HIDE DEF v, x
    <2>3. ToSet(v) = ToSet(w) \cup {x}
        BY <2>1, <2>2 DEF ToSet
    <2>4. Names(v) = Names(w) \cup {x.name}
        BY <2>1, <2>2 DEF Names
    <2>5. \A i \in 1..Len(w) : w[i].name # x.name
        BY <1>7, <2>1 DEF Names
    <2>6. \A i, j \in DOMAIN w : w[i].name = w[j].name => i = j
        BY DEF Keeping
    <2>7. \A i, j \in DOMAIN v : v[i].name = v[j].name => i = j
        BY <2>1, <2>2, <2>5, <2>6
    <2>8. Keeping(s, k + 1, v)
        BY <1>2, <1>3, <1>5, <1>7, <2>3, <2>4, <2>7 DEF Keeping
    <2> QED BY <1>7, <2>8 DEF x, v
<1> QED BY <1>6, <1>7

LEMMA UnrepeatedIs ==
    ASSUME NEW S, NEW s \in Seq(S)
    PROVE  /\ Unrepeated(s) \in Seq(S) /\ Repeated(Unrepeated(s)) = {}
           /\ Names(Unrepeated(s)) = Names(s)
           /\ ToSet(Unrepeated(s)) = {FirstNamed(s, n) : n \in Names(s)}
<1> DEFINE N == Len(s)
           After(w, x) == IF x.name \in Names(w) THEN w ELSE Append(w, x)
           Right(g) == g = [i \in 0..N |-> IF i = 0 THEN <<>> ELSE After(g[i - 1], s[i])]
<1>1. N \in Nat /\ DOMAIN s = 1..N
    OBVIOUS
<1>2. \E g : Right(g)
    <2> DEFINE step == [p \in Nat \X Seq(S) |-> IF p[1] + 1 \in 1..N THEN After(p[2], s[p[1] + 1]) ELSE p[2]]
    <2>1. step \in [Nat \X Seq(S) -> Seq(S)]
        OBVIOUS
    <2>2. PICK f \in [Nat -> Seq(S)] : f[0] = <<>> /\ \A k \in Nat : f[k + 1] = step[<<k, f[k]>>]
        <3> HIDE DEF step
        <3>1. <<>> \in Seq(S)
            OBVIOUS
        <3>2. \E f : Counts(f, Seq(S), <<>>, step)
            BY <2>1, <3>1, Counting
        <3> QED BY <3>2 DEF Counts
    <2>3. \A k \in Nat : k + 1 \in 1..N => f[k + 1] = After(f[k], s[k + 1])
        <3> HIDE DEF After
        <3> QED BY <2>2
    <2> HIDE DEF After
    <2>4. ASSUME NEW i \in 0..N, i # 0 PROVE f[i] = After(f[i - 1], s[i])
        <3>1. i - 1 \in Nat /\ (i - 1) + 1 = i /\ i \in 1..N
            BY <1>1, <2>4
        <3>2. f[(i - 1) + 1] = After(f[i - 1], s[(i - 1) + 1])
            BY <2>3, <3>1
        <3> QED BY <3>1, <3>2
    <2> DEFINE g == [i \in 0..N |-> f[i]]
    <2>5. \A i \in 0..N : i # 0 => g[i - 1] = f[i - 1]
        BY <1>1
    <2>6. \A i \in 0..N : g[i] = IF i = 0 THEN <<>> ELSE After(g[i - 1], s[i])
        BY <2>2, <2>4, <2>5
    <2>7. Right(g)
        BY <2>6
    <2> HIDE DEF Right, g
    <2> QED BY <2>7
<1>3. PICK g : Right(g) /\ Unrepeated(s) = g[N]
    BY <1>2 DEF Unrepeated
<1>4. g[0] = <<>> /\ \A k \in Nat : k + 1 <= N => g[k + 1] = After(g[k], s[k + 1])
    <2> HIDE DEF After
    <2> QED BY <1>1, <1>3
<1> DEFINE T == {k \in Nat : k <= N => g[k] \in Seq(S) /\ Keeping(s, k, g[k])}
<1>5. Nat \subseteq T
    <2>1. 0 \in T
        <3>1. <<>> \in Seq(S) /\ Keeping(s, 0, <<>>)
            BY DEF Keeping, Kept, Names, ToSet
        <3> QED BY <3>1, <1>4
    <2>2. ASSUME NEW k \in Nat, k \in T PROVE k + 1 \in T
        <3> SUFFICES ASSUME k + 1 <= N PROVE g[k + 1] \in Seq(S) /\ Keeping(s, k + 1, g[k + 1])
            OBVIOUS
        <3>1. g[k] \in Seq(S) /\ Keeping(s, k, g[k]) /\ s[k + 1] \in S
            BY <1>1, <2>2
        <3>2. g[k + 1] = After(g[k], s[k + 1])
            BY <1>4
        <3>3. g[k + 1] \in Seq(S)
            BY <3>1, <3>2
        <3> QED BY <3>1, <3>2, <3>3, KeepingNext
    <2> HIDE DEF T
    <2> QED BY <2>1, <2>2, Induction
<1> DEFINE u == Unrepeated(s)
<1>6. u \in Seq(S) /\ Keeping(s, N, u)
    <2>1. N \in T /\ N <= N
        BY <1>1, <1>5
    <2> QED BY <2>1, <1>3
<1> HIDE DEF T
<1>7. Repeated(u) = {}
    <2> SUFFICES ASSUME NEW k \in DOMAIN u, NEW j \in 1..k-1, u[j].name = u[k].name PROVE FALSE
        BY DEF Repeated
    <2>1. j \in DOMAIN u /\ j # k
        BY <1>6
    <2> QED BY <1>6, <2>1 DEF Keeping
<1>8. Names(u) = Names(s)
    BY <1>1, <1>6 DEF Keeping, Names
<1>9. ToSet(u) = {FirstNamed(s, n) : n \in Names(s)}
    <2>1. ToSet(u) = Kept(s, N)
        BY <1>6 DEF Keeping
    <2>2. ASSUME NEW n \in Names(s) PROVE FirstNamed(s, n) \in Kept(s, N)
        BY <1>1, FirstNamedIs DEF Kept
    <2>3. ASSUME NEW i \in 1..N, \A j \in 1..i-1 : s[j].name # s[i].name
          PROVE  s[i].name \in Names(s) /\ FirstNamed(s, s[i].name) = s[i]
        <3>1. s[i].name \in Names(s)
            BY <1>1 DEF Names
        <3>2. PICK c \in DOMAIN s : /\ s[c].name = s[i].name /\ \A j \in 1..c-1 : s[j].name # s[i].name
                                    /\ FirstNamed(s, s[i].name) = s[c]
            BY <3>1, FirstNamedIs
        <3>3. ~(c < i) /\ ~(i < c)
            BY <1>1, <2>3, <3>2
        <3>4. c = i
            BY <1>1, <3>2, <3>3
        <3> QED BY <3>1, <3>2, <3>4
    <2>4. \A x \in Kept(s, N) : \E n \in Names(s) : x = FirstNamed(s, n)
        BY <2>3 DEF Kept
    <2> QED BY <2>1, <2>2, <2>4
<1> QED BY <1>6, <1>7, <1>8, <1>9

-------------------------------------------------------------------------------
FirstIn(ss, i, n) == n \in Names(ss[i]) /\ \A j \in 1..i-1 : n \notin Names(ss[j])
Flattens(ss, k, w) ==
    /\ ToSet(w) = UNION {ToSet(ss[i]) : i \in 1..k}
    /\ Names(w) = UNION {Names(ss[i]) : i \in 1..k}
    /\ \A n \in Names(w) : \A i \in 1..k : FirstIn(ss, i, n) => FirstNamed(w, n) = FirstNamed(ss[i], n)

LEMMA FlattensNext ==
    ASSUME NEW S, NEW ss \in Seq(Seq(S)), NEW k \in Nat, k + 1 <= Len(ss), NEW w \in Seq(S), Flattens(ss, k, w)
    PROVE  Flattens(ss, k + 1, w \o ss[k + 1])
<1> DEFINE t == ss[k + 1]
           v == w \o t
<1>1. t \in Seq(S) /\ 1..k+1 = 1..k \cup {k + 1} /\ k + 1 \notin 1..k
    OBVIOUS
<1> HIDE DEF t
<1>2. v \in Seq(S) /\ ToSet(v) = ToSet(w) \cup ToSet(t) /\ Names(v) = Names(w) \cup Names(t)
    BY <1>1, ConcatIs
<1>3. \A n \in Names(v) : FirstNamed(v, n) = IF n \in Names(w) THEN FirstNamed(w, n) ELSE FirstNamed(t, n)
    BY <1>1, <1>2, ConcatFirst
<1> HIDE DEF v
<1>4. ToSet(v) = UNION {ToSet(ss[i]) : i \in 1..k+1} /\ Names(v) = UNION {Names(ss[i]) : i \in 1..k+1}
    BY <1>1, <1>2 DEF Flattens, t
<1>5. ASSUME NEW n \in Names(v), NEW i \in 1..k+1, FirstIn(ss, i, n)
      PROVE  FirstNamed(v, n) = FirstNamed(ss[i], n)
    <2>1. CASE i = k + 1
        <3>1. \A j \in 1..k : n \notin Names(ss[j])
            BY <1>5, <2>1 DEF FirstIn
        <3>2. n \notin Names(w)
            BY <3>1 DEF Flattens
        <3> QED BY <1>3, <2>1, <3>2 DEF t
    <2>2. CASE i \in 1..k
        <3>1. n \in Names(w)
            BY <1>5, <2>2 DEF Flattens, FirstIn
        <3> QED BY <1>3, <1>5, <2>2, <3>1 DEF Flattens
    <2> QED BY <1>1, <2>1, <2>2
<1> QED BY <1>4, <1>5 DEF Flattens, v, t

LEMMA FlattenIs ==
    ASSUME NEW S, NEW ss \in Seq(Seq(S))
    PROVE  /\ FlattenSeq(ss) \in Seq(S)
           /\ ToSet(FlattenSeq(ss)) = UNION {ToSet(ss[i]) : i \in DOMAIN ss}
           /\ Names(FlattenSeq(ss)) = UNION {Names(ss[i]) : i \in DOMAIN ss}
           /\ \A n \in Names(FlattenSeq(ss)), i \in DOMAIN ss :
                FirstIn(ss, i, n) => FirstNamed(FlattenSeq(ss), n) = FirstNamed(ss[i], n)
<1> DEFINE N == Len(ss)
           Right(g) == g = [i \in 1..N |-> IF i = 1 THEN ss[i] ELSE g[i - 1] \o ss[i]]
<1>1. N \in Nat /\ DOMAIN ss = 1..N /\ \A i \in 1..N : ss[i] \in Seq(S)
    OBVIOUS
<1>2. CASE N = 0
    <2>1. ss = <<>> /\ FlattenSeq(ss) = ss
        BY <1>2 DEF FlattenSeq
    <2>2. DOMAIN ss = {} /\ ToSet(ss) = {} /\ Names(ss) = {} /\ <<>> \in Seq(S)
        BY <2>1 DEF ToSet, Names
    <2>3. UNION {ToSet(ss[i]) : i \in DOMAIN ss} = {} /\ UNION {Names(ss[i]) : i \in DOMAIN ss} = {}
        BY <2>2
    <2> QED BY <2>1, <2>2, <2>3
<1>3. CASE N # 0
    <2>1. \E g : Right(g)
        <3> DEFINE step == [p \in Nat \X Seq(S) |-> IF p[1] + 2 \in 1..N THEN p[2] \o ss[p[1] + 2] ELSE p[2]]
        <3>1. step \in [Nat \X Seq(S) -> Seq(S)] /\ ss[1] \in Seq(S)
            BY <1>1, <1>3
        <3>2. PICK f \in [Nat -> Seq(S)] : f[0] = ss[1] /\ \A k \in Nat : f[k + 1] = step[<<k, f[k]>>]
            <4> HIDE DEF step
            <4>1. \E f : Counts(f, Seq(S), ss[1], step)
                BY <3>1, Counting
            <4> QED BY <4>1 DEF Counts
        <3>3. \A k \in Nat : k + 2 \in 1..N => f[k + 1] = f[k] \o ss[k + 2]
            BY <3>2
        <3>4. ASSUME NEW i \in 1..N, i # 1 PROVE f[i - 1] = f[(i - 1) - 1] \o ss[i]
            <4>1. i - 2 \in Nat /\ (i - 2) + 1 = i - 1 /\ (i - 2) + 2 = i /\ (i - 1) - 1 = i - 2
                BY <1>1, <3>4
            <4>2. f[(i - 2) + 1] = f[i - 2] \o ss[(i - 2) + 2]
                BY <3>3, <4>1
            <4> QED BY <4>1, <4>2
        <3> DEFINE g == [i \in 1..N |-> f[i - 1]]
        <3>5. \A i \in 1..N : i # 1 => g[i - 1] = f[(i - 1) - 1]
            BY <1>1
        <3>6. ASSUME NEW i \in 1..N PROVE g[i] = IF i = 1 THEN ss[i] ELSE g[i - 1] \o ss[i]
            <4>1. g[i] = f[i - 1]
                OBVIOUS
            <4>2. CASE i = 1
                BY <3>2, <4>1, <4>2
            <4>3. CASE i # 1
                <5>1. f[i - 1] = f[(i - 1) - 1] \o ss[i] /\ g[i - 1] = f[(i - 1) - 1]
                    BY <3>4, <3>5, <4>3
                <5> HIDE DEF g
                <5> QED BY <4>1, <4>3, <5>1
            <4> HIDE DEF g
            <4> QED BY <4>2, <4>3
        <3>7. Right(g)
            BY <3>6
        <3> HIDE DEF Right, g
        <3> QED BY <3>7
    <2>2. PICK g : Right(g) /\ FlattenSeq(ss) = g[N]
        BY <1>3, <2>1 DEF FlattenSeq
    <2>3. g[1] = ss[1] /\ \A k \in Nat : k + 2 <= N => g[k + 2] = g[k + 1] \o ss[k + 2]
        <3>1. \A i \in 1..N : g[i] = IF i = 1 THEN ss[i] ELSE g[i - 1] \o ss[i]
            BY <2>2, Zenon
        <3>2. 1 \in 1..N /\ \A k \in Nat : k + 2 <= N => k + 2 \in 1..N /\ k + 2 # 1 /\ (k + 2) - 1 = k + 1
            BY <1>1, <1>3
        <3> QED BY <3>1, <3>2
    <2> DEFINE T == {k \in Nat : k + 1 <= N => g[k + 1] \in Seq(S) /\ Flattens(ss, k + 1, g[k + 1])}
    <2>4. Nat \subseteq T
        <3>1. 0 \in T
            <4>1. 1..1 = {1} /\ 0 + 1 = 1 /\ ss[1] \in Seq(S)
                BY <1>1, <1>3
            <4>2. Flattens(ss, 1, ss[1])
                BY <4>1 DEF Flattens
            <4> QED BY <2>3, <4>1, <4>2
        <3>2. ASSUME NEW k \in Nat, k \in T PROVE k + 1 \in T
            <4> SUFFICES ASSUME (k + 1) + 1 <= N
                         PROVE  g[(k + 1) + 1] \in Seq(S) /\ Flattens(ss, (k + 1) + 1, g[(k + 1) + 1])
                OBVIOUS
            <4>1. g[k + 1] \in Seq(S) /\ Flattens(ss, k + 1, g[k + 1]) /\ (k + 1) + 1 = k + 2
                BY <1>1, <3>2
            <4>5. (k + 1) + 1 = k + 2 /\ k + 2 <= N /\ k + 2 \in 1..N
                BY <1>1
            <4>6. g[k + 2] = g[k + 1] \o ss[k + 2] /\ ss[k + 2] \in Seq(S)
                BY <1>1, <2>3, <4>5
            <4>2. g[(k + 1) + 1] = g[k + 1] \o ss[(k + 1) + 1] /\ ss[(k + 1) + 1] \in Seq(S)
                BY <4>5, <4>6
            <4>3. g[(k + 1) + 1] \in Seq(S)
                BY <4>1, <4>2
            <4>4. k + 1 \in Nat
                OBVIOUS
            <4> QED BY <4>1, <4>2, <4>3, <4>4, FlattensNext
        <3> HIDE DEF T
        <3> QED BY <3>1, <3>2, Induction
    <2>5. FlattenSeq(ss) \in Seq(S) /\ Flattens(ss, N, FlattenSeq(ss))
        <3>1. N - 1 \in Nat /\ (N - 1) + 1 = N
            BY <1>1, <1>3
        <3>2. N - 1 \in T
            BY <2>4, <3>1
        <3> QED BY <1>1, <2>2, <3>1, <3>2
    <2> HIDE DEF Right, T
    <2> QED BY <1>1, <2>5 DEF Flattens
<1> QED BY <1>2, <1>3

-------------------------------------------------------------------------------
(* What each check of the linter can say.                                     *)
(* Four codes are each given by one check alone: what says them tells what    *)
(* that check found (lint/lint.go).                                           *)

(* Codes that one check alone gives.                                          *)
OwnCodes == {"inheritance-cycle", "instance-cycle", "perspective-node-cycle", "machine-under-machine"}
Usual(said) == \A d \in said : d[1] \notin OwnCodes

LEMMA UsualSaid ==
    ASSUME NEW x, NEW rows, \A row \in rows : row[1] \notin OwnCodes
    PROVE  Usual(Said(x, rows))
    BY DEF Usual, Said

LEMMA SaidIs ==
    ASSUME NEW x, NEW rows, NEW d
    PROVE  d \in Said(x, rows) <=> \E r \in rows : r[2] /\ d = <<r[1], x>>
    BY DEF Said

When(a, d) == IF a THEN {d} ELSE {}

LEMMA SaidOne ==
    ASSUME NEW x, NEW c, NEW a
    PROVE  Said(x, {<<c, a>>}) = When(a, <<c, x>>)
<1> DEFINE row == <<c, a>>
<1>1. row[1] = c /\ (row[2] = a)
    OBVIOUS
<1>2. \A d : d \in Said(x, {row}) <=> row[2] /\ d = <<row[1], x>>
    <2> HIDE DEF row
    <2> QED BY SaidIs
<1> HIDE DEF row
<1>3. Said(x, {row}) = When(a, <<c, x>>)
    <2>1. CASE a
        BY <1>1, <1>2, <2>1 DEF When
    <2>2. CASE ~a
        BY <1>1, <1>2, <2>2 DEF When
    <2> QED BY <2>1, <2>2, Zenon
<1> QED BY <1>3 DEF row

LEMMA SaidTwo ==
    ASSUME NEW x, NEW c, NEW a, NEW d, NEW b
    PROVE  Said(x, {<<c, a>>, <<d, b>>}) = When(a, <<c, x>>) \cup When(b, <<d, x>>)
<1> DEFINE p == <<c, a>>
           q == <<d, b>>
<1>1. Said(x, {p, q}) = Said(x, {p}) \cup Said(x, {q})
    <2> HIDE DEF p, q
    <2> QED BY DEF Said
<1> QED BY <1>1, SaidOne, Zenon

LEMMA SaidSplits ==
    ASSUME NEW x, NEW R, NEW S
    PROVE  Said(x, R \cup S) = Said(x, R) \cup Said(x, S)
    BY DEF Said

LEMMA UsualBoth == ASSUME NEW s, NEW t, Usual(s), Usual(t) PROVE Usual(s \cup t)
    BY DEF Usual
LEMMA UsualAll == ASSUME NEW ss, \A s \in ss : Usual(s) PROVE Usual(UNION ss)
    BY DEF Usual

LEMMA UsualHeader == ASSUME NEW m PROVE Usual(CheckHeader(m))
<1> DEFINE r1 == m.header.name = ""
           r2 == m.header.ns = ""
           r3 == m.header.ns = "bad"
           r4 == m.header.version = ""
           r5 == m.header.version = "bad"
           r6 == m.header.date = ""
           r7 == m.header.date = "bad"
           rows == {<<"missing-name", r1>>,
                    <<"missing-namespace", r2>>,
                    <<"namespace-trailing-slash", r3>>,
                    <<"missing-version", r4>>,
                    <<"version-semver", r5>>,
                    <<"missing-publication-date", r6>>,
                    <<"publication-date-format", r7>>}
<1>1. CheckHeader(m) = Said(<<"model">>, rows)
    BY Zenon DEF CheckHeader
<1> HIDE DEF r1, r2, r3, r4, r5, r6, r7
<1>2. \A row \in rows : row[1] \notin OwnCodes
    BY DEF OwnCodes
<1> HIDE DEF rows
<1> QED BY <1>1, <1>2, UsualSaid

LEMMA UsualImports == ASSUME NEW m PROVE Usual(CheckImports(m))
<1>1. \A x, r1 : Usual(Said(x,
          {<<"import-not-bundled", r1>>}))
    <2> TAKE x, r1
    <2> DEFINE rows ==
          {<<"import-not-bundled", r1>>}
    <2>1. \A row \in rows : row[1] \notin OwnCodes
        BY DEF OwnCodes
    <2>2. Usual(Said(x, rows))
        <3> HIDE DEF rows
        <3> QED BY <2>1, UsualSaid
    <2> QED BY <2>2
<1> DEFINE one(im) == Said(<<im.name>>, {<<"import-not-bundled",
                                  /\ m.catalog # {} /\ im.uri # UA /\ im.name # "OpcUa"
                                  /\ im.uri \notin m.catalog>>})
<1>2. \A im \in ToSet(m.imports) : Usual(one(im))
    BY <1>1, Zenon
<1>3. CheckImports(m) = UNION {one(im) : im \in ToSet(m.imports)}
    BY Zenon DEF CheckImports
<1> HIDE DEF one
<1> QED BY <1>2, <1>3, UsualAll

LEMMA UsualDuplicates == ASSUME NEW m PROVE Usual(CheckDuplicateTypes(m))
<1>1. \A S : Usual({<<"duplicate-type", <<n>>>> : n \in S})
    BY DEF Usual, OwnCodes
<1> QED BY <1>1, Zenon DEF CheckDuplicateTypes

LEMMA UsualEnum == ASSUME NEW e PROVE Usual(CheckEnum(e))
<1>1. \A x, r1, r2, r3, r4 : Usual(Said(x,
          {<<"empty-enum", r1>>,
           <<"duplicate-enum-value", r2>>,
           <<"negative-enum-id", r3>>,
           <<"duplicate-enum-id", r4>>}))
    <2> TAKE x, r1, r2, r3, r4
    <2> DEFINE rows ==
          {<<"empty-enum", r1>>,
           <<"duplicate-enum-value", r2>>,
           <<"negative-enum-id", r3>>,
           <<"duplicate-enum-id", r4>>}
    <2>1. \A row \in rows : row[1] \notin OwnCodes
        BY DEF OwnCodes
    <2>2. Usual(Said(x, rows))
        <3> HIDE DEF rows
        <3> QED BY <2>1, UsualSaid
    <2> QED BY <2>2
<1> QED BY <1>1, Zenon DEF CheckEnum

LEMMA UsualUnresolved == ASSUME NEW m, NEW y, NEW r PROVE Usual(Unresolved(m, y, r))
<1>1. \A x, r1, r2 : Usual(Said(x,
          {<<"unknown-import-alias", r1>>,
           <<"unknown-import-type", r2>>}))
    <2> TAKE x, r1, r2
    <2> DEFINE rows ==
          {<<"unknown-import-alias", r1>>,
           <<"unknown-import-type", r2>>}
    <2>1. \A row \in rows : row[1] \notin OwnCodes
        BY DEF OwnCodes
    <2>2. Usual(Said(x, rows))
        <3> HIDE DEF rows
        <3> QED BY <2>1, UsualSaid
    <2> QED BY <2>2
<1> QED BY <1>1, Zenon DEF Unresolved

LEMMA UsualTypeRef == ASSUME NEW m, NEW y, NEW ref PROVE Usual(CheckTypeRef(m, y, ref))
<1>1. \A x, r1 : Usual(Said(x,
          {<<"unknown-type", r1>>}))
    <2> TAKE x, r1
    <2> DEFINE rows ==
          {<<"unknown-type", r1>>}
    <2>1. \A row \in rows : row[1] \notin OwnCodes
        BY DEF OwnCodes
    <2>2. Usual(Said(x, rows))
        <3> HIDE DEF rows
        <3> QED BY <2>1, UsualSaid
    <2> QED BY <2>2
<1>2. Usual(Said(y, {<<"unknown-type", Kind(m, ref) = "unknownName">>}))
    BY <1>1, Zenon
<1>3. Usual(Unresolved(m, y, ResolveType(m, ref))) /\ Usual({})
    BY UsualUnresolved DEF Usual
<1> QED BY <1>2, <1>3, UsualBoth, Zenon DEF CheckTypeRef

LEMMA UsualBase == ASSUME NEW m, NEW ot PROVE Usual(CheckBase(m, ot))
<1>1. \A x, r1 : Usual(Said(x,
          {<<"unknown-base", r1>>}))
    <2> TAKE x, r1
    <2> DEFINE rows ==
          {<<"unknown-base", r1>>}
    <2>1. \A row \in rows : row[1] \notin OwnCodes
        BY DEF OwnCodes
    <2>2. Usual(Said(x, rows))
        <3> HIDE DEF rows
        <3> QED BY <2>1, UsualSaid
    <2> QED BY <2>2
<1>2. Usual(Said(<<ot.name>>, {<<"unknown-base", UnknownBase(m, ot, ResolveType(m, ot.base))>>}))
    BY <1>1, Zenon
<1>3. Usual(Unresolved(m, <<ot.name>>, ResolveType(m, ot.base))) /\ Usual({})
    BY UsualUnresolved DEF Usual
<1> QED BY <1>2, <1>3, UsualBoth, Zenon DEF CheckBase

LEMMA UsualMember == ASSUME NEW m, NEW owner, NEW mem PROVE Usual(CheckMember(m, owner, mem))
<1> DEFINE y == Append(owner, mem.name)
           its == Said(y,
            {<<"invalid-kind", mem.kind \notin Kinds>>,
             <<"invalid-rule", mem.rule \notin Rules>>,
             <<"invalid-access", mem.kind \in {"variable", "property"} /\ mem.access \notin {"r", "rw"}>>,
             <<"placeholder-without-rule", mem.placeholder /\ mem.rule \notin PlaceholderRules>>,
             <<"rule-without-placeholder", ~mem.placeholder /\ mem.rule \in PlaceholderRules>>,
             <<"missing-type", mem.kind # "method" /\ mem.type = NoRef>>,
             <<"unknown-unit", mem.unit # "" /\ mem.kind = "variable" /\ mem.unit \notin Units>>,
             <<"unit-on-non-numeric",
               /\ mem.unit # "" /\ mem.kind = "variable"
               /\ ~(mem.type.alias = "" /\ mem.type.name \in Numeric)>>,
             <<"unit-on-property", mem.unit # "" /\ mem.kind = "property">>,
             <<"unit-requires-variable", mem.unit # "" /\ mem.kind \notin {"variable", "property"}>>})
           args == UNION {CheckTypeRef(m, y, arg) : arg \in mem.args}
           type == IF mem.kind = "method" THEN {} ELSE CheckTypeRef(m, y, mem.type)
<1>6. CheckMember(m, owner, mem) = its \cup type \cup args
    BY Zenon DEF CheckMember
<1> DEFINE r1 == mem.kind \notin Kinds
           r2 == mem.rule \notin Rules
           r3 == mem.kind \in {"variable", "property"} /\ mem.access \notin {"r", "rw"}
           r4 == mem.placeholder /\ mem.rule \notin PlaceholderRules
           r5 == ~mem.placeholder /\ mem.rule \in PlaceholderRules
           r6 == mem.kind # "method" /\ mem.type = NoRef
           r7 == mem.unit # "" /\ mem.kind = "variable" /\ mem.unit \notin Units
           r8 == mem.unit # "" /\ mem.kind = "variable" /\ ~(mem.type.alias = "" /\ mem.type.name \in Numeric)
           r9 == mem.unit # "" /\ mem.kind = "property"
           r10 == mem.unit # "" /\ mem.kind \notin {"variable", "property"}
           rows == {<<"invalid-kind", r1>>,
                    <<"invalid-rule", r2>>,
                    <<"invalid-access", r3>>,
                    <<"placeholder-without-rule", r4>>,
                    <<"rule-without-placeholder", r5>>,
                    <<"missing-type", r6>>,
                    <<"unknown-unit", r7>>,
                    <<"unit-on-non-numeric", r8>>,
                    <<"unit-on-property", r9>>,
                    <<"unit-requires-variable", r10>>}
<1>1. its = Said(y, rows)
    BY Zenon
<1> HIDE DEF r1, r2, r3, r4, r5, r6, r7, r8, r9, r10
<1>2. \A row \in rows : row[1] \notin OwnCodes
    BY DEF OwnCodes
<1> HIDE DEF rows
<1>8. Usual(its)
    BY <1>1, <1>2, UsualSaid
<1> HIDE DEF its, y
<1>3. \A ref : Usual(CheckTypeRef(m, y, ref))
    BY UsualTypeRef
<1>4. Usual(args)
    <2>1. \A s \in {CheckTypeRef(m, y, arg) : arg \in mem.args} : Usual(s)
        BY <1>3
    <2> QED BY <2>1, UsualAll
<1>5. Usual(type)
    BY <1>3 DEF Usual
<1> HIDE DEF type, args
<1>7. Usual(its \cup type)
    BY <1>8, <1>5, UsualBoth
<1> QED BY <1>4, <1>6, <1>7, UsualBoth

(* The members of one declaration.                                            *)
MembersSaid(m, o, s) ==
    {<<"duplicate-member", Append(o, n)>> : n \in Repeated(s)}
    \cup UNION {CheckMember(m, o, mem) : mem \in ToSet(s)}

LEMMA MembersSaidIs == ASSUME NEW m, NEW owner, NEW mems
    PROVE  CheckMembers(m, owner, mems) =
             MembersSaid(m, owner, mems)
             \cup UNION {MembersSaid(m, Append(owner, mem.name), mem.children) :
                             mem \in {x \in ToSet(mems) : x.kind = "object"}}
    BY Zenon DEF CheckMembers, MembersSaid

LEMMA UsualMembers == ASSUME NEW m, NEW owner, NEW mems PROVE Usual(CheckMembers(m, owner, mems))
<1>1. ASSUME NEW o, NEW s PROVE Usual(MembersSaid(m, o, s))
    <2>1. Usual({<<"duplicate-member", Append(o, n)>> : n \in Repeated(s)})
        BY DEF Usual, OwnCodes
    <2>2. \A t \in {CheckMember(m, o, mem) : mem \in ToSet(s)} : Usual(t)
        BY UsualMember
    <2>3. Usual(UNION {CheckMember(m, o, mem) : mem \in ToSet(s)})
        BY <2>2, UsualAll
    <2> QED BY <2>1, <2>3, UsualBoth DEF MembersSaid
<1> DEFINE below == {MembersSaid(m, Append(owner, mem.name), mem.children) :
                        mem \in {x \in ToSet(mems) : x.kind = "object"}}
<1>2. \A s \in below : Usual(s)
    BY <1>1
<1>3. Usual(UNION below)
    <2> HIDE DEF below
    <2> QED BY <1>2, UsualAll
<1>4. Usual(MembersSaid(m, owner, mems))
    BY <1>1
<1> QED BY <1>3, <1>4, MembersSaidIs, UsualBoth

-------------------------------------------------------------------------------
LEMMA UsualUnder == ASSUME NEW m, NEW inst PROVE Usual(CheckUnder(m, inst))
<1>1. \A x, r1, r2 : Usual(Said(x,
          {<<"unknown-import-alias", r1>>,
           <<"unknown-under", r2>>}))
    <2> TAKE x, r1, r2
    <2> DEFINE rows ==
          {<<"unknown-import-alias", r1>>,
           <<"unknown-under", r2>>}
    <2>1. \A row \in rows : row[1] \notin OwnCodes
        BY DEF OwnCodes
    <2>2. Usual(Said(x, rows))
        <3> HIDE DEF rows
        <3> QED BY <2>1, UsualSaid
    <2> QED BY <2>2
<1>2. Usual({})
    BY DEF Usual
<1> QED BY <1>1, <1>2, Zenon DEF CheckUnder

LEMMA UsualFilled == ASSUME NEW inst, NEW mems PROVE Usual(CheckFilled(inst, mems))
<1>1. \A x, r1, r2 : Usual(Said(x,
          {<<"unknown-value-member", r1>>,
           <<"value-not-value-bearing", r2>>}))
    <2> TAKE x, r1, r2
    <2> DEFINE rows ==
          {<<"unknown-value-member", r1>>,
           <<"value-not-value-bearing", r2>>}
    <2>1. \A row \in rows : row[1] \notin OwnCodes
        BY DEF OwnCodes
    <2>2. Usual(Said(x, rows))
        <3> HIDE DEF rows
        <3> QED BY <2>1, UsualSaid
    <2> QED BY <2>2
<1>2. \A x, n : Usual(CheckValue(x, mems, n))
    BY <1>1, Zenon DEF CheckValue
<1> DEFINE of == {mem.name : mem \in Placeholders(mems)}
           unfilled == {<<"unknown-placeholder", <<inst.name, ch.name>>>> :
                          ch \in {c \in ToSet(inst.children) : c.of \notin of}}
           vals == {CheckValue(<<inst.name, val.name>>, mems, val.name) : val \in ToSet(inst.values)}
<1>3. CheckFilled(inst, mems) = (UNION vals) \cup unfilled
    BY Zenon DEF CheckFilled
<1> HIDE DEF of
<1>4. Usual(unfilled)
    BY DEF Usual, OwnCodes
<1>5. \A s \in vals : Usual(s)
    BY <1>2
<1> HIDE DEF vals, unfilled
<1>6. Usual(UNION vals)
    BY <1>5, UsualAll
<1>7. Usual((UNION vals) \cup unfilled)
    BY <1>4, <1>6, UsualBoth
<1> QED BY <1>3, <1>7, Zenon

LEMMA UsualInstanceMembers == ASSUME NEW m, NEW inst PROVE Usual(CheckInstanceMembers(m, inst))
<1>1. Usual({})
    BY DEF Usual
<1> QED BY <1>1, UsualFilled, Zenon DEF CheckInstanceMembers

(* The check of the tiers alone says that a machine is under a machine.       *)
Only(said, code) == \A d \in said : d[1] \in OwnCodes => d[1] = code

LEMMA OnlyBoth == ASSUME NEW code, NEW s, NEW t, Only(s, code), Only(t, code) PROVE Only(s \cup t, code)
    BY DEF Only
LEMMA OnlyUsual == ASSUME NEW code, NEW s, Usual(s) PROVE Only(s, code)
    BY DEF Only, Usual

LEMMA OnlyTiers ==
    ASSUME NEW m, NEW inst, NEW parent PROVE Only(CheckTiers(m, inst, parent), "machine-under-machine")
<1> DEFINE r1 == IsOrg(inst) /\ IsOrg(parent) /\ Tier[inst.level] <= Tier[parent.level]
           r2 == IsOrg(inst) /\ IsOrg(parent) /\ Tier[inst.level] > Tier[parent.level] + 1 /\ ~m.skip
           r3 == ~IsOrg(inst) /\ IsOrg(parent) /\ Tier[parent.level] < 3
           r4 == ~IsOrg(inst) /\ ~IsOrg(parent) /\ ISA95 \in m.catalog
           rows == {<<"hierarchy-level-order", r1>>, <<"hierarchy-level-skip", r2>>,
                    <<"equipment-parent", r3>>, <<"machine-under-machine", r4>>}
<1>1. CheckTiers(m, inst, parent) = Said(<<inst.name>>, rows)
    BY Zenon DEF CheckTiers
<1> HIDE DEF r1, r2, r3, r4
<1>2. \A row \in rows : row[1] \in OwnCodes => row[1] = "machine-under-machine"
    BY DEF OwnCodes
<1> HIDE DEF rows
<1> QED BY <1>1, <1>2 DEF Only, Said

LEMMA OnlyHierarchy == ASSUME NEW m, NEW inst PROVE Only(CheckHierarchy(m, inst), "machine-under-machine")
<1>1. \A x, r1, r2 : Usual(Said(x,
          {<<"unknown-level", r1>>,
           <<"level-on-unsupported-type", r2>>}))
    <2> TAKE x, r1, r2
    <2> DEFINE rows ==
          {<<"unknown-level", r1>>,
           <<"level-on-unsupported-type", r2>>}
    <2>1. \A row \in rows : row[1] \notin OwnCodes
        BY DEF OwnCodes
    <2>2. Usual(Said(x, rows))
        <3> HIDE DEF rows
        <3> QED BY <2>1, UsualSaid
    <2> QED BY <2>2
<1> DEFINE known == IsOrg(inst) \/ inst.level \in Tierless
           its == Said(<<inst.name>>,
                    {<<"unknown-level", inst.level # "" /\ ~known>>,
                     <<"level-on-unsupported-type",
                       known /\ ~TypeHasMember(m, inst.type, "EquipmentLevel")>>})
           tiers == IF HasParent(m, inst)
                    THEN CheckTiers(m, inst, LastNamed(m.instances, inst.under.name)) ELSE {}
<1>2. Usual(its)
    BY <1>1, Zenon
<1>3. Only(tiers, "machine-under-machine")
    <2>1. Only({}, "machine-under-machine")
        BY DEF Only
    <2> QED BY <2>1, OnlyTiers, Zenon
<1>4. CheckHierarchy(m, inst) = its \cup tiers
    BY Zenon DEF CheckHierarchy
<1> HIDE DEF its, tiers
<1> QED BY <1>2, <1>3, <1>4, OnlyBoth, OnlyUsual

-------------------------------------------------------------------------------
(* What is said of cycles.                                                    *)
BasesCyclic(m) == {ot \in ToSet(m.types) : Loops(BasesFrom(m, ot), ot.name)}
BaseCycles(m) ==
    {<<"inheritance-cycle", <<Last(Walk(BasesFrom(m, ot), ot.name))>>>> : ot \in BasesCyclic(m)}
NestingCyclic(m) == {inst \in ToSet(m.instances) : Loops(ParentsFrom(m, inst), inst.name)}
NestingCycles(m) == {<<"instance-cycle", <<inst.name>>>> : inst \in NestingCyclic(m)}
NodesCyclic(m) == {p \in ToSet(m.perspectives) : PerspectiveCyclic(p)}
NodeCycles(m) == {<<"perspective-node-cycle", <<p.name>>>> : p \in NodesCyclic(m)}

LEMMA InheritanceSays == ASSUME NEW m
    PROVE  \E u : Usual(u) /\ CheckInheritance(m) = u \cup BaseCycles(m)
<1> DEFINE cyc(ot) == IF Loops(BasesFrom(m, ot), ot.name)
                      THEN {<<"inheritance-cycle", <<Last(Walk(BasesFrom(m, ot), ot.name))>>>>} ELSE {}
           u == UNION {CheckBase(m, ot) : ot \in ToSet(m.types)}
<1>1. CheckInheritance(m) = UNION {CheckBase(m, ot) \cup cyc(ot) : ot \in ToSet(m.types)}
    BY Zenon DEF CheckInheritance
<1>2. BaseCycles(m) = UNION {cyc(ot) : ot \in ToSet(m.types)}
    BY DEF BaseCycles, BasesCyclic
<1> HIDE DEF cyc
<1>3. CheckInheritance(m) = u \cup BaseCycles(m)
    BY <1>1, <1>2
<1>4. \A s \in {CheckBase(m, ot) : ot \in ToSet(m.types)} : Usual(s)
    BY UsualBase
<1>5. Usual(u)
    BY <1>4, UsualAll
<1> QED BY <1>3, <1>5

LEMMA InstancesSay == ASSUME NEW m
    PROVE  \E u : Only(u, "machine-under-machine") /\ CheckInstances(m) = u \cup NestingCycles(m)
<1> DEFINE one(inst) == CheckTypeRef(m, <<inst.name>>, inst.type)
                        \cup CheckUnder(m, inst) \cup CheckInstanceMembers(m, inst)
           two(inst) == Said(<<inst.name>>,
                         {<<"abstract-instance", Abstract(m, inst.type)>>,
                          <<"instance-cycle", Loops(ParentsFrom(m, inst), inst.name)>>})
           abs(inst) == When(Abstract(m, inst.type), <<"abstract-instance", <<inst.name>>>>)
           cyc(inst) == When(Loops(ParentsFrom(m, inst), inst.name), <<"instance-cycle", <<inst.name>>>>)
           dup == {<<"duplicate-instance", <<n>>>> : n \in Repeated(m.instances)}
           each(inst) == one(inst) \cup abs(inst) \cup CheckHierarchy(m, inst)
           u == dup \cup UNION {each(inst) : inst \in ToSet(m.instances)}
<1>1. CheckInstances(m) =
        dup \cup UNION {CheckTypeRef(m, <<inst.name>>, inst.type) \cup two(inst)
                \cup CheckUnder(m, inst)
                \cup CheckInstanceMembers(m, inst)
                \cup CheckHierarchy(m, inst) : inst \in ToSet(m.instances)}
    BY Zenon DEF CheckInstances
<1>3. \A inst : two(inst) = abs(inst) \cup cyc(inst)
    <2> TAKE inst
    <2> DEFINE a == Abstract(m, inst.type)
               b == Loops(ParentsFrom(m, inst), inst.name)
    <2>1. /\ two(inst) = Said(<<inst.name>>, {<<"abstract-instance", a>>, <<"instance-cycle", b>>})
          /\ abs(inst) = When(a, <<"abstract-instance", <<inst.name>>>>)
          /\ cyc(inst) = When(b, <<"instance-cycle", <<inst.name>>>>)
        BY Zenon
    <2> HIDE DEF a, b, two, abs, cyc
    <2> QED BY <2>1, SaidTwo
<1>4. NestingCycles(m) = UNION {cyc(inst) : inst \in ToSet(m.instances)}
    BY DEF NestingCycles, NestingCyclic, When
<1>5. \A inst : Usual(one(inst))
    <2> TAKE inst
    <2>1. Usual(CheckTypeRef(m, <<inst.name>>, inst.type) \cup CheckUnder(m, inst))
        BY UsualTypeRef, UsualUnder, UsualBoth
    <2> QED BY <2>1, UsualInstanceMembers, UsualBoth
<1>6. \A inst : Usual(abs(inst))
    BY DEF Usual, OwnCodes, When
<1>7. Only(dup, "machine-under-machine")
    BY DEF Only, OwnCodes
<1> HIDE DEF two, abs, cyc, dup
<1>8. CheckInstances(m) = u \cup NestingCycles(m)
    <2> DEFINE full(inst) == CheckTypeRef(m, <<inst.name>>, inst.type) \cup two(inst)
                             \cup CheckUnder(m, inst) \cup CheckInstanceMembers(m, inst)
                             \cup CheckHierarchy(m, inst)
    <2>1. \A inst : full(inst) = each(inst) \cup cyc(inst)
        BY <1>3
    <2>2. CheckInstances(m) = dup \cup UNION {full(inst) : inst \in ToSet(m.instances)}
        BY <1>1
    <2> HIDE DEF full, each
    <2> QED BY <1>4, <2>1, <2>2
<1>9. \A inst : Only(each(inst), "machine-under-machine")
    <2> TAKE inst
    <2>1. Only(one(inst) \cup abs(inst), "machine-under-machine")
        BY <1>5, <1>6, UsualBoth, OnlyUsual
    <2> QED BY <2>1, OnlyHierarchy, OnlyBoth
<1>10. Only(u, "machine-under-machine")
    <2> HIDE DEF each
    <2>1. Only(UNION {each(inst) : inst \in ToSet(m.instances)}, "machine-under-machine")
        BY <1>9 DEF Only
    <2> QED BY <1>7, <2>1, OnlyBoth
<1> QED BY <1>8, <1>10

LEMMA PerspectivesSay == ASSUME NEW m
    PROVE  \E u : Usual(u) /\ UNION {CheckPerspective(m, p) : p \in ToSet(m.perspectives)} = u \cup NodeCycles(m)
<1> DEFINE a(p) == p.membership \notin {"", "exclusive", "overlapping"}
           b(p) == \E nd \in ToSet(p.nodes) : ~(ToSet(nd.children) \subseteq Names(p.nodes))
           d(p) == p.export /\ ~p.symbolic
           two(p) == Said(<<p.name>>,
                        {<<"unknown-membership-mode", a(p)>>, <<"unknown-perspective-node", b(p)>>,
                         <<"perspective-node-cycle", PerspectiveCyclic(p)>>,
                         <<"perspective-id-not-exportable", d(p)>>})
           own(p) == When(a(p), <<"unknown-membership-mode", <<p.name>>>>)
                     \cup When(b(p), <<"unknown-perspective-node", <<p.name>>>>)
                     \cup When(d(p), <<"perspective-id-not-exportable", <<p.name>>>>)
           cyc(p) == When(PerspectiveCyclic(p), <<"perspective-node-cycle", <<p.name>>>>)
           D(p) == ToSet(Listed(p)) \ Names(m.instances)
           E(p) == {x \in Names(m.instances) :
                        /\ p.membership # "overlapping"
                        /\ \E i, j \in DOMAIN Listed(p) : i < j /\ Listed(p)[i] = x /\ Listed(p)[j] = x}
           mems(p) == {<<"dangling-member", <<n>>>> : n \in D(p)}
                      \cup {<<"exclusive-membership", <<n>>>> : n \in E(p)}
           each(p) == own(p) \cup mems(p)
           u == UNION {each(p) : p \in ToSet(m.perspectives)}
<1>1. \A p : CheckPerspective(m, p) = two(p) \cup {<<"dangling-member", <<n>>>> : n \in D(p)}
                                      \cup {<<"exclusive-membership", <<n>>>> : n \in E(p)}
    BY Zenon DEF CheckPerspective
<1> HIDE DEF a, b, d, D, E
<1>2. \A p : two(p) = own(p) \cup cyc(p)
    <2> TAKE p
    <2> DEFINE r == PerspectiveCyclic(p)
               aa == a(p)
               bb == b(p)
               dd == d(p)
               rows == {<<"unknown-membership-mode", aa>>, <<"unknown-perspective-node", bb>>,
                        <<"perspective-node-cycle", r>>, <<"perspective-id-not-exportable", dd>>}
    <2>1. two(p) = Said(<<p.name>>, rows)
        BY Zenon
    <2>2. own(p) = When(aa, <<"unknown-membership-mode", <<p.name>>>>)
                     \cup When(bb, <<"unknown-perspective-node", <<p.name>>>>)
                     \cup When(dd, <<"perspective-id-not-exportable", <<p.name>>>>)
        BY Zenon
    <2>3. cyc(p) = When(r, <<"perspective-node-cycle", <<p.name>>>>)
        BY Zenon
    <2> DEFINE R == {<<"unknown-membership-mode", aa>>, <<"unknown-perspective-node", bb>>}
               S == {<<"perspective-node-cycle", r>>, <<"perspective-id-not-exportable", dd>>}
    <2> HIDE DEF r, aa, bb, dd, two, own, cyc
    <2>4. rows = R \cup S
        OBVIOUS
    <2>5. Said(<<p.name>>, R) = When(aa, <<"unknown-membership-mode", <<p.name>>>>)
                                \cup When(bb, <<"unknown-perspective-node", <<p.name>>>>)
        BY SaidTwo
    <2>6. Said(<<p.name>>, S) = When(r, <<"perspective-node-cycle", <<p.name>>>>)
                                \cup When(dd, <<"perspective-id-not-exportable", <<p.name>>>>)
        BY SaidTwo
    <2> HIDE DEF rows, R, S
    <2>7. two(p) = Said(<<p.name>>, R) \cup Said(<<p.name>>, S)
        BY <2>1, <2>4, SaidSplits
    <2> QED BY <2>2, <2>3, <2>5, <2>6, <2>7
<1>3. \A p : Usual(own(p)) /\ Usual(mems(p))
    BY DEF Usual, OwnCodes, When
<1>4. NodeCycles(m) = UNION {cyc(p) : p \in ToSet(m.perspectives)}
    BY DEF NodeCycles, NodesCyclic, When
<1>5. \A p : CheckPerspective(m, p) = each(p) \cup cyc(p)
    <2> HIDE DEF own, cyc, two
    <2> QED BY <1>1, <1>2
<1>6. \A p : Usual(each(p))
    <2> HIDE DEF own, mems
    <2> QED BY <1>3, UsualBoth
<1> HIDE DEF each, cyc
<1>7. UNION {CheckPerspective(m, p) : p \in ToSet(m.perspectives)} = u \cup NodeCycles(m)
    BY <1>4, <1>5
<1>8. Usual(u)
    BY <1>6 DEF Usual
<1> QED BY <1>7, <1>8

LEMMA ValidateSays == ASSUME NEW m
    PROVE  \E u : /\ Only(u, "machine-under-machine")
                  /\ Validate(m) = u \cup BaseCycles(m) \cup NestingCycles(m) \cup NodeCycles(m)
<1>1. PICK u1 : Usual(u1) /\ CheckInheritance(m) = u1 \cup BaseCycles(m)
    BY InheritanceSays
<1>2. PICK u2 : Only(u2, "machine-under-machine") /\ CheckInstances(m) = u2 \cup NestingCycles(m)
    BY InstancesSay
<1>3. PICK u3 : Usual(u3) /\ UNION {CheckPerspective(m, p) : p \in ToSet(m.perspectives)} = u3 \cup NodeCycles(m)
    BY PerspectivesSay
<1> DEFINE es == {CheckEnum(e) : e \in ToSet(m.enums)}
           ms == {CheckMembers(m, <<ot.name>>, ot.members) : ot \in ToSet(m.types)}
           ps == UNION {CheckPerspective(m, p) : p \in ToSet(m.perspectives)}
           u == CheckHeader(m) \cup CheckImports(m) \cup CheckDuplicateTypes(m) \cup (UNION es)
                \cup u1 \cup (UNION ms) \cup u2 \cup u3
<1>4. /\ \A s \in es : Usual(s)
      /\ \A s \in ms : Usual(s)
    BY UsualEnum, UsualMembers
<1>5. Usual(UNION es) /\ Usual(UNION ms)
    <2> HIDE DEF es, ms
    <2> QED BY <1>4, UsualAll
<1>6. Validate(m) = CheckHeader(m) \cup CheckImports(m) \cup CheckDuplicateTypes(m) \cup (UNION es)
                    \cup CheckInheritance(m) \cup (UNION ms) \cup CheckInstances(m) \cup ps
    BY Zenon DEF Validate
<1> HIDE DEF es, ms, ps
<1>7. Usual(CheckHeader(m)) /\ Usual(CheckImports(m)) /\ Usual(CheckDuplicateTypes(m))
    BY UsualHeader, UsualImports, UsualDuplicates
<1> DEFINE hs == CheckHeader(m) \cup CheckImports(m)
           ds == CheckDuplicateTypes(m) \cup (UNION es)
           is == u1 \cup (UNION ms)
           us == u2 \cup u3
<1>8. Only(u, "machine-under-machine")
    <2>1. Usual(hs) /\ Usual(ds) /\ Usual(is)
        BY <1>1, <1>5, <1>7, UsualBoth
    <2>2. Only(us, "machine-under-machine")
        BY <1>2, <1>3, OnlyUsual, OnlyBoth
    <2> HIDE DEF hs, ds, is, us
    <2>3. Usual(hs \cup ds)
        BY <2>1, UsualBoth
    <2>4. Usual((hs \cup ds) \cup is)
        BY <2>1, <2>3, UsualBoth
    <2>5. Only(((hs \cup ds) \cup is) \cup us, "machine-under-machine")
        BY <2>2, <2>4, OnlyUsual, OnlyBoth
    <2>6. u = ((hs \cup ds) \cup is) \cup us
        BY Zenon DEF hs, ds, is, us
    <2> QED BY <2>5, <2>6
<1>9. Validate(m) = u \cup BaseCycles(m) \cup NestingCycles(m) \cup NodeCycles(m)
    <2>1. ps = u3 \cup NodeCycles(m)
        BY <1>3 DEF ps
    <2>2. \A d : d \in Validate(m) <=> d \in u \cup BaseCycles(m) \cup NestingCycles(m) \cup NodeCycles(m)
        BY <1>1, <1>2, <1>6, <2>1, Zenon
    <2> QED BY <2>2
<1> QED BY <1>8, <1>9

(* The names that are blamed for a cycle.                                     *)
LEMMA BlamedIs == ASSUME NEW m
    PROVE  /\ Blamed(Validate(m), "inheritance-cycle") = {} <=> BasesCyclic(m) = {}
           /\ Blamed(Validate(m), "instance-cycle") = {inst.name : inst \in NestingCyclic(m)}
           /\ Blamed(Validate(m), "perspective-node-cycle") = {p.name : p \in NodesCyclic(m)}
<1>1. PICK u : /\ Only(u, "machine-under-machine")
               /\ Validate(m) = u \cup BaseCycles(m) \cup NestingCycles(m) \cup NodeCycles(m)
    BY ValidateSays
<1>2. \A d \in u : d[1] \notin {"inheritance-cycle", "instance-cycle", "perspective-node-cycle"}
    BY <1>1 DEF Only, OwnCodes
<1>3. {x \in Validate(m) : x[1] = "inheritance-cycle"} = BaseCycles(m)
    BY <1>1, <1>2 DEF BaseCycles, NestingCycles, NodeCycles
<1>4. {x \in Validate(m) : x[1] = "instance-cycle"} = NestingCycles(m)
    BY <1>1, <1>2 DEF BaseCycles, NestingCycles, NodeCycles
<1>5. {x \in Validate(m) : x[1] = "perspective-node-cycle"} = NodeCycles(m)
    BY <1>1, <1>2 DEF BaseCycles, NestingCycles, NodeCycles
<1>6. Blamed(Validate(m), "inheritance-cycle") = {d[2][1] : d \in BaseCycles(m)}
    BY <1>3 DEF Blamed
<1>7. Blamed(Validate(m), "instance-cycle") = {d[2][1] : d \in NestingCycles(m)}
    BY <1>4 DEF Blamed
<1>8. Blamed(Validate(m), "perspective-node-cycle") = {d[2][1] : d \in NodeCycles(m)}
    BY <1>5 DEF Blamed
<1>9. {d[2][1] : d \in BaseCycles(m)} = {} <=> BasesCyclic(m) = {}
    BY DEF BaseCycles
<1>a. \A c, x : <<c, <<x.name>>>>[2][1] = x.name
    OBVIOUS
<1>10. {d[2][1] : d \in NestingCycles(m)} = {inst.name : inst \in NestingCyclic(m)}
    <2> DEFINE c == "instance-cycle"
               f(x) == <<c, <<x.name>>>>
    <2>1. \A x : f(x)[2][1] = x.name
        BY <1>a
    <2>2. NestingCycles(m) = {f(x) : x \in NestingCyclic(m)}
        BY DEF NestingCycles
    <2> HIDE DEF f
    <2> QED BY <2>1, <2>2
<1>11. {d[2][1] : d \in NodeCycles(m)} = {p.name : p \in NodesCyclic(m)}
    <2> DEFINE c == "perspective-node-cycle"
               f(x) == <<c, <<x.name>>>>
    <2>1. \A x : f(x)[2][1] = x.name
        BY <1>a
    <2>2. NodeCycles(m) = {f(x) : x \in NodesCyclic(m)}
        BY DEF NodeCycles
    <2> HIDE DEF f
    <2> QED BY <2>1, <2>2
<1> QED BY <1>6, <1>7, <1>8, <1>9, <1>10, <1>11

-------------------------------------------------------------------------------
(* Chains of bases and of nesting instances.                                  *)
(* A walk loops from exactly the names that a chain without end passes        *)
(* through.                                                                   *)

LEMMA NamesFinite == ASSUME NEW S, NEW s \in Seq(S) PROVE IsFiniteSet(Names(s)) /\ IsFiniteSet(ToSet(s))
<1>1. IsFiniteSet(DOMAIN s)
    <2>1. DOMAIN s = 1..Len(s) /\ Len(s) \in Nat
        OBVIOUS
    <2> QED BY <2>1, FS_Interval
<1>2. \A i \in DOMAIN s : s[i] \in ToSet(s) /\ s[i].name \in Names(s)
    BY DEF ToSet, Names
<1>3. IsFiniteSet(Names(s))
    <2> DEFINE f == [i \in DOMAIN s |-> s[i].name]
    <2>1. f \in Surjection(DOMAIN s, Names(s))
        BY <1>2 DEF Surjection, Names
    <2> QED BY <1>1, <2>1, FS_Surjection
<1>4. IsFiniteSet(ToSet(s))
    <2> DEFINE f == [i \in DOMAIN s |-> s[i]]
    <2>1. f \in Surjection(DOMAIN s, ToSet(s))
        BY <1>2 DEF Surjection, ToSet
    <2> QED BY <1>1, <2>1, FS_Surjection
<1> QED BY <1>3, <1>4

(* A partial function that leads where a function to sets does.               *)
Leads(up, next) ==
    /\ \A x \in DOMAIN up : x \in DOMAIN next /\ up[x] \in DOMAIN next
    /\ \A x, y \in DOMAIN next : y \in next[x] <=> x \in DOMAIN up /\ up[x] = y

LEMMA UpToLast == ASSUME NEW n \in Nat, NEW i \in 1..n PROVE i < n \/ i = n
    OBVIOUS

LEMMA EndlessIff ==
    ASSUME NEW up, NEW next, IsFiniteSet(DOMAIN up), Leads(up, next), NEW x \in DOMAIN next
    PROVE  x \in Endless(next) <=> Loops(up, x)
<1> DEFINE w == Walk(up, x)
<1>1. w \in Seq(Places(up, x)) /\ IsPath(up, x, w) /\ Ends(up, w)
    BY WalkIs
<1>2. Len(w) \in Nat /\ Len(w) > 0 /\ DOMAIN w = 1..Len(w) /\ Last(w) = w[Len(w)] /\ w[1] = x
    BY <1>1 DEF IsPath, Last
<1>3. Loops(up, x) <=> w[Len(w)] \in DOMAIN up
    BY <1>2 DEF Loops
<1> HIDE DEF w
<1>4. ASSUME w[Len(w)] \in DOMAIN up PROVE x \in Endless(next)
    <2> DEFINE T == {w[i] : i \in 1..Len(w)}
    <2>1. x \in T
        BY <1>2
    <2>2. ASSUME NEW i \in 1..Len(w) PROVE w[i] \in DOMAIN up /\ up[w[i]] \in T
        <3>1. CASE i < Len(w)
            <4>1. i \in 1..Len(w) - 1 /\ i + 1 \in 1..Len(w)
                BY <1>2, <3>1
            <4>2. w[i] \in DOMAIN up /\ up[w[i]] = w[i + 1]
                BY <1>1, <4>1 DEF IsPath
            <4>3. w[i + 1] \in T
                BY <4>1
            <4> QED BY <4>2, <4>3
        <3>2. CASE i = Len(w)
            <4>1. Contains(w, up[w[i]])
                BY <1>1, <1>2, <1>4, <3>2 DEF Ends
            <4>2. PICK j \in 1..Len(w) : w[j] = up[w[i]]
                BY <4>1 DEF Contains
            <4>3. w[j] \in T
                OBVIOUS
            <4>4. w[i] = w[Len(w)]
                BY <3>2
            <4> HIDE DEF T
            <4> QED BY <1>4, <4>2, <4>3, <4>4
        <3>0. Len(w) \in Nat
            BY <1>2
        <3>3. i < Len(w) \/ i = Len(w)
            BY <3>0, UpToLast
        <3> QED BY <3>1, <3>2, <3>3, Zenon
    <2>3. \A y \in T : y \in DOMAIN next /\ next[y] \cap T # {}
        <3> TAKE y \in T
        <3>1. y \in DOMAIN up /\ up[y] \in T
            BY <2>2
        <3> HIDE DEF T
        <3> QED BY <3>1 DEF Leads
    <2> HIDE DEF T
    <2>4. T \in SUBSET DOMAIN next
        BY <2>3
    <2> QED BY <2>1, <2>3, <2>4 DEF Endless
<1>5. ASSUME x \in Endless(next) PROVE w[Len(w)] \in DOMAIN up
    <2>1. PICK T \in SUBSET DOMAIN next : x \in T /\ \A y \in T : next[y] \cap T # {}
        BY <1>5 DEF Endless
    <2>2. \A y \in T : y \in DOMAIN up /\ up[y] \in T
        BY <2>1 DEF Leads
    <2> DEFINE I == {k \in Nat : k + 1 <= Len(w) => w[k + 1] \in T}
    <2>3. 0 \in I
        BY <1>2, <2>1
    <2>4. ASSUME NEW k \in Nat, k \in I PROVE k + 1 \in I
        <3> SUFFICES ASSUME (k + 1) + 1 <= Len(w) PROVE w[(k + 1) + 1] \in T
            OBVIOUS
        <3>1. k + 1 \in 1..Len(w) - 1 /\ w[k + 1] \in T
            BY <1>2, <2>4
        <3>2. w[(k + 1) + 1] = up[w[k + 1]]
            BY <1>1, <3>1 DEF IsPath
        <3> QED BY <2>2, <3>1, <3>2
    <2> HIDE DEF I
    <2>5. Nat \subseteq I
        BY <2>3, <2>4, Induction
    <2>6. Len(w) - 1 \in I /\ (Len(w) - 1) + 1 = Len(w)
        BY <1>2, <2>5
    <2>7. w[Len(w)] \in T
        BY <1>2, <2>6 DEF I
    <2> QED BY <2>2, <2>7
<1> QED BY <1>3, <1>4, <1>5

(* Where no name comes twice, the walk from a declaration is that of its name. *)
LEMMA BasesUnique ==
    ASSUME NEW m \in Models, Repeated(m.types) = {}, NEW ot \in ToSet(m.types)
    PROVE  BasesFrom(m, ot) = Bases(m)
<1>1. m.types \in Seq(Types)
    BY DEF Models
<1>2. FirstNamed(m.types, ot.name) = ot /\ ot.name \in Names(m.types)
    BY <1>1, UniqueNamed, NamesOf
<1>3. ot.name \in DOMAIN Bases(m) <=> HasLocalBase(m, ot)
    BY <1>2 DEF Bases
<1>4. HasLocalBase(m, ot) => Bases(m)[ot.name] = ot.base.name
    BY <1>2 DEF Bases
<1> DEFINE f == Bases(m)
           D == (DOMAIN f \ {ot.name}) \cup (IF HasLocalBase(m, ot) THEN {ot.name} ELSE {})
<1>5. f = [t \in DOMAIN f |-> f[t]]
    BY DEF Bases
<1>6. BasesFrom(m, ot) = [t \in D |-> IF t = ot.name THEN ot.base.name ELSE f[t]]
    BY DEF BasesFrom
<1> HIDE DEF f
<1>7. D = DOMAIN f
    BY <1>3 DEF f
<1> HIDE DEF D
<1>8. \A t \in D : (IF t = ot.name THEN ot.base.name ELSE f[t]) = f[t]
    BY <1>3, <1>4, <1>7 DEF f
<1>9. BasesFrom(m, ot) = f
    BY <1>5, <1>6, <1>7, <1>8
<1> QED BY <1>9 DEF f

LEMMA ParentsUnique ==
    ASSUME NEW m \in Models, Repeated(m.instances) = {}, NEW inst \in ToSet(m.instances)
    PROVE  ParentsFrom(m, inst) = Parents(m)
<1>1. m.instances \in Seq(Instances)
    BY DEF Models
<1>2. LastNamed(m.instances, inst.name) = inst /\ inst.name \in Names(m.instances)
    BY <1>1, UniqueNamed, NamesOf
<1>3. inst.name \in DOMAIN Parents(m) <=> HasParent(m, inst)
    BY <1>2 DEF Parents
<1>4. HasParent(m, inst) => Parents(m)[inst.name] = inst.under.name
    BY <1>2 DEF Parents
<1> DEFINE f == Parents(m)
           D == (DOMAIN f \ {inst.name}) \cup (IF HasParent(m, inst) THEN {inst.name} ELSE {})
<1>5. f = [t \in DOMAIN f |-> f[t]]
    BY DEF Parents
<1>6. ParentsFrom(m, inst) = [t \in D |-> IF t = inst.name THEN inst.under.name ELSE f[t]]
    BY DEF ParentsFrom
<1> HIDE DEF f
<1>7. D = DOMAIN f
    BY <1>3 DEF f
<1> HIDE DEF D
<1>8. \A t \in D : (IF t = inst.name THEN inst.under.name ELSE f[t]) = f[t]
    BY <1>3, <1>4, <1>7 DEF f
<1>9. ParentsFrom(m, inst) = f
    BY <1>5, <1>6, <1>7, <1>8
<1> QED BY <1>9 DEF f

-------------------------------------------------------------------------------
LEMMA KindIs ==
    ASSUME NEW m, NEW ref
    PROVE  Kind(m, ref) = "local"
           <=> ref.alias = "" /\ ref.name \notin Builtin /\ ref.name \in Names(m.enums) \cup Names(m.types)
<1> DEFINE uri == IF ref.alias # "" /\ ImportKnown(m, ref.alias) THEN ImportURI(m, ref.alias) ELSE ""
<1>1. Kind(m, ref) = Resolved(m, ref, uri).kind
    BY DEF Kind, ResolveType
<1> HIDE DEF uri
<1>2. CASE ref.alias = "" /\ ref.name \in Builtin
    BY <1>1, <1>2 DEF Resolved
<1>3. CASE ref.alias = "" /\ ref.name \notin Builtin
    BY <1>1, <1>3 DEF Resolved
<1>4. CASE ref.alias # "" /\ ~ImportKnown(m, ref.alias)
    BY <1>1, <1>4 DEF Resolved
<1>5. CASE ref.alias # "" /\ ImportKnown(m, ref.alias)
    BY <1>1, <1>5 DEF Resolved
<1> QED BY <1>2, <1>3, <1>4, <1>5

LEMMA EndlessWithin == ASSUME NEW next PROVE Endless(next) \subseteq DOMAIN next
    BY DEF Endless

LEMMA LocalNameIs == ASSUME NEW ref, NEW y PROVE y \in LocalName(ref) <=> ref.alias = "" /\ y = ref.name
    BY DEF LocalName

LEMMA BasesJudged == ASSUME NEW m \in Models PROVE BasesSaid(m, Validate(m))
<1> SUFFICES ASSUME Repeated(m.types) = {}
             PROVE  Blamed(Validate(m), "inheritance-cycle") = {}
                    <=> Endless([t \in Names(m.types) |-> LocalName(FirstNamed(m.types, t).base) \ Builtin]) = {}
    BY DEF BasesSaid
<1> DEFINE up == Bases(m)
           N == Names(m.types)
           next == [t \in N |-> LocalName(FirstNamed(m.types, t).base) \ Builtin]
<1>1. m.types \in Seq(Types)
    BY DEF Models
<1>2. \A ot : HasLocalBase(m, ot)
              <=> ot.base.alias = "" /\ ot.base.name \notin Builtin /\ ot.base.name \in N
    BY KindIs DEF HasLocalBase
<1>3. /\ DOMAIN up = {t \in N : HasLocalBase(m, FirstNamed(m.types, t))}
      /\ \A t \in DOMAIN up : up[t] = FirstNamed(m.types, t).base.name
    BY DEF Bases
<1>4. /\ DOMAIN next = N
      /\ \A t \in N : next[t] = LocalName(FirstNamed(m.types, t).base) \ Builtin
    OBVIOUS
<1> HIDE DEF up, next, N
<1>5. Leads(up, next)
    <2>1. \A x \in DOMAIN up : x \in DOMAIN next /\ up[x] \in DOMAIN next
        BY <1>2, <1>3, <1>4
    <2>2. ASSUME NEW x \in N, NEW y \in N PROVE y \in next[x] <=> x \in DOMAIN up /\ up[x] = y
        <3> DEFINE ref == FirstNamed(m.types, x).base
        <3>1. y \in next[x] <=> ref.alias = "" /\ y = ref.name /\ y \notin Builtin
            <4>1. next[x] = LocalName(ref) \ Builtin
                BY <1>4
            <4> HIDE DEF ref
            <4> QED BY <4>1, LocalNameIs
        <3>2. x \in DOMAIN up <=> ref.alias = "" /\ ref.name \notin Builtin /\ ref.name \in N
            BY <1>2, <1>3
        <3>3. x \in DOMAIN up => up[x] = ref.name
            BY <1>3
        <3> HIDE DEF ref
        <3> QED BY <3>1, <3>2, <3>3
    <2> QED BY <1>4, <2>1, <2>2 DEF Leads
<1>6. IsFiniteSet(DOMAIN up)
    <2>1. IsFiniteSet(N)
        BY <1>1, NamesFinite DEF N
    <2> QED BY <1>3, <2>1, FS_Subset
<1>7. \A x \in N : x \in Endless(next) <=> Loops(up, x)
    BY <1>4, <1>5, <1>6, EndlessIff
<1>8. \A ot \in ToSet(m.types) : BasesFrom(m, ot) = up /\ ot.name \in N
    BY <1>1, BasesUnique, NamesOf DEF up, N
<1>9. \A t \in N : \E ot \in ToSet(m.types) : ot.name = t
    BY <1>1, NamesOf DEF N
<1>10. BasesCyclic(m) = {} <=> Endless(next) = {}
    <2>1. BasesCyclic(m) = {} <=> \A ot \in ToSet(m.types) : ~Loops(up, ot.name)
        BY <1>8 DEF BasesCyclic
    <2>2. Endless(next) = {} <=> \A x \in N : x \notin Endless(next)
        BY <1>4, EndlessWithin
    <2> QED BY <1>7, <1>8, <1>9, <2>1, <2>2
<1>11. Blamed(Validate(m), "inheritance-cycle") = {} <=> Endless(next) = {}
    BY <1>10, BlamedIs
<1> QED BY <1>11 DEF next, N

LEMMA NestingJudged == ASSUME NEW m \in Models PROVE NestingSaid(m, Validate(m))
<1> SUFFICES ASSUME Repeated(m.instances) = {}
             PROVE  Blamed(Validate(m), "instance-cycle")
                    = Endless([n \in Names(m.instances) |-> LocalName(FirstNamed(m.instances, n).under)])
    BY DEF NestingSaid
<1> DEFINE up == Parents(m)
           N == Names(m.instances)
           next == [n \in N |-> LocalName(FirstNamed(m.instances, n).under)]
<1>1. m.instances \in Seq(Instances)
    BY DEF Models
<1>2. \A n \in N : LastNamed(m.instances, n) = FirstNamed(m.instances, n)
    BY <1>1, UniqueNamed
<1>3. /\ DOMAIN up = {n \in N : HasParent(m, LastNamed(m.instances, n))}
      /\ \A n \in DOMAIN up : up[n] = LastNamed(m.instances, n).under.name
    BY DEF Parents
<1>4. /\ DOMAIN next = N
      /\ \A n \in N : next[n] = LocalName(FirstNamed(m.instances, n).under)
    OBVIOUS
<1>h. \A inst : HasParent(m, inst) <=> inst.under.alias = "" /\ inst.under.name \in N
    BY DEF HasParent
<1> HIDE DEF up, next, N
<1>5. Leads(up, next)
    <2>1. \A x \in DOMAIN up : x \in DOMAIN next /\ up[x] \in DOMAIN next
        BY <1>h, <1>3, <1>4
    <2>2. ASSUME NEW x \in N, NEW y \in N PROVE y \in next[x] <=> x \in DOMAIN up /\ up[x] = y
        <3> DEFINE ref == LastNamed(m.instances, x).under
        <3>1. y \in next[x] <=> ref.alias = "" /\ y = ref.name
            <4>1. next[x] = LocalName(ref)
                BY <1>2, <1>4
            <4> HIDE DEF ref
            <4> QED BY <4>1, LocalNameIs
        <3>2. x \in DOMAIN up <=> ref.alias = "" /\ ref.name \in N
            BY <1>h, <1>3
        <3>3. x \in DOMAIN up => up[x] = ref.name
            BY <1>3
        <3> HIDE DEF ref
        <3> QED BY <3>1, <3>2, <3>3
    <2> QED BY <1>4, <2>1, <2>2 DEF Leads
<1>6. IsFiniteSet(DOMAIN up)
    <2>1. IsFiniteSet(N)
        BY <1>1, NamesFinite DEF N
    <2> QED BY <1>3, <2>1, FS_Subset
<1>7. \A x \in N : x \in Endless(next) <=> Loops(up, x)
    BY <1>4, <1>5, <1>6, EndlessIff
<1>8. \A inst \in ToSet(m.instances) : ParentsFrom(m, inst) = up /\ inst.name \in N
    BY <1>1, ParentsUnique, NamesOf DEF up, N
<1>9. \A n \in N : \E inst \in ToSet(m.instances) : inst.name = n
    BY <1>1, NamesOf DEF N
<1>10. {inst.name : inst \in NestingCyclic(m)} = Endless(next)
    <2>1. NestingCyclic(m) = {inst \in ToSet(m.instances) : Loops(up, inst.name)}
        BY <1>8 DEF NestingCyclic
    <2>2. Endless(next) \subseteq N
        BY <1>4, EndlessWithin
    <2> QED BY <1>7, <1>8, <1>9, <2>1, <2>2
<1>11. Blamed(Validate(m), "instance-cycle") = Endless(next)
    BY <1>10, BlamedIs
<1> QED BY <1>11 DEF next, N

-------------------------------------------------------------------------------
(* The search for cycles in a perspective.                                    *)
(* The colours and the stack of the depth-first search: what is done with has no*)
(* endless way on, and what is open lies on the way to the node in hand.      *)

(* The search for cycles in a perspective.                                    *)
NodeGraphs ==
    [name : STRING, membership : STRING, export : BOOLEAN, symbolic : BOOLEAN,
     nodes : Seq([name : STRING, children : Seq(STRING), members : Seq(STRING)])]
Kids(p, n) == LastNamed(p.nodes, n).children
Leading(p) == [n \in Names(p.nodes) |-> ToSet(Kids(p, n))]
Entries(p) == [name : Names(p.nodes), children : Seq(STRING)]
Colors(p) == [Names(p.nodes) -> 0..2]
Searches(p) == [color : Colors(p), stack : Seq(Entries(p)), found : BOOLEAN]

OpenNodes(p, C, K) ==
    /\ \A n \in Names(p.nodes) : C[n] = 1 <=> \E i \in 1..Len(K) : K[i].name = n
    /\ \A i, j \in 1..Len(K) : K[i].name = K[j].name => i = j
StillToSee(p, K) ==
    \A i \in 1..Len(K) : /\ ToSet(K[i].children) \subseteq ToSet(Kids(p, K[i].name))
                         /\ Len(K[i].children) <= Len(Kids(p, K[i].name))
Seen(p, C, K) ==
    \A i \in 1..Len(K) : \A c \in ToSet(Kids(p, K[i].name)) \cap Names(p.nodes) :
        c \in ToSet(K[i].children) \/ C[c] = 2 \/ (i < Len(K) /\ K[i + 1].name = c)
Done(p, C) ==
    \A n \in Names(p.nodes) : C[n] = 2 => \A c \in ToSet(Kids(p, n)) \cap Names(p.nodes) : C[c] = 2
Descent(p, K) == \A i \in 1..Len(K) - 1 : K[i + 1].name \in ToSet(Kids(p, K[i].name))
NoneEndless(p, C) ==
    \A T \in SUBSET Names(p.nodes) :
        (\A x \in T : C[x] = 2 /\ ToSet(Kids(p, x)) \cap T # {}) => T = {}
Good(p, C, K) ==
    /\ OpenNodes(p, C, K) /\ StillToSee(p, K) /\ Seen(p, C, K) /\ Done(p, C)
    /\ Descent(p, K) /\ NoneEndless(p, C)

LEMMA KidsIs == ASSUME NEW p \in NodeGraphs, NEW n \in Names(p.nodes) PROVE Kids(p, n) \in Seq(STRING)
<1> DEFINE S == [name : STRING, children : Seq(STRING), members : Seq(STRING)]
<1>1. p.nodes \in Seq(S)
    BY DEF NodeGraphs
<1>2. LastNamed(p.nodes, n) \in S
    <2> HIDE DEF S
    <2> QED BY <1>1, Named
<1> QED BY <1>2 DEF Kids

LEMMA FrontIs ==
    ASSUME NEW S, NEW s \in Seq(S), s # <<>>
    PROVE  /\ Len(s) \in Nat /\ Len(s) > 0 /\ Front(s) \in Seq(S) /\ Len(Front(s)) = Len(s) - 1
           /\ \A i \in 1..Len(s) - 1 : Front(s)[i] = s[i]
<1>1. Len(s) \in Nat /\ Len(s) > 0
    OBVIOUS
<1>2. Len(s) - 1 \in Nat /\ Len(s) - 1 <= Len(s)
    BY <1>1
<1>3. \A i \in 1..Len(s) - 1 : s[i] \in S
    BY <1>1
<1>4. SubSeq(s, 1, Len(s) - 1) = [i \in 1..Len(s) - 1 |-> s[i]]
    BY <1>1, <1>2
<1> DEFINE n == Len(s) - 1
           f == [i \in 1..n |-> s[i]]
<1>5. Front(s) = f
    BY <1>4 DEF Front
<1> HIDE DEF n
<1>6. f \in Seq(S) /\ Len(f) = n /\ \A i \in 1..n : f[i] = s[i]
    BY <1>2, <1>3 DEF n
<1> HIDE DEF f
<1> QED BY <1>1, <1>5, <1>6 DEF n

LEMMA TailIs ==
    ASSUME NEW S, NEW s \in Seq(S), s # <<>>
    PROVE  /\ Tail(s) \in Seq(S) /\ Len(Tail(s)) = Len(s) - 1 /\ Len(Tail(s)) <= Len(s)
           /\ ToSet(Tail(s)) \subseteq ToSet(s) /\ Head(s) \in ToSet(s)
           /\ ToSet(s) = {Head(s)} \cup ToSet(Tail(s))
<1> DEFINE t == Tail(s)
<1>2. /\ Len(s) \in Nat /\ Len(s) > 0 /\ Len(t) = Len(s) - 1 /\ t \in Seq(S)
      /\ DOMAIN s = 1..Len(s) /\ DOMAIN t = 1..Len(t)
    OBVIOUS
<1>3. /\ \A i \in 1..Len(t) : t[i] = s[i + 1]
      /\ Head(s) = s[1]
    BY <1>2
<1> HIDE DEF t
<1>4. ToSet(t) \subseteq ToSet(s)
    <2> SUFFICES ASSUME NEW i \in 1..Len(t) PROVE \E j \in 1..Len(s) : s[j] = t[i]
        BY <1>2 DEF ToSet
    <2>1. i + 1 \in 1..Len(s) /\ t[i] = s[i + 1]
        BY <1>2, <1>3
    <2> QED BY <2>1
<1>5. Head(s) \in ToSet(s)
    BY <1>2, <1>3 DEF ToSet
<1>6. ASSUME NEW i \in 1..Len(s) PROVE s[i] \in {Head(s)} \cup ToSet(t)
    <2>1. CASE i = 1
        BY <1>3, <2>1
    <2>2. CASE i # 1
        <3>1. i - 1 \in 1..Len(t) /\ (i - 1) + 1 = i
            BY <1>2, <2>2
        <3>2. t[i - 1] = s[i]
            BY <1>3, <3>1
        <3> QED BY <1>2, <3>1, <3>2 DEF ToSet
    <2> QED BY <2>1, <2>2
<1>7. ToSet(s) \subseteq {Head(s)} \cup ToSet(t)
    BY <1>2, <1>6 DEF ToSet
<1> QED BY <1>2, <1>4, <1>5, <1>7 DEF t

LEMMA EntriesAre ==
    ASSUME NEW p, NEW K \in Seq(Entries(p))
    PROVE  \A i \in 1..Len(K) : /\ K[i] \in Entries(p) /\ K[i].name \in Names(p.nodes)
                                /\ K[i].children \in Seq(STRING)
<1> SUFFICES ASSUME NEW i \in 1..Len(K)
             PROVE  /\ K[i] \in Entries(p) /\ K[i].name \in Names(p.nodes) /\ K[i].children \in Seq(STRING)
    OBVIOUS
<1> DEFINE x == K[i]
<1>1. x \in Entries(p)
    OBVIOUS
<1> HIDE DEF x
<1>2. x.name \in Names(p.nodes) /\ x.children \in Seq(STRING)
    BY <1>1 DEF Entries
<1> QED BY <1>1, <1>2 DEF x

(* How the search begins, and each of its steps.                              *)
LEMMA GoodStart == ASSUME NEW p, NEW C, NEW K, K = <<>>, \A n \in Names(p.nodes) : C[n] = 0 PROVE Good(p, C, K)
<1>1. Len(K) = 0 /\ 1..Len(K) = {} /\ 1..Len(K) - 1 = {}
    OBVIOUS
<1>2. OpenNodes(p, C, K) /\ StillToSee(p, K) /\ Seen(p, C, K) /\ Descent(p, K)
    BY <1>1 DEF OpenNodes, StillToSee, Seen, Descent
<1>3. Done(p, C)
    BY DEF Done
<1>4. NoneEndless(p, C)
    BY DEF NoneEndless
<1> QED BY <1>2, <1>3, <1>4 DEF Good

LEMMA GoodRoot ==
    ASSUME NEW p \in NodeGraphs, NEW C \in Colors(p), NEW n \in Names(p.nodes), Good(p, C, <<>>), C[n] = 0,
           NEW D, D = [C EXCEPT ![n] = 1],
           NEW K, K = <<[name |-> n, children |-> Kids(p, n)]>>
    PROVE  Good(p, D, K)
<1>1. Len(K) = 1 /\ 1..Len(K) = {1} /\ 1..Len(K) - 1 = {} /\ K[1].name = n /\ K[1].children = Kids(p, n)
    OBVIOUS
<1>2. /\ \A x \in Names(p.nodes) : D[x] = IF x = n THEN 1 ELSE C[x]
      /\ \A x \in Names(p.nodes) : D[x] = 2 <=> C[x] = 2
    BY DEF Colors
<1>3. \A x \in Names(p.nodes) : C[x] # 1
    BY DEF Good, OpenNodes
<1>4. OpenNodes(p, D, K)
    BY <1>1, <1>2, <1>3 DEF OpenNodes
<1>5. StillToSee(p, K)
    <2>1. Len(Kids(p, n)) <= Len(Kids(p, n))
        BY KidsIs
    <2> QED BY <1>1, <2>1 DEF StillToSee
<1>6. Seen(p, D, K) /\ Descent(p, K)
    BY <1>1 DEF Seen, Descent
<1>7. Done(p, D) /\ NoneEndless(p, D)
    BY <1>2 DEF Good, Done, NoneEndless
<1> QED BY <1>4, <1>5, <1>6, <1>7 DEF Good

(* A node whose children have all been seen.                                  *)
LEMMA GoodClose ==
    ASSUME NEW p \in NodeGraphs, NEW C \in Colors(p), NEW K \in Seq(Entries(p)), Good(p, C, K),
           K # <<>>, K[Len(K)].children = <<>>,
           NEW D, D = [C EXCEPT ![K[Len(K)].name] = 2],
           NEW J, J = Front(K)
    PROVE  Good(p, D, J)
<1> DEFINE L == Len(K)
           n == K[L].name
           N == Names(p.nodes)
<1>1. L \in Nat /\ L > 0 /\ Len(J) = L - 1 /\ \A i \in 1..L - 1 : J[i] = K[i]
    BY FrontIs
<1>2. n \in N /\ \A i \in 1..L : K[i] \in Entries(p) /\ K[i].name \in N
    BY <1>1, EntriesAre
<1>3. \A x \in N : D[x] = IF x = n THEN 2 ELSE C[x]
    BY DEF Colors
<1>4. /\ \A x \in N : C[x] = 1 <=> \E i \in 1..L : K[i].name = x
      /\ \A i, j \in 1..L : K[i].name = K[j].name => i = j
    BY DEF Good, OpenNodes
<1>5. \A c \in ToSet(Kids(p, n)) \cap N : C[c] = 2
    <2>1. \A i \in 1..L : \A c \in ToSet(Kids(p, K[i].name)) \cap N :
              c \in ToSet(K[i].children) \/ C[c] = 2 \/ (i < L /\ K[i + 1].name = c)
        BY DEF Good, Seen
    <2>2. L \in 1..L /\ ~(L < L)
        BY <1>1
    <2>3. ToSet(K[L].children) = {}
        BY DEF ToSet
    <2> QED BY <2>1, <2>2, <2>3
<1>c. C[n] = 1
    BY <1>1, <1>2, <1>4
<1> HIDE DEF L, n, N
<1>6. OpenNodes(p, D, J)
    <2>1. \A i, j \in 1..Len(J) : J[i].name = J[j].name => i = j
        BY <1>1, <1>4
    <2>2. ASSUME NEW x \in N PROVE D[x] = 1 <=> \E i \in 1..Len(J) : J[i].name = x
        <3>1. \A i \in 1..Len(J) : J[i].name = x => C[x] = 1 /\ x # n
            <4> SUFFICES ASSUME NEW i \in 1..Len(J), J[i].name = x PROVE C[x] = 1 /\ x # n
                OBVIOUS
            <4>1. i \in 1..L /\ L \in 1..L /\ i # L /\ J[i] = K[i]
                BY <1>1
            <4>2. K[i].name # K[L].name
                BY <1>4, <4>1
            <4> QED BY <1>4, <4>1, <4>2 DEF n
        <3>2. ASSUME C[x] = 1, x # n PROVE \E i \in 1..Len(J) : J[i].name = x
            <4>1. PICK i \in 1..L : K[i].name = x
                BY <1>4, <3>2
            <4>2. i # L
                BY <3>2, <4>1 DEF n
            <4>3. i \in 1..Len(J) /\ J[i] = K[i]
                BY <1>1, <4>2
            <4> QED BY <4>1, <4>3
        <3> QED BY <1>3, <3>1, <3>2
    <2> QED BY <2>1, <2>2 DEF OpenNodes, N
<1>7. StillToSee(p, J)
    <2> SUFFICES ASSUME NEW i \in 1..Len(J)
                 PROVE  /\ ToSet(J[i].children) \subseteq ToSet(Kids(p, J[i].name))
                        /\ Len(J[i].children) <= Len(Kids(p, J[i].name))
        BY DEF StillToSee
    <2>1. i \in 1..L /\ J[i] = K[i]
        BY <1>1
    <2> QED BY <2>1 DEF Good, StillToSee, L
<1>8. Seen(p, D, J)
    <2> SUFFICES ASSUME NEW i \in 1..Len(J), NEW c \in ToSet(Kids(p, J[i].name)) \cap N
                 PROVE  c \in ToSet(J[i].children) \/ D[c] = 2 \/ (i < Len(J) /\ J[i + 1].name = c)
        BY DEF Seen, N
    <2>1. i \in 1..L /\ i < L /\ J[i] = K[i]
        BY <1>1
    <2>2. c \in ToSet(K[i].children) \/ C[c] = 2 \/ (i < L /\ K[i + 1].name = c)
        BY <2>1 DEF Good, Seen, L, N
    <2>3. CASE C[c] = 2
        BY <1>3, <2>3
    <2>4. CASE i + 1 = L /\ K[i + 1].name = c
        BY <1>3, <2>4 DEF n
    <2>5. CASE i + 1 # L /\ K[i + 1].name = c
        <3>1. i < Len(J) /\ J[i + 1] = K[i + 1]
            BY <1>1, <2>1, <2>5
        <3> QED BY <2>5, <3>1
    <2> QED BY <2>1, <2>2, <2>3, <2>4, <2>5
<1>9. Done(p, D)
    <2> SUFFICES ASSUME NEW x \in N, D[x] = 2, NEW c \in ToSet(Kids(p, x)) \cap N PROVE D[c] = 2
        BY DEF Done, N
    <2>1. C[c] = 2
        <3>1. CASE x = n
            BY <1>5, <3>1
        <3>2. CASE x # n
            BY <1>3, <3>2 DEF Good, Done, N
        <3> QED BY <3>1, <3>2
    <2> QED BY <1>3, <2>1
<1>10. Descent(p, J)
    <2> SUFFICES ASSUME NEW i \in 1..Len(J) - 1 PROVE J[i + 1].name \in ToSet(Kids(p, J[i].name))
        BY DEF Descent
    <2>1. i \in 1..L - 1 /\ J[i] = K[i] /\ J[i + 1] = K[i + 1]
        BY <1>1
    <2> QED BY <2>1 DEF Good, Descent, L
<1>11. NoneEndless(p, D)
    <2> SUFFICES ASSUME NEW T \in SUBSET N, \A x \in T : D[x] = 2 /\ ToSet(Kids(p, x)) \cap T # {}
                 PROVE  T = {}
        BY DEF NoneEndless, N
    <2> DEFINE U == T \ {n}
    <2>1. \A x \in U : C[x] = 2
        BY <1>3
    <2>2. ASSUME NEW x \in T PROVE ToSet(Kids(p, x)) \cap U # {}
        <3>1. PICK c \in ToSet(Kids(p, x)) \cap T : TRUE
            OBVIOUS
        <3>2. C[c] = 2
            <4>1. CASE x = n
                BY <1>5, <3>1, <4>1
            <4>2. CASE x # n
                <5>1. C[x] = 2 /\ x \in N /\ c \in N
                    BY <2>1, <4>2
                <5> QED BY <5>1, <3>1 DEF Good, Done, N
            <4> QED BY <4>1, <4>2
        <3> QED BY <1>c, <3>1, <3>2
    <2>3. U \in SUBSET N
        OBVIOUS
    <2> HIDE DEF U
    <2>4. \A S \in SUBSET N : (\A x \in S : C[x] = 2 /\ ToSet(Kids(p, x)) \cap S # {}) => S = {}
        BY DEF Good, NoneEndless, N
    <2>5. U \subseteq T
        BY DEF U
    <2>6. U = {}
        BY <2>1, <2>2, <2>3, <2>4, <2>5
    <2> QED BY <2>2, <2>6
<1> QED BY <1>6, <1>7, <1>8, <1>9, <1>10, <1>11 DEF Good

LEMMA Replaced ==
    ASSUME NEW S, NEW s \in Seq(S), NEW i \in 1..Len(s), NEW e \in S
    PROVE  /\ [s EXCEPT ![i] = e] \in Seq(S) /\ Len([s EXCEPT ![i] = e]) = Len(s)
           /\ [s EXCEPT ![i] = e][i] = e
           /\ \A j \in 1..Len(s) : j # i => [s EXCEPT ![i] = e][j] = s[j]
    OBVIOUS

Drop(K) == [K EXCEPT ![Len(K)].children = Tail(@)]
(* The first child to look at leaves the list.                                *)
LEMMA Dropped ==
    ASSUME NEW p, NEW K \in Seq(Entries(p)), K # <<>>, K[Len(K)].children # <<>>,
           NEW J, J = Drop(K)
    PROVE  /\ J \in Seq(Entries(p)) /\ Len(J) = Len(K)
           /\ \A i \in 1..Len(K) : J[i].name = K[i].name
           /\ \A i \in 1..Len(K) : i # Len(K) => J[i] = K[i]
           /\ J[Len(K)].children = Tail(K[Len(K)].children)
<1> DEFINE L == Len(K)
           x == K[L]
           y == [x EXCEPT !.children = Tail(@)]
<1>1. L \in Nat /\ L > 0 /\ L \in 1..L
    OBVIOUS
<1>2. x \in Entries(p) /\ x.children \in Seq(STRING) /\ x.children # <<>>
    BY <1>1, EntriesAre
<1>3. J = [K EXCEPT ![L] = y]
    BY DEF Drop
<1> HIDE DEF x
<1>4. Tail(x.children) \in Seq(STRING)
    <2> DEFINE c == x.children
    <2>1. c \in Seq(STRING) /\ c # <<>>
        BY <1>2
    <2> HIDE DEF c
    <2>2. Tail(c) \in Seq(STRING)
        BY <2>1, TailIs
    <2> QED BY <2>2 DEF c
<1>5. y \in Entries(p) /\ y.name = x.name /\ y.children = Tail(x.children)
    BY <1>2, <1>4 DEF Entries
<1> HIDE DEF y
<1>6. J \in Seq(Entries(p)) /\ Len(J) = L /\ J[L] = y /\ \A i \in 1..L : i # L => J[i] = K[i]
    BY <1>1, <1>3, <1>5, Replaced
<1> QED BY <1>1, <1>5, <1>6 DEF x

(* A child that is no node, or is done with.                                  *)
LEMMA GoodSkip ==
    ASSUME NEW p \in NodeGraphs, NEW C \in Colors(p), NEW K \in Seq(Entries(p)), Good(p, C, K),
           K # <<>>, K[Len(K)].children # <<>>,
           Head(K[Len(K)].children) \in Names(p.nodes) => C[Head(K[Len(K)].children)] = 2,
           NEW J, J = Drop(K)
    PROVE  Good(p, C, J)
<1> DEFINE L == Len(K)
           N == Names(p.nodes)
           s == K[L].children
<1>1. L \in Nat /\ L > 0 /\ Len(J) = L /\ L \in 1..L
    BY Dropped
<1>2. \A i \in 1..L : K[i] \in Entries(p) /\ K[i].children \in Seq(STRING)
    BY EntriesAre
<1>3. /\ \A i \in 1..L : J[i].name = K[i].name
      /\ \A i \in 1..L : i # L => J[i] = K[i]
      /\ J[L].children = Tail(s)
    BY Dropped
<1>4. \A i \in 1..L : i # L => J[i] = K[i]
    BY <1>3
<1>5. J[L].children = Tail(s)
    BY <1>3
<1>6. s \in Seq(STRING) /\ Len(Tail(s)) <= Len(s) /\ ToSet(Tail(s)) \subseteq ToSet(s)
      /\ ToSet(s) = {Head(s)} \cup ToSet(Tail(s))
    <2>1. s \in Seq(STRING) /\ s # <<>>
        BY <1>1, <1>2
    <2> HIDE DEF s
    <2> QED BY <2>1, TailIs
<1> HIDE DEF L, N, s
<1>7. OpenNodes(p, C, J)
    <2>1. /\ \A x \in N : C[x] = 1 <=> \E i \in 1..L : K[i].name = x
          /\ \A i, j \in 1..L : K[i].name = K[j].name => i = j
        BY DEF Good, OpenNodes, L, N
    <2>2. \A x \in N : C[x] = 1 <=> \E i \in 1..L : J[i].name = x
        BY <1>3, <2>1
    <2>3. \A i, j \in 1..L : J[i].name = J[j].name => i = j
        BY <1>3, <2>1
    <2> QED BY <1>1, <2>2, <2>3 DEF OpenNodes, N
<1>8. StillToSee(p, J)
    <2> SUFFICES ASSUME NEW i \in 1..L
                 PROVE  /\ ToSet(J[i].children) \subseteq ToSet(Kids(p, J[i].name))
                        /\ Len(J[i].children) <= Len(Kids(p, J[i].name))
        BY <1>1 DEF StillToSee
    <2>1. /\ ToSet(K[i].children) \subseteq ToSet(Kids(p, K[i].name))
          /\ Len(K[i].children) <= Len(Kids(p, K[i].name))
        BY DEF Good, StillToSee, L
    <2>2. CASE i # L
        BY <1>4, <2>1, <2>2
    <2>3. CASE i = L
        <3>1. K[L].name \in Names(p.nodes)
            BY <1>1, <1>2 DEF Entries
        <3>2. Kids(p, K[L].name) \in Seq(STRING)
            BY <3>1, KidsIs
        <3>3. ToSet(s) \subseteq ToSet(Kids(p, K[L].name)) /\ Len(s) <= Len(Kids(p, K[L].name))
            BY <2>1, <2>3 DEF s
        <3>4. Len(s) \in Nat /\ Len(Tail(s)) \in Nat /\ Len(Kids(p, K[L].name)) \in Nat
            BY <1>6, <3>2
        <3>5. ToSet(Tail(s)) \subseteq ToSet(Kids(p, K[L].name)) /\ Len(Tail(s)) <= Len(Kids(p, K[L].name))
            BY <1>6, <3>3, <3>4
        <3> QED BY <1>1, <1>3, <1>5, <2>3, <3>5
    <2> QED BY <2>2, <2>3
<1>9. Seen(p, C, J)
    <2> SUFFICES ASSUME NEW i \in 1..L, NEW c \in ToSet(Kids(p, K[i].name)) \cap N
                 PROVE  c \in ToSet(J[i].children) \/ C[c] = 2 \/ (i < L /\ J[i + 1].name = c)
        BY <1>1, <1>3 DEF Seen, N
    <2>1. c \in ToSet(K[i].children) \/ C[c] = 2 \/ (i < L /\ K[i + 1].name = c)
        BY DEF Good, Seen, L, N
    <2>2. CASE i < L /\ K[i + 1].name = c
        BY <1>1, <1>3, <2>2
    <2>3. CASE c \in ToSet(K[i].children) /\ i # L
        BY <1>4, <2>3
    <2>4. CASE c \in ToSet(K[i].children) /\ i = L
        <3>1. c = Head(s) \/ c \in ToSet(Tail(s))
            BY <1>6, <2>4 DEF s
        <3>2. Head(s) \in N => C[Head(s)] = 2
            BY DEF s, L, N
        <3> QED BY <1>5, <2>4, <3>1, <3>2
    <2> QED BY <2>1, <2>2, <2>3, <2>4
<1>10. Descent(p, J)
    <2> SUFFICES ASSUME NEW i \in 1..L - 1 PROVE J[i + 1].name \in ToSet(Kids(p, J[i].name))
        BY <1>1 DEF Descent
    <2>1. i \in 1..L /\ i + 1 \in 1..L /\ K[i + 1].name \in ToSet(Kids(p, K[i].name))
        BY <1>1 DEF Good, Descent, L
    <2> QED BY <1>3, <2>1
<1> QED BY <1>7, <1>8, <1>9, <1>10 DEF Good

(* A child that is looked at for the first time.                              *)
LEMMA GoodOpen ==
    ASSUME NEW p \in NodeGraphs, NEW C \in Colors(p), NEW K \in Seq(Entries(p)), Good(p, C, K),
           K # <<>>, K[Len(K)].children # <<>>,
           NEW n \in Names(p.nodes), n = Head(K[Len(K)].children), C[n] = 0,
           NEW D, D = [C EXCEPT ![n] = 1],
           NEW I, I = Drop(K),
           NEW J, J = Append(I, [name |-> n, children |-> Kids(p, n)])
    PROVE  Good(p, D, J)
<1> DEFINE L == Len(K)
           N == Names(p.nodes)
           s == K[L].children
           e == [name |-> n, children |-> Kids(p, n)]
<1>1. L \in Nat /\ L > 0 /\ L \in 1..L /\ L + 1 \in 1..L + 1
    OBVIOUS
<1>2. \A i \in 1..L : K[i] \in Entries(p) /\ K[i].children \in Seq(STRING) /\ K[i].name \in N
    BY EntriesAre
<1>3. /\ I \in Seq(Entries(p)) /\ Len(I) = L
      /\ \A i \in 1..L : I[i].name = K[i].name
      /\ \A i \in 1..L : i # L => I[i] = K[i]
      /\ I[L].children = Tail(s)
    BY Dropped
<1>4. s \in Seq(STRING) /\ Len(Tail(s)) <= Len(s) /\ ToSet(Tail(s)) \subseteq ToSet(s)
      /\ ToSet(s) = {Head(s)} \cup ToSet(Tail(s)) /\ Head(s) \in ToSet(s)
    <2>1. s \in Seq(STRING) /\ s # <<>>
        BY <1>1, <1>2
    <2> HIDE DEF s
    <2> QED BY <2>1, TailIs
<1>5. e.name = n /\ e.children = Kids(p, n)
    OBVIOUS
<1>h. n = Head(s) /\ J = Append(I, e)
    OBVIOUS
<1> HIDE DEF L, N, s, e
<1>6. Len(J) = L + 1 /\ J[L + 1] = e /\ \A i \in 1..L : J[i] = I[i]
    BY <1>h, <1>1, <1>3
<1>7. /\ \A i \in 1..L : J[i].name = K[i].name /\ (i # L => J[i] = K[i])
      /\ J[L].children = Tail(s) /\ J[L + 1].name = n /\ J[L + 1].children = Kids(p, n)
    BY <1>1, <1>3, <1>5, <1>6
<1>8. /\ \A x \in N : D[x] = IF x = n THEN 1 ELSE C[x]
      /\ \A x \in N : D[x] = 2 <=> C[x] = 2
    BY DEF Colors, N
<1>9. \A i \in 1..Len(J) : i \in 1..L \/ i = L + 1
    BY <1>1, <1>6
<1>10. 1..L \subseteq 1..Len(J) /\ L + 1 \in 1..Len(J)
    BY <1>1, <1>6
<1>11. OpenNodes(p, D, J)
    <2>1. /\ \A x \in N : C[x] = 1 <=> \E i \in 1..L : K[i].name = x
          /\ \A i, j \in 1..L : K[i].name = K[j].name => i = j
        BY DEF Good, OpenNodes, L, N
    <2>2. \A i \in 1..L : K[i].name # n
        BY <2>1 DEF N
    <2>3. \A i, j \in 1..Len(J) : J[i].name = J[j].name => i = j
        BY <1>7, <1>9, <2>1, <2>2
    <2>4. ASSUME NEW x \in N PROVE D[x] = 1 <=> \E i \in 1..Len(J) : J[i].name = x
        <3>1. CASE x = n
            BY <1>7, <1>8, <1>10, <3>1
        <3>2. CASE x # n
            <4>1. D[x] = 1 <=> \E i \in 1..L : K[i].name = x
                BY <1>8, <2>1, <3>2
            <4>2. (\E i \in 1..Len(J) : J[i].name = x) <=> \E i \in 1..L : K[i].name = x
                <5>1. ASSUME NEW i \in 1..Len(J), J[i].name = x PROVE \E k \in 1..L : K[k].name = x
                    BY <1>7, <1>9, <3>2, <5>1
                <5>2. ASSUME NEW i \in 1..L, K[i].name = x PROVE \E k \in 1..Len(J) : J[k].name = x
                    BY <1>7, <1>10, <5>2
                <5> QED BY <5>1, <5>2
            <4> QED BY <4>1, <4>2
        <3> QED BY <3>1, <3>2
    <2> QED BY <2>3, <2>4 DEF OpenNodes, N
<1>12. StillToSee(p, J)
    <2> SUFFICES ASSUME NEW i \in 1..Len(J)
                 PROVE  /\ ToSet(J[i].children) \subseteq ToSet(Kids(p, J[i].name))
                        /\ Len(J[i].children) <= Len(Kids(p, J[i].name))
        BY DEF StillToSee
    <2>1. \A k \in 1..L : /\ ToSet(K[k].children) \subseteq ToSet(Kids(p, K[k].name))
                          /\ Len(K[k].children) <= Len(Kids(p, K[k].name))
        BY DEF Good, StillToSee, L
    <2>2. CASE i \in 1..L /\ i # L
        BY <1>7, <2>1, <2>2
    <2>3. CASE i = L
        <3>1. Kids(p, K[L].name) \in Seq(STRING)
            BY <1>1, <1>2, KidsIs DEF N
        <3>2. ToSet(s) \subseteq ToSet(Kids(p, K[L].name)) /\ Len(s) <= Len(Kids(p, K[L].name))
            BY <1>1, <2>1 DEF s
        <3>3. Len(s) \in Nat /\ Len(Tail(s)) <= Len(s) /\ Len(Kids(p, K[L].name)) \in Nat
            BY <1>4, <3>1
        <3>4. Len(Tail(s)) \in Int
            <4>1. s # <<>> 
                BY DEF s, L
            <4> QED BY <4>1, <1>4
        <3>5. ToSet(Tail(s)) \subseteq ToSet(Kids(p, K[L].name)) /\ Len(Tail(s)) <= Len(Kids(p, K[L].name))
            BY <1>4, <3>2, <3>3, <3>4
        <3> QED BY <1>1, <1>7, <2>3, <3>5
    <2>4. CASE i = L + 1
        <3>1. Kids(p, n) \in Seq(STRING)
            BY KidsIs DEF N
        <3>2. Len(Kids(p, n)) <= Len(Kids(p, n))
            BY <3>1
        <3> QED BY <1>7, <2>4, <3>2
    <2> QED BY <1>9, <2>2, <2>3, <2>4
<1>13. Seen(p, D, J)
    <2> SUFFICES ASSUME NEW i \in 1..Len(J), NEW c \in ToSet(Kids(p, J[i].name)) \cap N
                 PROVE  c \in ToSet(J[i].children) \/ D[c] = 2 \/ (i < Len(J) /\ J[i + 1].name = c)
        BY DEF Seen, N
    <2>1. CASE i = L + 1
        BY <1>7, <2>1
    <2>2. CASE i \in 1..L
        <3>1. c \in ToSet(K[i].children) \/ C[c] = 2 \/ (i < L /\ K[i + 1].name = c)
            BY <1>7, <2>2 DEF Good, Seen, L, N
        <3>2. CASE i < L /\ K[i + 1].name = c
            <4>1. i + 1 \in 1..L /\ i < Len(J)
                BY <1>1, <1>6, <2>2, <3>2
            <4> QED BY <1>7, <3>2, <4>1
        <3>3. CASE c \in ToSet(K[i].children) /\ i # L
            BY <1>7, <2>2, <3>3
        <3>4. CASE c \in ToSet(K[i].children) /\ i = L
            <4>1. c = n \/ c \in ToSet(Tail(s))
                BY <1>h, <1>4, <3>4 DEF s
            <4>2. L < Len(J)
                BY <1>1, <1>6
            <4> QED BY <1>7, <3>4, <4>1, <4>2
        <3>5. CASE C[c] = 2
            BY <1>8, <3>5
        <3> QED BY <3>1, <3>2, <3>3, <3>4, <3>5
    <2> QED BY <1>9, <2>1, <2>2
<1>14. Done(p, D) /\ NoneEndless(p, D)
    BY <1>8 DEF Good, Done, NoneEndless, N
<1>15. Descent(p, J)
    <2> SUFFICES ASSUME NEW i \in 1..Len(J) - 1 PROVE J[i + 1].name \in ToSet(Kids(p, J[i].name))
        BY DEF Descent
    <2>1. i \in 1..L
        BY <1>1, <1>6
    <2>2. CASE i = L
        <3>1. ToSet(s) \subseteq ToSet(Kids(p, K[L].name))
            BY <1>1 DEF Good, StillToSee, L, s
        <3> QED BY <1>h, <1>4, <1>7, <2>1, <2>2, <3>1
    <2>3. CASE i # L
        <3>1. i \in 1..L - 1 /\ i + 1 \in 1..L
            BY <1>1, <2>1, <2>3
        <3>2. K[i + 1].name \in ToSet(Kids(p, K[i].name))
            BY <3>1 DEF Good, Descent, L
        <3> QED BY <1>7, <2>1, <3>1, <3>2
    <2> QED BY <2>2, <2>3
<1> QED BY <1>11, <1>12, <1>13, <1>14, <1>15 DEF Good

(* A child that is open closes a cycle.                                       *)
LEMMA FoundCycle ==
    ASSUME NEW p \in NodeGraphs, NEW C \in Colors(p), NEW K \in Seq(Entries(p)), Good(p, C, K),
           K # <<>>, K[Len(K)].children # <<>>,
           NEW n \in Names(p.nodes), n = Head(K[Len(K)].children), C[n] = 1
    PROVE  Endless(Leading(p)) # {}
<1> DEFINE L == Len(K)
           N == Names(p.nodes)
           s == K[L].children
<1>1. L \in Nat /\ L > 0 /\ L \in 1..L
    OBVIOUS
<1>2. \A i \in 1..L : K[i].children \in Seq(STRING) /\ K[i].name \in N
    BY EntriesAre
<1>3. n \in ToSet(Kids(p, K[L].name))
    <2>1. s \in Seq(STRING) /\ s # <<>> /\ n = Head(s)
        BY <1>1, <1>2
    <2>2. ToSet(s) \subseteq ToSet(Kids(p, K[L].name))
        BY <1>1 DEF Good, StillToSee
    <2> HIDE DEF s
    <2>3. Head(s) \in ToSet(s)
        BY <2>1, TailIs
    <2> QED BY <2>1, <2>2, <2>3
<1>4. PICK j \in 1..L : K[j].name = n
    BY DEF Good, OpenNodes
<1>5. \A i \in 1..L - 1 : K[i + 1].name \in ToSet(Kids(p, K[i].name))
    BY DEF Good, Descent
<1> DEFINE T == {K[i].name : i \in j..L}
           next == Leading(p)
<1>6. DOMAIN next = N /\ \A x \in N : next[x] = ToSet(Kids(p, x))
    BY DEF Leading
<1> HIDE DEF L, N, s, next
<1>7. j..L \subseteq 1..L /\ j \in j..L /\ \A i \in j..L : i = L \/ (i \in 1..L - 1 /\ i + 1 \in j..L)
    BY <1>1
<1>8. T \subseteq N /\ n \in T
    BY <1>2, <1>4, <1>7
<1>9. ASSUME NEW x \in T PROVE next[x] \cap T # {}
    <2>1. PICK i \in j..L : K[i].name = x
        OBVIOUS
    <2>2. x \in N /\ next[x] = ToSet(Kids(p, K[i].name))
        BY <1>6, <1>8, <2>1
    <2>3. CASE i = L
        BY <1>3, <1>8, <2>2, <2>3
    <2>4. CASE i \in 1..L - 1 /\ i + 1 \in j..L
        <3>1. K[i + 1].name \in T
            BY <2>4
        <3> QED BY <1>5, <2>2, <2>4, <3>1
    <2> QED BY <1>7, <2>3, <2>4
<1> HIDE DEF T
<1>10. T \in SUBSET DOMAIN next
    BY <1>6, <1>8
<1>11. n \in Endless(next)
    BY <1>8, <1>9, <1>10 DEF Endless
<1> QED BY <1>11 DEF next

(* When all are done with, there is no cycle.                                 *)
LEMMA AllDone ==
    ASSUME NEW p \in NodeGraphs, NEW C \in Colors(p), Good(p, C, <<>>),
           \A n \in Names(p.nodes) : C[n] # 0
    PROVE  Endless(Leading(p)) = {}
<1> DEFINE N == Names(p.nodes)
           next == Leading(p)
<1>1. \A n \in N : C[n] = 2
    BY DEF Good, OpenNodes, Colors
<1>2. DOMAIN next = N /\ \A x \in N : next[x] = ToSet(Kids(p, x))
    BY DEF Leading
<1>3. \A T \in SUBSET N : (\A x \in T : C[x] = 2 /\ ToSet(Kids(p, x)) \cap T # {}) => T = {}
    BY DEF Good, NoneEndless
<1> HIDE DEF next, N
<1>4. \A T \in SUBSET DOMAIN next : (\A x \in T : next[x] \cap T # {}) => T = {}
    BY <1>1, <1>2, <1>3
<1>5. Endless(next) = {}
    BY <1>4 DEF Endless
<1> QED BY <1>5 DEF next

-------------------------------------------------------------------------------
(* One step of the search, and how many there are.                            *)
(* Each step takes one that was not taken before, so that when all are taken the*)
(* search has ended.                                                          *)

Final(p, s) == s.found \/ (s.stack = <<>> /\ \A n \in Names(p.nodes) : s.color[n] # 0)
SoundSearch(p, s) ==
    IF s.found THEN Endless(Leading(p)) # {} ELSE Good(p, s.color, s.stack)
Fresh(p, n) == [name |-> n, children |-> Kids(p, n)]

TakesRoot(p, s, t) ==
    \E n \in Names(p.nodes) :
        s.color[n] = 0 /\ t.color = [s.color EXCEPT ![n] = 1] /\ t.stack = <<Fresh(p, n)>>
Closes(s, t) ==
    /\ s.stack[Len(s.stack)].children = <<>>
    /\ t.color = [s.color EXCEPT ![s.stack[Len(s.stack)].name] = 2] /\ t.stack = Front(s.stack)
Skips(p, s, t) ==
    /\ Head(s.stack[Len(s.stack)].children) \in Names(p.nodes)
       => s.color[Head(s.stack[Len(s.stack)].children)] = 2
    /\ t.color = s.color /\ t.stack = Drop(s.stack)
Finds(p, s) ==
    \E n \in Names(p.nodes) : n = Head(s.stack[Len(s.stack)].children) /\ s.color[n] = 1
Opens(p, s, t) ==
    \E n \in Names(p.nodes) :
        /\ n = Head(s.stack[Len(s.stack)].children) /\ s.color[n] = 0
        /\ t.color = [s.color EXCEPT ![n] = 1] /\ t.stack = Append(Drop(s.stack), Fresh(p, n))

Whole(s) == s = [color |-> s.color, stack |-> s.stack, found |-> s.found]

StepSays(p, s, t) ==
    \/ s.stack = <<>> /\ t.found = FALSE /\ TakesRoot(p, s, t)
    \/ s.stack # <<>> /\ t.found = FALSE /\ Closes(s, t)
    \/ /\ s.stack # <<>> /\ s.stack[Len(s.stack)].children # <<>>
       /\ t.found = FALSE /\ Skips(p, s, t)
    \/ /\ s.stack # <<>> /\ s.stack[Len(s.stack)].children # <<>>
       /\ Finds(p, s) /\ t = [s EXCEPT !.found = TRUE]
    \/ /\ s.stack # <<>> /\ s.stack[Len(s.stack)].children # <<>>
       /\ t.found = FALSE /\ Opens(p, s, t)

LEMMA StepIs ==
    ASSUME NEW p \in NodeGraphs, NEW s \in Searches(p), NEW t, t = SearchStep(p, s)
    PROVE  /\ Whole(t)
           /\ Final(p, s) => t = s
           /\ ~Final(p, s) => StepSays(p, s, t)
<1> DEFINE top == Last(s.stack)
           N == Names(p.nodes)
           unseen == {i \in DOMAIN p.nodes : s.color[p.nodes[i].name] = 0}
           first == CHOOSE i \in unseen : \A j \in unseen : i <= j
           c == Head(top.children)
<1>1. s = [color |-> s.color, stack |-> s.stack, found |-> s.found] /\ s.found \in BOOLEAN
      /\ s.color \in Colors(p) /\ s.stack \in Seq(Entries(p))
    BY DEF Searches
<1>2. top = s.stack[Len(s.stack)]
    BY DEF Last
<1>3. N = {p.nodes[i].name : i \in DOMAIN p.nodes} /\ DOMAIN p.nodes \subseteq Nat
    <2>1. p.nodes \in Seq([name : STRING, children : Seq(STRING), members : Seq(STRING)])
        BY DEF NodeGraphs
    <2>2. DOMAIN p.nodes \subseteq Nat
        BY <2>1
    <2> QED BY <2>2 DEF Names
<1>4. unseen = {} <=> \A n \in N : s.color[n] # 0
    BY <1>3
<1>5. CASE s.found
    <2>1. t = s
        BY <1>5 DEF SearchStep
    <2>2. Whole(t)
        BY <1>1, <2>1 DEF Whole
    <2> QED BY <1>5, <2>1, <2>2 DEF Final
<1>6. CASE ~s.found /\ s.stack = <<>> /\ unseen = {}
    <2>1. SearchStep(p, s) = s
        BY <1>6 DEF SearchStep
    <2>2. Final(p, s)
        BY <1>4, <1>6 DEF Final
    <2>3. Whole(t)
        BY <1>1, <2>1 DEF Whole
    <2> QED BY <2>1, <2>2, <2>3
<1>7. CASE ~s.found /\ s.stack = <<>> /\ unseen # {}
    <2>1. unseen \subseteq Nat
        BY <1>3
    <2>2. \E i \in unseen : \A j \in unseen : i <= j
        <3> HIDE DEF unseen
        <3> QED BY <1>7, <2>1, LeastOf
    <2>3. first \in unseen
        <3> HIDE DEF unseen
        <3> QED BY <2>2
    <2> DEFINE n == p.nodes[first].name
    <2>4. n \in N /\ s.color[n] = 0
        BY <1>3, <2>3
    <2>5. SearchStep(p, s) = [s EXCEPT !.color[n] = 1, !.stack = <<[name |-> n, children |-> LastNamed(p.nodes, n).children]>>]
        BY <1>7 DEF SearchStep
    <2> HIDE DEF first, n, N
    <2>6. t.found = FALSE /\ t.color = [s.color EXCEPT ![n] = 1] /\ t.stack = <<Fresh(p, n)>> /\ Whole(t)
        BY <1>1, <1>7, <2>5 DEF Fresh, Kids, Whole
    <2>7. ~Final(p, s)
        BY <1>7, <2>4 DEF Final, N
    <2>8. TakesRoot(p, s, t)
        BY <2>4, <2>6 DEF TakesRoot, N
    <2> QED BY <1>7, <2>6, <2>7, <2>8 DEF StepSays
<1>a. ~s.found /\ s.stack # <<>> => ~Final(p, s)
    BY DEF Final
<1> DEFINE todo == [s EXCEPT !.stack[Len(s.stack)].children = Tail(@)]
           closed == [s EXCEPT !.color[top.name] = 2, !.stack = Front(@)]
           caught == [s EXCEPT !.found = TRUE]
           opened == [todo EXCEPT !.color[c] = 1,
                                  !.stack = Append(@, [name |-> c, children |-> LastNamed(p.nodes, c).children])]
<1>s. ASSUME ~s.found, s.stack # <<>>
      PROVE  SearchStep(p, s) = IF top.children = <<>> THEN closed
                                ELSE CASE c \notin N -> todo
                                       [] c \in N /\ s.color[c] = 1 -> caught
                                       [] c \in N /\ s.color[c] = 2 -> todo
                                       [] c \in N /\ s.color[c] = 0 -> opened
    <2> DEFINE root == IF unseen = {} THEN s
                       ELSE LET n == p.nodes[first].name
                            IN  [s EXCEPT !.color[n] = 1,
                                          !.stack = <<[name |-> n, children |-> LastNamed(p.nodes, n).children]>>]
               child == IF top.children = <<>> THEN closed
                        ELSE CASE c \notin N -> todo
                               [] c \in N /\ s.color[c] = 1 -> caught
                               [] c \in N /\ s.color[c] = 2 -> todo
                               [] c \in N /\ s.color[c] = 0 -> opened
    <2>1. SearchStep(p, s) = CASE s.found -> s
                               [] ~s.found /\ s.stack = <<>> -> root
                               [] ~s.found /\ s.stack # <<>> -> child
        BY Zenon DEF SearchStep
    <2> HIDE DEF root, child
    <2>2. SearchStep(p, s) = child
        BY <1>s, <2>1
    <2> QED BY <2>2 DEF child
<1>8. CASE ~s.found /\ s.stack # <<>> /\ top.children = <<>>
    <2>1. SearchStep(p, s) = closed
        <3> HIDE DEF closed, caught, opened, todo, top, c, N
        <3> QED BY <1>s, <1>8
    <2> HIDE DEF top
    <2>2. t.found = FALSE /\ t.color = [s.color EXCEPT ![top.name] = 2] /\ t.stack = Front(s.stack) /\ Whole(t)
        BY <1>1, <1>8, <2>1 DEF Whole
    <2>3. Closes(s, t)
        BY <1>2, <1>8, <2>2 DEF Closes
    <2> QED BY <1>a, <1>8, <2>2, <2>3 DEF StepSays
<1>9. todo.found = s.found /\ todo.color = s.color /\ todo.stack = Drop(s.stack)
      /\ todo = [color |-> todo.color, stack |-> todo.stack, found |-> todo.found]
    <2> DEFINE K == s.stack
    <2>1. todo = [s EXCEPT !.stack = [K EXCEPT ![Len(K)].children = Tail(@)]]
        BY <1>1
    <2>2. todo = [s EXCEPT !.stack = Drop(K)]
        BY <2>1 DEF Drop
    <2> HIDE DEF todo, K
    <2>3. todo.found = s.found /\ todo.color = s.color /\ todo.stack = Drop(K)
      /\ todo = [color |-> todo.color, stack |-> todo.stack, found |-> todo.found]
        BY <1>1, <2>2
    <2> QED BY <2>3 DEF K
<1>10. CASE ~s.found /\ s.stack # <<>> /\ top.children # <<>> /\ (c \in N => s.color[c] = 2)
    <2>1. SearchStep(p, s) = todo
        <3> HIDE DEF closed, caught, opened, todo, top, c, N
        <3>1. CASE c \notin N
            BY <1>s, <1>10, <3>1
        <3>2. CASE c \in N /\ s.color[c] = 2
            BY <1>s, <1>10, <3>2
        <3> QED BY <1>10, <3>1, <3>2
    <2> HIDE DEF top, todo
    <2>2. Skips(p, s, t)
        BY <1>2, <1>9, <1>10, <2>1 DEF Skips
    <2>3. Whole(t)
        BY <1>9, <2>1 DEF Whole
    <2> QED BY <2>3, <1>a, <1>2, <1>9, <1>10, <2>1, <2>2 DEF StepSays
<1>11. CASE ~s.found /\ s.stack # <<>> /\ top.children # <<>> /\ c \in N /\ s.color[c] = 1
    <2>1. SearchStep(p, s) = [s EXCEPT !.found = TRUE]
        <3>1. SearchStep(p, s) = caught
            <4> HIDE DEF closed, caught, opened, todo, top, c, N
            <4> QED BY <1>s, <1>11
        <3> QED BY <3>1
    <2> HIDE DEF top
    <2>2. Finds(p, s)
        BY <1>2, <1>11 DEF Finds
    <2>3. Whole(t)
        BY <1>1, <2>1 DEF Whole
    <2> QED BY <2>3, <1>a, <1>2, <1>11, <2>1, <2>2 DEF StepSays
<1>12. CASE ~s.found /\ s.stack # <<>> /\ top.children # <<>> /\ c \in N /\ s.color[c] = 0
    <2>1. SearchStep(p, s) = opened
        <3> HIDE DEF closed, caught, opened, todo, top, c, N
        <3> QED BY <1>s, <1>12
    <2> HIDE DEF top, todo, c, N
    <2>2. t.found = FALSE /\ t.color = [s.color EXCEPT ![c] = 1] /\ t.stack = Append(Drop(s.stack), Fresh(p, c)) /\ Whole(t)
        BY <1>1, <1>9, <1>12, <2>1 DEF Fresh, Kids, Whole
    <2>3. c = Head(top.children)
        BY DEF c
    <2>4. Opens(p, s, t)
        BY <1>2, <1>12, <2>2, <2>3 DEF Opens, N
    <2> QED BY <1>a, <1>2, <1>12, <2>2, <2>4 DEF StepSays
<1>13. c \in N => s.color[c] \in 0..2
    BY <1>1 DEF Colors
<1> HIDE DEF top, N, unseen, first, c, todo, closed, caught, opened
<1>14. \/ s.found \/ (~s.found /\ s.stack = <<>> /\ unseen = {}) \/ (~s.found /\ s.stack = <<>> /\ unseen # {})
       \/ (~s.found /\ s.stack # <<>> /\ top.children = <<>>)
       \/ (~s.found /\ s.stack # <<>> /\ top.children # <<>> /\ (c \in N => s.color[c] = 2))
       \/ (~s.found /\ s.stack # <<>> /\ top.children # <<>> /\ c \in N /\ s.color[c] = 1)
       \/ (~s.found /\ s.stack # <<>> /\ top.children # <<>> /\ c \in N /\ s.color[c] = 0)
    BY <1>1, <1>13
<1> QED BY <1>5, <1>6, <1>7, <1>8, <1>10, <1>11, <1>12, <1>14, Zenon DEF StepSays

LEMMA FreshIs == ASSUME NEW p \in NodeGraphs, NEW n \in Names(p.nodes)
    PROVE  Fresh(p, n) \in Entries(p) /\ Fresh(p, n).name = n /\ Fresh(p, n).children = Kids(p, n)
    BY KidsIs DEF Fresh, Entries

LEMMA SoundStep ==
    ASSUME NEW p \in NodeGraphs, NEW s \in Searches(p), SoundSearch(p, s), NEW t, t = SearchStep(p, s)
    PROVE  t \in Searches(p) /\ SoundSearch(p, t)
<1> DEFINE C == s.color
           K == s.stack
           D == t.color
           J == t.stack
           top == K[Len(K)]
           N == Names(p.nodes)
<1>1. C \in Colors(p) /\ K \in Seq(Entries(p)) /\ s.found \in BOOLEAN
    BY DEF Searches
<1>2. \A n \in N : [C EXCEPT ![n] = 1] \in Colors(p) /\ [C EXCEPT ![n] = 2] \in Colors(p)
    BY <1>1 DEF Colors
<1>3. \A n \in N : Fresh(p, n) \in Entries(p) /\ Fresh(p, n) = [name |-> n, children |-> Kids(p, n)]
    BY FreshIs DEF Fresh
<1>4. t = [color |-> D, stack |-> J, found |-> t.found]
    BY StepIs DEF Whole
<1>5. D \in Colors(p) /\ J \in Seq(Entries(p)) /\ t.found \in BOOLEAN => t \in Searches(p)
    BY <1>4 DEF Searches
<1>6. t.found = FALSE /\ Good(p, D, J) => SoundSearch(p, t)
    BY DEF SoundSearch
<1>7. ~s.found => Good(p, C, K)
    BY DEF SoundSearch
<1>8. K # <<>> => top \in Entries(p) /\ top.name \in N
    <2>1. K # <<>> => Len(K) \in 1..Len(K)
        BY <1>1
    <2> QED BY <1>1, <2>1, EntriesAre
<1>9. CASE Final(p, s)
    BY <1>9, StepIs
<1>10. CASE ~Final(p, s)
    <2>0. ~s.found
        BY <1>10 DEF Final
    <2>1. CASE s.stack = <<>> /\ t.found = FALSE /\ TakesRoot(p, s, t)
        <3>1. PICK n \in N : C[n] = 0 /\ D = [C EXCEPT ![n] = 1] /\ J = <<Fresh(p, n)>>
            BY <2>1 DEF TakesRoot
        <3> HIDE DEF C, D, K, J, N
        <3>2. D \in Colors(p)
            BY <1>2, <3>1
        <3>3. J \in Seq(Entries(p))
            BY <1>3, <3>1
        <3>4. K = <<>>
            BY <2>1 DEF K
        <3>5. Good(p, D, J)
            BY <1>1, <1>3, <1>7, <2>0, <3>1, <3>4, GoodRoot DEF N
        <3> QED BY <1>5, <1>6, <2>1, <3>2, <3>3, <3>5
    <2>2. CASE s.stack # <<>> /\ t.found = FALSE /\ Closes(s, t)
        <3>1. K # <<>> /\ top.children = <<>> /\ D = [C EXCEPT ![top.name] = 2] /\ J = Front(K)
            BY <2>2 DEF Closes
        <3> HIDE DEF C, D, K, J, N
        <3>2. D \in Colors(p)
            BY <1>2, <1>8, <3>1
        <3>3. J \in Seq(Entries(p))
            BY <1>1, <3>1, FrontIs
        <3>4. Good(p, D, J)
            BY <1>1, <1>7, <2>0, <3>1, GoodClose
        <3> QED BY <1>5, <1>6, <2>2, <3>2, <3>3, <3>4
    <2>3. CASE /\ s.stack # <<>> /\ s.stack[Len(s.stack)].children # <<>>
               /\ t.found = FALSE /\ Skips(p, s, t)
        <3>1. K # <<>> /\ top.children # <<>> /\ D = C /\ J = Drop(K)
              /\ (Head(top.children) \in N => C[Head(top.children)] = 2)
            BY <2>3 DEF Skips
        <3> HIDE DEF C, D, K, J, N
        <3>2. J \in Seq(Entries(p))
            BY <1>1, <3>1, Dropped
        <3>3. Good(p, D, J)
            BY <1>1, <1>7, <2>0, <3>1, GoodSkip DEF N
        <3> QED BY <1>1, <1>5, <1>6, <2>3, <3>1, <3>2, <3>3
    <2>4. CASE /\ s.stack # <<>> /\ s.stack[Len(s.stack)].children # <<>>
               /\ Finds(p, s) /\ t = [s EXCEPT !.found = TRUE]
        <3>1. PICK n \in N : n = Head(top.children) /\ C[n] = 1
            BY <2>4 DEF Finds
        <3>2. D = C /\ J = K /\ t.found = TRUE
            BY <2>4 DEF Searches
        <3>3. K # <<>> /\ top.children # <<>>
            BY <2>4
        <3> HIDE DEF C, D, K, J, N
        <3>4. Endless(Leading(p)) # {}
            BY <1>1, <1>7, <2>0, <3>1, <3>3, FoundCycle DEF N
        <3>5. SoundSearch(p, t)
            BY <3>2, <3>4 DEF SoundSearch
        <3> QED BY <1>1, <1>5, <3>2, <3>5
    <2>5. CASE /\ s.stack # <<>> /\ s.stack[Len(s.stack)].children # <<>>
               /\ t.found = FALSE /\ Opens(p, s, t)
        <3>1. PICK n \in N : /\ n = Head(top.children) /\ C[n] = 0
                             /\ D = [C EXCEPT ![n] = 1] /\ J = Append(Drop(K), Fresh(p, n))
            BY <2>5 DEF Opens
        <3>2. K # <<>> /\ top.children # <<>>
            BY <2>5
        <3> HIDE DEF C, D, K, J, N
        <3>3. D \in Colors(p)
            BY <1>2, <3>1
        <3>4. J \in Seq(Entries(p))
            <4>1. Drop(K) \in Seq(Entries(p))
                BY <1>1, <3>2, Dropped
            <4> QED BY <1>3, <3>1, <4>1
        <3>5. Good(p, D, J)
            BY <1>1, <1>3, <1>7, <2>0, <3>1, <3>2, GoodOpen DEF N
        <3> QED BY <1>5, <1>6, <2>5, <3>3, <3>4, <3>5
    <2> QED BY <1>10, <2>1, <2>2, <2>3, <2>4, <2>5, StepIs, Zenon DEF StepSays
<1> QED BY <1>9, <1>10

-------------------------------------------------------------------------------
(* The steps taken so far: each adds one.                                     *)
Taken(p, C, K, n, j) ==
    C[n] = 2 \/ \E i \in 1..Len(K) : K[i].name = n /\ j <= Len(Kids(p, n)) - Len(K[i].children)
Grows(p, C, K, D, J) ==
    /\ \A n \in Names(p.nodes), j \in Nat : Taken(p, C, K, n, j) => Taken(p, D, J, n, j)
    /\ \E n \in Names(p.nodes) : \E j \in 0..Len(Kids(p, n)) + 1 :
           ~Taken(p, C, K, n, j) /\ Taken(p, D, J, n, j)

LEMMA Between ==
    ASSUME NEW a \in Nat, NEW b \in Nat
    PROVE  /\ b > 0 /\ b <= a => a - b + 1 \in 0..a + 1 /\ a - b + 1 <= a - (b - 1)
           /\ ~(a - b + 1 <= a - b) /\ ~(a + 1 <= a - b) /\ a + 1 \in Nat /\ a + 1 \in 0..a + 1
    OBVIOUS

LEMMA GrowsRoot ==
    ASSUME NEW p \in NodeGraphs, NEW C \in Colors(p), NEW n \in Names(p.nodes), C[n] = 0,
           NEW D, D = [C EXCEPT ![n] = 1],
           NEW K, K = <<>>, NEW J, J = <<Fresh(p, n)>>
    PROVE  Grows(p, C, K, D, J)
<1> DEFINE N == Names(p.nodes)
<1>1. Kids(p, n) \in Seq(STRING) /\ Len(Kids(p, n)) \in Nat
    BY KidsIs
<1>2. Len(J) = 1 /\ 1 \in 1..Len(J) /\ J[1].name = n /\ J[1].children = Kids(p, n)
    BY FreshIs
<1>3. \A x \in N, j \in Nat : Taken(p, C, K, x, j) => Taken(p, D, J, x, j)
    <2>1. 1..Len(K) = {}
        OBVIOUS
    <2>2. \A x \in N : C[x] = 2 => D[x] = 2
        BY DEF Colors
    <2> QED BY <2>1, <2>2 DEF Taken
<1>4. ~Taken(p, C, K, n, 0)
    BY DEF Taken
<1>5. Taken(p, D, J, n, 0)
    BY <1>1, <1>2 DEF Taken
<1>6. 0 \in 0..Len(Kids(p, n)) + 1
    BY <1>1
<1> QED BY <1>3, <1>4, <1>5, <1>6 DEF Grows

LEMMA GrowsClose ==
    ASSUME NEW p \in NodeGraphs, NEW C \in Colors(p), NEW K \in Seq(Entries(p)), Good(p, C, K),
           K # <<>>, K[Len(K)].children = <<>>,
           NEW D, D = [C EXCEPT ![K[Len(K)].name] = 2],
           NEW J, J = Front(K)
    PROVE  Grows(p, C, K, D, J)
<1> DEFINE L == Len(K)
           n == K[L].name
           N == Names(p.nodes)
           k == Len(Kids(p, n)) + 1
<1>1. L \in Nat /\ L > 0 /\ L \in 1..L /\ Len(J) = L - 1 /\ \A i \in 1..L - 1 : J[i] = K[i]
    BY FrontIs
<1>2. n \in N /\ \A i \in 1..L : K[i].children \in Seq(STRING)
    BY <1>1, EntriesAre
<1>3. \A x \in N : D[x] = IF x = n THEN 2 ELSE C[x]
    BY DEF Colors
<1>4. C[n] = 1
    BY <1>1, <1>2 DEF Good, OpenNodes
<1>5. Len(Kids(p, n)) \in Nat /\ k \in Nat /\ k \in 0..Len(Kids(p, n)) + 1
    BY <1>2, KidsIs
<1>6. \A i \in 1..L : Len(K[i].children) \in Nat
    BY <1>2
<1> HIDE DEF L, n, N
<1>7. ASSUME NEW x \in N, NEW j \in Nat, Taken(p, C, K, x, j) PROVE Taken(p, D, J, x, j)
    <2>1. CASE C[x] = 2 \/ x = n
        BY <1>3, <2>1 DEF Taken
    <2>2. CASE x # n /\ \E i \in 1..L : K[i].name = x /\ j <= Len(Kids(p, x)) - Len(K[i].children)
        <3>1. PICK i \in 1..L : K[i].name = x /\ j <= Len(Kids(p, x)) - Len(K[i].children)
            BY <2>2
        <3>2. i # L
            BY <2>2, <3>1 DEF n
        <3>3. i \in 1..Len(J) /\ J[i] = K[i]
            BY <1>1, <3>2
        <3> QED BY <3>1, <3>3 DEF Taken
    <2> QED BY <1>7, <2>1, <2>2 DEF Taken, L
<1>8. ~Taken(p, C, K, n, k)
    <2> SUFFICES ASSUME NEW i \in 1..L, k <= Len(Kids(p, n)) - Len(K[i].children) PROVE FALSE
        <3> HIDE DEF k
        <3> QED BY <1>4 DEF Taken, L
    <2>1. Len(Kids(p, n)) \in Nat /\ Len(K[i].children) \in Nat
        BY <1>5, <1>6
    <2> QED BY <2>1, Between
<1>9. Taken(p, D, J, n, k)
    BY <1>2, <1>3 DEF Taken
<1> QED BY <1>2, <1>5, <1>7, <1>8, <1>9 DEF Grows, N

LEMMA GrowsSkip ==
    ASSUME NEW p \in NodeGraphs, NEW C \in Colors(p), NEW K \in Seq(Entries(p)), Good(p, C, K),
           K # <<>>, K[Len(K)].children # <<>>,
           NEW J, J = Drop(K)
    PROVE  Grows(p, C, K, C, J)
<1> DEFINE L == Len(K)
           n == K[L].name
           N == Names(p.nodes)
           s == K[L].children
           k == Len(Kids(p, n)) - Len(s) + 1
<1>1. L \in Nat /\ L > 0 /\ L \in 1..L
    OBVIOUS
<1>2. n \in N /\ \A i \in 1..L : K[i].children \in Seq(STRING)
    BY <1>1, EntriesAre
<1>3. /\ Len(J) = L /\ \A i \in 1..L : J[i].name = K[i].name
      /\ \A i \in 1..L : i # L => J[i] = K[i]
      /\ J[L].children = Tail(s)
    BY Dropped
<1>4. s \in Seq(STRING) /\ s # <<>>
    BY <1>1, <1>2
<1>5. Len(s) \in Nat /\ Len(s) > 0 /\ Len(Tail(s)) = Len(s) - 1
    <2> HIDE DEF s
    <2> QED BY <1>4, TailIs
<1>6. Len(s) <= Len(Kids(p, n)) /\ Len(Kids(p, n)) \in Nat
    BY <1>1, <1>2, KidsIs DEF Good, StillToSee
<1>7. C[n] = 1 /\ \A i \in 1..L : K[i].name = n => i = L
    BY <1>1, <1>2 DEF Good, OpenNodes
<1>8. k \in 0..Len(Kids(p, n)) + 1
    <2> HIDE DEF s, n
    <2> QED BY <1>5, <1>6, Between
<1> HIDE DEF L, n, N, s
<1>9. ASSUME NEW x \in N, NEW j \in Nat, Taken(p, C, K, x, j) PROVE Taken(p, C, J, x, j)
    <2>1. CASE C[x] = 2
        BY <2>1 DEF Taken
    <2>2. CASE \E i \in 1..L : K[i].name = x /\ j <= Len(Kids(p, x)) - Len(K[i].children)
        <3>1. PICK i \in 1..L : K[i].name = x /\ j <= Len(Kids(p, x)) - Len(K[i].children)
            BY <2>2
        <3>2. CASE i # L
            BY <1>3, <3>1, <3>2 DEF Taken
        <3>3. CASE i = L
            <4>1. x = n /\ j <= Len(Kids(p, n)) - Len(s)
                BY <3>1, <3>3 DEF n, s
            <4>2. j <= Len(Kids(p, n)) - Len(J[L].children)
                BY <1>3, <1>5, <1>6, <4>1
            <4> QED BY <1>1, <1>3, <3>1, <3>3, <4>1, <4>2 DEF Taken
        <3> QED BY <3>2, <3>3
    <2> QED BY <1>9, <2>1, <2>2 DEF Taken, L
<1>10. ~Taken(p, C, K, n, k)
    <2> SUFFICES ASSUME NEW i \in 1..L, K[i].name = n, k <= Len(Kids(p, n)) - Len(K[i].children) PROVE FALSE
        <3> HIDE DEF k
        <3> QED BY <1>7 DEF Taken, L
    <2>1. k <= Len(Kids(p, n)) - Len(s)
        BY <1>7 DEF s
    <2> QED BY <1>5, <1>6, <2>1, Between
<1>11. Taken(p, C, J, n, k)
    <2>0. Len(J[L].children) = Len(s) - 1
        BY <1>3, <1>5
    <2>1. k <= Len(Kids(p, n)) - Len(J[L].children)
        BY <2>0, <1>5, <1>6, Between
    <2>2. J[L].name = n /\ L \in 1..Len(J)
        BY <1>1, <1>3 DEF n
    <2> QED BY <2>1, <2>2 DEF Taken
<1> HIDE DEF k
<1> QED BY <1>2, <1>8, <1>9, <1>10, <1>11 DEF Grows, N

LEMMA GrowsOpen ==
    ASSUME NEW p \in NodeGraphs, NEW C \in Colors(p), NEW K \in Seq(Entries(p)), Good(p, C, K),
           K # <<>>, K[Len(K)].children # <<>>,
           NEW n \in Names(p.nodes), C[n] = 0,
           NEW D, D = [C EXCEPT ![n] = 1],
           NEW J, J = Append(Drop(K), Fresh(p, n))
    PROVE  Grows(p, C, K, D, J)
<1> DEFINE I == Drop(K)
           N == Names(p.nodes)
<1>1. Grows(p, C, K, C, I)
    BY GrowsSkip
<1>2. I \in Seq(Entries(p))
    BY Dropped
<1>3. Fresh(p, n) \in Entries(p)
    BY FreshIs
<1>4. \A x \in N : C[x] = 2 => D[x] = 2
    BY DEF Colors
<1>h. J = Append(I, Fresh(p, n))
    OBVIOUS
<1> HIDE DEF I, N
<1>5. Len(I) \in Nat /\ Len(J) = Len(I) + 1 /\ \A i \in 1..Len(I) : i \in 1..Len(J) /\ J[i] = I[i]
    BY <1>2, <1>3, <1>h
<1>6. ASSUME NEW x \in N, NEW j, Taken(p, C, I, x, j) PROVE Taken(p, D, J, x, j)
    <2>1. CASE C[x] = 2
        BY <1>4, <2>1 DEF Taken
    <2>2. CASE \E i \in 1..Len(I) : I[i].name = x /\ j <= Len(Kids(p, x)) - Len(I[i].children)
        BY <1>5, <2>2 DEF Taken
    <2> QED BY <1>6, <2>1, <2>2 DEF Taken
<1> QED BY <1>1, <1>6 DEF Grows, N

-------------------------------------------------------------------------------
Used(p, s) == {u \in SearchSteps(p) : Taken(p, s.color, s.stack, u[1], u[2])}

LEMMA SearchStepsAre ==
    ASSUME NEW p \in NodeGraphs
    PROVE  /\ IsFiniteSet(SearchSteps(p))
           /\ \A n \in Names(p.nodes) : \A j \in 0..Len(Kids(p, n)) + 1 : <<n, j>> \in SearchSteps(p)
           /\ \A u \in SearchSteps(p) : u[1] \in Names(p.nodes) /\ u[2] \in Nat
<1> DEFINE N == Names(p.nodes)
           of(n) == {n} \X (0 .. Len(Kids(p, n)) + 1)
           F == [n \in N |-> of(n)]
           R == {of(n) : n \in N}
<1>1. SearchSteps(p) = UNION R
    BY DEF SearchSteps, Kids
<1>2. \A n \in N : Len(Kids(p, n)) \in Nat
    BY KidsIs
<1>3. IsFiniteSet(N)
    <2>1. p.nodes \in Seq([name : STRING, children : Seq(STRING), members : Seq(STRING)])
        BY DEF NodeGraphs
    <2> QED BY <2>1, NamesFinite
<1>4. \A n \in N : IsFiniteSet(of(n))
    <2> TAKE n \in N
    <2>1. IsFiniteSet({n})
        BY FS_Singleton
    <2>2. IsFiniteSet(0 .. Len(Kids(p, n)) + 1)
        BY <1>2, FS_Interval
    <2> QED BY <2>1, <2>2, FS_Product
<1>5. \A n \in N : \A j \in 0..Len(Kids(p, n)) + 1 : <<n, j>> \in of(n)
    OBVIOUS
<1>6. \A n \in N : \A u \in of(n) : u[1] = n /\ u[2] \in Nat
    BY <1>2
<1> HIDE DEF N, of
<1>7. IsFiniteSet(R)
    <2>1. F \in Surjection(N, R)
        BY DEF Surjection
    <2> QED BY <1>3, <2>1, FS_Surjection
<1>8. IsFiniteSet(UNION R)
    <2>1. \A T \in R : IsFiniteSet(T)
        BY <1>4
    <2> HIDE DEF R
    <2> QED BY <1>7, <2>1, FS_UNION
<1>9. \A n \in N : of(n) \subseteq UNION R
    OBVIOUS
<1>10. \A u \in UNION R : \E n \in N : u \in of(n)
    OBVIOUS
<1> HIDE DEF R
<1> QED BY <1>1, <1>5, <1>6, <1>8, <1>9, <1>10 DEF N

LEMMA UsedMore ==
    ASSUME NEW p \in NodeGraphs, NEW s, NEW t, Grows(p, s.color, s.stack, t.color, t.stack)
    PROVE  Cardinality(Used(p, s)) + 1 <= Cardinality(Used(p, t)) /\ Cardinality(Used(p, s)) \in Nat
<1> DEFINE A == Used(p, s)
           B == Used(p, t)
<1>1. A \subseteq B
    BY SearchStepsAre DEF Grows, Used
<1>2. PICK n \in Names(p.nodes) : \E j \in 0..Len(Kids(p, n)) + 1 :
          ~Taken(p, s.color, s.stack, n, j) /\ Taken(p, t.color, t.stack, n, j)
    BY DEF Grows
<1>p. PICK j \in 0..Len(Kids(p, n)) + 1 :
          ~Taken(p, s.color, s.stack, n, j) /\ Taken(p, t.color, t.stack, n, j)
    BY <1>2
<1>3. <<n, j>> \in B /\ <<n, j>> \notin A
    BY <1>p, SearchStepsAre DEF Used
<1>4. IsFiniteSet(B)
    BY SearchStepsAre, FS_Subset DEF Used
<1> HIDE DEF A, B
<1>5. IsFiniteSet(A) /\ Cardinality(A) <= Cardinality(B) /\ Cardinality(A) # Cardinality(B)
    BY <1>1, <1>3, <1>4, FS_Subset
<1>6. Cardinality(A) \in Nat /\ Cardinality(B) \in Nat
    BY <1>4, <1>5, FS_CardinalityType
<1>7. Cardinality(A) + 1 <= Cardinality(B)
    BY <1>5, <1>6
<1> QED BY <1>6, <1>7 DEF A, B

LEMMA FinalStays ==
    ASSUME NEW p \in NodeGraphs, NEW s \in Searches(p), Final(p, s)
    PROVE  SearchStep(p, s) = s
<1> DEFINE t == SearchStep(p, s)
<1>1. t = SearchStep(p, s)
    OBVIOUS
<1> HIDE DEF t
<1>2. t = s
    BY <1>1, StepIs
<1> QED BY <1>2 DEF t

LEMMA GrowsOrFinal ==
    ASSUME NEW p \in NodeGraphs, NEW s \in Searches(p), SoundSearch(p, s), NEW t, t = SearchStep(p, s), ~Final(p, s)
    PROVE  Final(p, t) \/ Grows(p, s.color, s.stack, t.color, t.stack)
<1> DEFINE C == s.color
           K == s.stack
           D == t.color
           J == t.stack
           top == K[Len(K)]
           N == Names(p.nodes)
<1>1. C \in Colors(p) /\ K \in Seq(Entries(p)) /\ s.found \in BOOLEAN
    BY DEF Searches
<1>2. Good(p, C, K)
    BY DEF SoundSearch, Final
<1>3. CASE s.stack = <<>> /\ t.found = FALSE /\ TakesRoot(p, s, t)
    <2>1. PICK n \in N : C[n] = 0 /\ D = [C EXCEPT ![n] = 1] /\ J = <<Fresh(p, n)>>
        BY <1>3 DEF TakesRoot
    <2>2. K = <<>>
        BY <1>3
    <2> HIDE DEF C, D, K, J, N
    <2>3. Grows(p, C, K, D, J)
        BY <1>1, <2>1, <2>2, GrowsRoot DEF N
    <2> QED BY <2>3 DEF C, D, K, J
<1>4. CASE s.stack # <<>> /\ t.found = FALSE /\ Closes(s, t)
    <2>1. K # <<>> /\ top.children = <<>> /\ D = [C EXCEPT ![top.name] = 2] /\ J = Front(K)
        BY <1>4 DEF Closes
    <2> HIDE DEF C, D, K, J, N
    <2>2. Grows(p, C, K, D, J)
        BY <1>1, <1>2, <2>1, GrowsClose
    <2> QED BY <2>2 DEF C, D, K, J
<1>5. CASE /\ s.stack # <<>> /\ s.stack[Len(s.stack)].children # <<>>
           /\ t.found = FALSE /\ Skips(p, s, t)
    <2>1. K # <<>> /\ top.children # <<>> /\ D = C /\ J = Drop(K)
        BY <1>5 DEF Skips
    <2> HIDE DEF C, D, K, J, N
    <2>2. Grows(p, C, K, D, J)
        BY <1>1, <1>2, <2>1, GrowsSkip
    <2> QED BY <2>2 DEF C, D, K, J
<1>6. CASE /\ s.stack # <<>> /\ s.stack[Len(s.stack)].children # <<>>
           /\ Finds(p, s) /\ t = [s EXCEPT !.found = TRUE]
    <2>1. t.found = TRUE
        BY <1>6 DEF Searches
    <2> QED BY <2>1 DEF Final
<1>7. CASE /\ s.stack # <<>> /\ s.stack[Len(s.stack)].children # <<>>
           /\ t.found = FALSE /\ Opens(p, s, t)
    <2>1. PICK n \in N : /\ n = Head(top.children) /\ C[n] = 0
                         /\ D = [C EXCEPT ![n] = 1] /\ J = Append(Drop(K), Fresh(p, n))
        BY <1>7 DEF Opens
    <2>2. K # <<>> /\ top.children # <<>>
        BY <1>7
    <2> HIDE DEF C, D, K, J, N
    <2>3. Grows(p, C, K, D, J)
        BY <1>1, <1>2, <2>1, <2>2, GrowsOpen DEF N
    <2> QED BY <2>3 DEF C, D, K, J
<1> QED BY <1>3, <1>4, <1>5, <1>6, <1>7, StepIs, Zenon DEF StepSays

(* When every step there is has been taken, the search is over.               *)
LEMMA AllTaken ==
    ASSUME NEW p \in NodeGraphs, NEW s \in Searches(p), SoundSearch(p, s), Used(p, s) = SearchSteps(p)
    PROVE  Final(p, s)
<1> SUFFICES ASSUME ~Final(p, s) PROVE FALSE
    OBVIOUS
<1> DEFINE C == s.color
           K == s.stack
           N == Names(p.nodes)
<1>1. C \in Colors(p) /\ K \in Seq(Entries(p)) /\ Good(p, C, K) /\ ~s.found
    BY DEF SoundSearch, Final, Searches
<1>2. ASSUME NEW n \in N PROVE C[n] = 2
    <2>1. Len(Kids(p, n)) \in Nat
        BY KidsIs
    <2>2. Len(Kids(p, n)) + 1 \in 0..Len(Kids(p, n)) + 1
        BY <2>1
    <2> DEFINE j == Len(Kids(p, n)) + 1
               u == <<n, j>>
    <2>3. u \in SearchSteps(p) /\ u[1] = n /\ u[2] = j
        BY <2>2, SearchStepsAre
    <2> HIDE DEF u, j
    <2>4. Taken(p, C, K, n, j)
        BY <2>3 DEF Used
    <2>5. ASSUME NEW i \in 1..Len(K), j <= Len(Kids(p, n)) - Len(K[i].children) PROVE FALSE
        <3>1. K[i].children \in Seq(STRING)
            BY <1>1, EntriesAre
        <3>2. Len(K[i].children) \in Nat
            BY <3>1
        <3> QED BY <2>1, <2>5, <3>2, Between DEF j
    <2> QED BY <2>4, <2>5 DEF Taken
<1>3. K = <<>>
    <2> SUFFICES ASSUME K # <<>> PROVE FALSE
        OBVIOUS
    <2>1. 1 \in 1..Len(K)
        BY <1>1
    <2>2. K[1].name \in N
        BY <1>1, <2>1, EntriesAre
    <2>3. C[K[1].name] = 1
        BY <1>1, <2>1, <2>2 DEF Good, OpenNodes
    <2> QED BY <1>2, <2>2, <2>3
<1> QED BY <1>2, <1>3 DEF Final

LEMMA FinalSays ==
    ASSUME NEW p \in NodeGraphs, NEW s \in Searches(p), SoundSearch(p, s), Final(p, s)
    PROVE  s.found <=> Endless(Leading(p)) # {}
<1>1. CASE s.found
    BY <1>1 DEF SoundSearch
<1>2. CASE ~s.found
    <2>1. Good(p, s.color, <<>>) /\ s.color \in Colors(p) /\ \A n \in Names(p.nodes) : s.color[n] # 0
        BY <1>2 DEF SoundSearch, Final, Searches
    <2> QED BY <1>2, <2>1, AllDone
<1> QED BY <1>1, <1>2

(* How far the search is after k steps.                                       *)
SearchAlong(p, k, s) ==
    s \in Searches(p) /\ SoundSearch(p, s) /\ (Final(p, s) \/ k <= Cardinality(Used(p, s)))

LEMMA CyclicIs ==
    ASSUME NEW p \in NodeGraphs
    PROVE  PerspectiveCyclic(p) <=> Endless(Leading(p)) # {}
<1> DEFINE n == Cardinality(SearchSteps(p))
           b == [color |-> [x \in Names(p.nodes) |-> 0], stack |-> <<>>, found |-> FALSE]
           Right(g) == g = [k \in 0..n |-> IF k = 0 THEN b ELSE SearchStep(p, g[k - 1])]
           IP == {s \in Searches(p) : SoundSearch(p, s)}
<1>1. n \in Nat
    BY SearchStepsAre, FS_CardinalityType
<1>2. b \in IP
    <2> DEFINE C == [x \in Names(p.nodes) |-> 0]
    <2>1. C \in Colors(p) /\ \A x \in Names(p.nodes) : C[x] = 0
        BY DEF Colors
    <2>2. <<>> \in Seq(Entries(p))
        OBVIOUS
    <2> HIDE DEF C
    <2>3. Good(p, C, <<>>)
        BY <2>1, GoodStart
    <2> DEFINE s == [color |-> C, stack |-> <<>>, found |-> FALSE]
    <2>4. s.color = C /\ s.stack = <<>> /\ s.found = FALSE
        OBVIOUS
    <2>5. s \in Searches(p)
        BY <2>1, <2>2 DEF Searches
    <2> HIDE DEF s
    <2>6. SoundSearch(p, s)
        BY <2>3, <2>4 DEF SoundSearch
    <2> QED BY <2>5, <2>6 DEF s, C
<1>3. \E g : Right(g)
    <2> DEFINE step == [s \in IP |-> SearchStep(p, s)]
    <2>1. step \in [IP -> IP]
        BY SoundStep
    <2>2. PICK f \in [Nat -> IP] : f[0] = b /\ \A k \in Nat : f[k + 1] = step[f[k]]
        <3> HIDE DEF step, IP, b
        <3>1. \E f : Iterates(f, IP, b, step)
            BY <1>2, <2>1, Iteration
        <3> QED BY <3>1 DEF Iterates
    <2>3. \A k \in Nat : f[k + 1] = SearchStep(p, f[k])
        <3> HIDE DEF IP
        <3> QED BY <2>2
    <2> HIDE DEF b, IP, step, n
    <2>4. ASSUME NEW k \in 0..n, k # 0 PROVE f[k] = SearchStep(p, f[k - 1])
        <3>1. k - 1 \in Nat /\ (k - 1) + 1 = k
            BY <1>1, <2>4
        <3>2. f[(k - 1) + 1] = SearchStep(p, f[k - 1])
            BY <2>3, <3>1
        <3> QED BY <3>1, <3>2
    <2> DEFINE g == [k \in 0..n |-> f[k]]
    <2>5. \A k \in 0..n : k # 0 => g[k - 1] = f[k - 1]
        BY <1>1
    <2>6. \A k \in 0..n : g[k] = IF k = 0 THEN b ELSE SearchStep(p, g[k - 1])
        BY <2>2, <2>4, <2>5
    <2>7. g = [k \in 0..n |-> IF k = 0 THEN b ELSE SearchStep(p, g[k - 1])]
        BY <2>6
    <2> QED BY <2>7, Zenon
<1>4. PICK g : Right(g) /\ PerspectiveCyclic(p) = g[n].found
    BY <1>3, Zenon DEF PerspectiveCyclic
<1> HIDE DEF b
<1>a. g[0] = b /\ \A k \in Nat : k + 1 <= n => g[k + 1] = SearchStep(p, g[k])
    BY <1>1, <1>4
<1> HIDE DEF n, Right
<1> DEFINE T == {k \in Nat : k <= n => SearchAlong(p, k, g[k])}
<1>5. Nat \subseteq T
    <2>1. 0 \in T
        <3>1. IsFiniteSet(Used(p, b))
            BY SearchStepsAre, FS_Subset DEF Used
        <3>2. Cardinality(Used(p, b)) \in Nat
            BY <3>1, FS_CardinalityType
        <3>3. 0 <= Cardinality(Used(p, b))
            BY <3>2
        <3>4. SearchAlong(p, 0, b)
            BY <1>2, <3>3 DEF SearchAlong
        <3> QED BY <1>a, <3>4
    <2>2. ASSUME NEW k \in Nat, k \in T PROVE k + 1 \in T
        <3>1. SUFFICES ASSUME k + 1 <= n
              PROVE  SearchAlong(p, k + 1, g[k + 1])
            OBVIOUS
        <3>2. SearchAlong(p, k, g[k])
            <4>1. k <= n
                BY <1>1, <3>1
            <4> QED BY <2>2, <4>1
        <3> DEFINE s == g[k]
                   t == g[k + 1]
        <3>3. t = SearchStep(p, s)
            BY <1>a, <3>1
        <3>4. s \in Searches(p) /\ SoundSearch(p, s)
            BY <3>2 DEF SearchAlong
        <3> HIDE DEF s, t
        <3>5. t \in Searches(p) /\ SoundSearch(p, t)
            BY <3>3, <3>4, SoundStep
        <3>6. CASE Final(p, s)
            <4>1. t = s
                BY <3>3, <3>4, <3>6, FinalStays
            <4> QED BY <3>5, <3>6, <4>1 DEF t, SearchAlong
        <3>7. CASE ~Final(p, s) /\ Final(p, t)
            BY <3>5, <3>7 DEF t, SearchAlong
        <3>8. CASE ~Final(p, s) /\ ~Final(p, t)
            <4>1. Grows(p, s.color, s.stack, t.color, t.stack)
                BY <3>3, <3>4, <3>8, GrowsOrFinal
            <4>2. Cardinality(Used(p, s)) + 1 <= Cardinality(Used(p, t)) /\ Cardinality(Used(p, s)) \in Nat
                BY <4>1, UsedMore
            <4>3. k <= Cardinality(Used(p, s))
                BY <3>2, <3>8 DEF s, SearchAlong
            <4>4. IsFiniteSet(Used(p, t))
                BY SearchStepsAre, FS_Subset DEF Used
            <4>5. Cardinality(Used(p, t)) \in Nat
                BY <4>4, FS_CardinalityType
            <4>6. k + 1 <= Cardinality(Used(p, t))
                BY <4>2, <4>3, <4>5
            <4> QED BY <3>5, <4>6 DEF t, SearchAlong
        <3> QED BY <3>6, <3>7, <3>8
    <2> HIDE DEF T
    <2> QED BY <2>1, <2>2, Induction
<1>6. SearchAlong(p, n, g[n])
    <2>1. n \in T /\ n <= n
        <3> HIDE DEF T
        <3> QED BY <1>1, <1>5
    <2> QED BY <2>1
<1> DEFINE s == g[n]
<1>7. s \in Searches(p) /\ SoundSearch(p, s)
    BY <1>6 DEF SearchAlong
<1>8. n <= Cardinality(Used(p, s)) => Used(p, s) = SearchSteps(p)
    <2>1. Used(p, s) \in SUBSET SearchSteps(p) /\ IsFiniteSet(SearchSteps(p))
        BY SearchStepsAre DEF Used
    <2>2. /\ IsFiniteSet(Used(p, s)) /\ Cardinality(Used(p, s)) <= n
          /\ Cardinality(Used(p, s)) = n => Used(p, s) = SearchSteps(p)
        BY <2>1, FS_Subset DEF n
    <2>3. Cardinality(Used(p, s)) \in Nat
        BY <2>2, FS_CardinalityType
    <2> QED BY <1>1, <2>2, <2>3
<1>9. Final(p, s)
    <2> HIDE DEF s
    <2> QED BY <1>6, <1>7, <1>8, AllTaken DEF s, SearchAlong
<1>10. s.found <=> Endless(Leading(p)) # {}
    <2> HIDE DEF s
    <2> QED BY <1>7, <1>9, FinalSays
<1> QED BY <1>4, <1>10

LEMMA PerspectivesJudged == ASSUME NEW m \in Models PROVE PerspectivesSaid(m, Validate(m))
<1>1. m.perspectives \in Seq(Perspectives) /\ Perspectives = NodeGraphs
    BY DEF Models, Perspectives, NodeGraphs
<1>2. \A q \in ToSet(m.perspectives) : q \in NodeGraphs
    BY <1>1, NamesOf
<1>3. \A q : Leading(q) = [n \in Names(q.nodes) |-> ToSet(LastNamed(q.nodes, n).children)]
    BY DEF Leading, Kids
<1>4. Blamed(Validate(m), "perspective-node-cycle") = {p.name : p \in NodesCyclic(m)}
    BY BlamedIs
<1>5. NodesCyclic(m) = {q \in ToSet(m.perspectives) : Endless(Leading(q)) # {}}
    BY <1>2, CyclicIs DEF NodesCyclic
<1>6. \A p \in ToSet(m.perspectives) :
          p.name \in Blamed(Validate(m), "perspective-node-cycle")
          <=> \E q \in ToSet(m.perspectives) : q.name = p.name /\ Endless(Leading(q)) # {}
    BY <1>4, <1>5
<1> QED BY <1>3, <1>6 DEF PerspectivesSaid

LEMMA AllChainsSaid == ASSUME NEW m \in Models PROVE ChainsSaid(m, Validate(m))
    BY BasesJudged, NestingJudged, PerspectivesJudged DEF ChainsSaid

-------------------------------------------------------------------------------
(* The companion specifications that are loaded.                              *)
(* The closure of the imports has all that any of its members requires        *)
(* (nodeset/registry.go).                                                     *)

(* The bundled specs, and which of them are loaded together.                  *)
Closed(A) == A \subseteq DOMAIN Specs /\ \A v \in A : Specs[v].requires \subseteq A
More(r) == [u \in DOMAIN Specs |-> UNION {r[v] : v \in r[u]}]
Reaches(r, k) ==
    /\ r \in [DOMAIN Specs -> SUBSET DOMAIN Specs]
    /\ \A u \in DOMAIN Specs : u \in r[u] /\ Specs[u].requires \subseteq r[u]
    /\ \A u \in DOMAIN Specs : \A A \in SUBSET DOMAIN Specs : Closed(A) /\ u \in A => r[u] \subseteq A
    /\ \A u \in DOMAIN Specs : Closed(r[u]) \/ k + 1 <= Cardinality(r[u])

LEMMA ReachesMore ==
    ASSUME NEW r, NEW k \in Nat, Reaches(r, k)
    PROVE  Reaches(More(r), k + 1)
<1> DEFINE D == DOMAIN Specs
           q == More(r)
<1>1. \A u \in D : q[u] = UNION {r[v] : v \in r[u]} /\ r[u] \subseteq D
    BY DEF More, Reaches
<1>2. q \in [D -> SUBSET D]
    BY DEF More, Reaches
<1>3. \A u \in D : r[u] \subseteq q[u]
    BY <1>1 DEF Reaches
<1>4. \A u \in D : u \in q[u] /\ Specs[u].requires \subseteq q[u]
    BY <1>3 DEF Reaches
<1>5. ASSUME NEW u \in D, NEW A \in SUBSET D, Closed(A), u \in A PROVE q[u] \subseteq A
    <2>1. r[u] \subseteq A
        BY <1>5 DEF Reaches
    <2>2. \A v \in r[u] : r[v] \subseteq A
        BY <1>5, <2>1 DEF Reaches
    <2> QED BY <1>1, <2>2
<1>6. ASSUME NEW u \in D PROVE Closed(q[u]) \/ (k + 1) + 1 <= Cardinality(q[u])
    <2>1. CASE Closed(r[u])
        <3>1. q[u] \subseteq r[u]
            <4>1. r[u] \in SUBSET D /\ u \in r[u]
                BY DEF Reaches
            <4> QED BY <1>5, <2>1, <4>1
        <3>2. q[u] = r[u]
            BY <1>3, <3>1
        <3> QED BY <2>1, <3>2
    <2>2. CASE ~Closed(r[u])
        <3>1. PICK v \in r[u] : ~(Specs[v].requires \subseteq r[u])
            BY <1>1, <2>2 DEF Closed
        <3>2. PICK w \in Specs[v].requires : w \notin r[u]
            BY <3>1
        <3>3. w \in q[u]
            <4>1. v \in D
                BY <1>1, <3>1
            <4>2. w \in r[v]
                BY <3>2, <4>1 DEF Reaches
            <4> QED BY <1>1, <3>1, <4>2
        <3> DEFINE X == r[u]
                   Y == q[u]
        <3>4. X \subseteq Y /\ w \in Y /\ w \notin X /\ Y \subseteq D
            BY <1>2, <1>3, <3>2, <3>3
        <3>5. k + 1 <= Cardinality(X)
            BY <2>2 DEF Reaches
        <3> HIDE DEF X, Y
        <3>6. IsFiniteSet(Y)
            BY <3>4, SpecsAssumption, FS_Subset
        <3>7. IsFiniteSet(X) /\ Cardinality(X) <= Cardinality(Y) /\ Cardinality(X) # Cardinality(Y)
            BY <3>4, <3>6, FS_Subset
        <3>8. Cardinality(X) \in Nat /\ Cardinality(Y) \in Nat
            BY <3>6, <3>7, FS_CardinalityType
        <3>9. (k + 1) + 1 <= Cardinality(Y)
            BY <3>5, <3>7, <3>8
        <3> QED BY <3>9 DEF Y
    <2> QED BY <2>1, <2>2
<1> HIDE DEF q
<1>7. Reaches(q, k + 1)
    BY <1>2, <1>4, <1>5, <1>6 DEF Reaches
<1> QED BY <1>7 DEF q

LEMMA RequiredIs ==
    /\ Required \in [DOMAIN Specs -> SUBSET DOMAIN Specs]
    /\ \A u \in DOMAIN Specs : u \in Required[u] /\ Closed(Required[u])
<1> DEFINE D == DOMAIN Specs
           n == Cardinality(D)
           b == [u \in D |-> {u} \cup Specs[u].requires]
           Right(g) == g = [k \in 0..n |-> IF k = 0 THEN b ELSE More(g[k - 1])]
           S == [D -> SUBSET D]
<1>1. n \in Nat /\ IsFiniteSet(D)
    BY SpecsAssumption, FS_CardinalityType
<1>2. b \in S
    BY SpecsAssumption
<1>3. \E g : Right(g)
    <2> DEFINE step == [r \in S |-> More(r)]
    <2>1. step \in [S -> S]
        BY DEF More
    <2>2. PICK f \in [Nat -> S] : f[0] = b /\ \A k \in Nat : f[k + 1] = step[f[k]]
        <3> HIDE DEF step, S, b
        <3>1. \E f : Iterates(f, S, b, step)
            BY <1>2, <2>1, Iteration
        <3> QED BY <3>1 DEF Iterates
    <2>3. \A k \in Nat : f[k + 1] = More(f[k])
        <3> HIDE DEF S
        <3> QED BY <2>2
    <2> HIDE DEF b, S, step, n
    <2>4. ASSUME NEW k \in 0..n, k # 0 PROVE f[k] = More(f[k - 1])
        <3>1. k - 1 \in Nat /\ (k - 1) + 1 = k
            BY <1>1, <2>4
        <3>2. f[(k - 1) + 1] = More(f[k - 1])
            BY <2>3, <3>1
        <3> QED BY <3>1, <3>2
    <2> DEFINE g == [k \in 0..n |-> f[k]]
    <2>5. \A k \in 0..n : k # 0 => g[k - 1] = f[k - 1]
        BY <1>1
    <2>6. \A k \in 0..n : g[k] = IF k = 0 THEN b ELSE More(g[k - 1])
        BY <2>2, <2>4, <2>5
    <2>7. g = [k \in 0..n |-> IF k = 0 THEN b ELSE More(g[k - 1])]
        BY <2>6
    <2> QED BY <2>7, Zenon
<1>4. PICK g : Right(g) /\ Required = g[n]
    BY <1>3, Zenon DEF Required, More
<1> HIDE DEF b
<1>a. g[0] = b /\ \A k \in Nat : k + 1 <= n => g[k + 1] = More(g[k])
    BY <1>1, <1>4
<1> HIDE DEF n, Right, S
<1> DEFINE T == {k \in Nat : k <= n => Reaches(g[k], k)}
<1>5. Nat \subseteq T
    <2>1. 0 \in T
        <3>1. ASSUME NEW u \in D PROVE Closed(b[u]) \/ 0 + 1 <= Cardinality(b[u])
            <4> DEFINE X == b[u]
            <4>1. X \subseteq D /\ u \in X
                BY <1>2 DEF b, S
            <4> HIDE DEF X
            <4>2. IsFiniteSet(X)
                BY <1>1, <4>1, FS_Subset
            <4>3. Cardinality(X) \in Nat
                BY <4>2, FS_CardinalityType
            <4>4. Cardinality(X) # 0
                BY <4>1, <4>2, FS_EmptySet
            <4>5. 0 + 1 <= Cardinality(X)
                BY <4>3, <4>4
            <4> QED BY <4>5 DEF X
        <3>2. \A u \in D : u \in b[u] /\ Specs[u].requires \subseteq b[u]
            BY DEF b
        <3>3. \A u \in D : \A A \in SUBSET D : Closed(A) /\ u \in A => b[u] \subseteq A
            BY DEF b, Closed
        <3>4. Reaches(b, 0)
            BY <1>2, <3>1, <3>2, <3>3 DEF Reaches, S
        <3> QED BY <1>a, <3>4
    <2>2. ASSUME NEW k \in Nat, k \in T PROVE k + 1 \in T
        <3> SUFFICES ASSUME k + 1 <= n PROVE Reaches(g[k + 1], k + 1)
            OBVIOUS
        <3>1. k <= n
            BY <1>1
        <3>2. Reaches(g[k], k)
            BY <2>2, <3>1
        <3> QED BY <1>a, <3>2, ReachesMore
    <2> HIDE DEF T
    <2> QED BY <2>1, <2>2, Induction
<1>6. Reaches(g[n], n)
    <2>1. n \in T /\ n <= n
        <3> HIDE DEF T
        <3> QED BY <1>1, <1>5
    <2> QED BY <2>1
<1> DEFINE r == Required
<1>7. Reaches(r, n)
    BY <1>4, <1>6
<1> HIDE DEF r
<1>8. ASSUME NEW u \in D PROVE Closed(r[u])
    <2>1. r[u] \in SUBSET D
        BY <1>7 DEF Reaches
    <2>2. IsFiniteSet(r[u]) /\ Cardinality(r[u]) <= n
        BY <1>1, <2>1, FS_Subset DEF n
    <2>3. Cardinality(r[u]) \in Nat
        BY <2>2, FS_CardinalityType
    <2>4. ~(n + 1 <= Cardinality(r[u]))
        BY <1>1, <2>2, <2>3
    <2> QED BY <1>7, <2>4 DEF Reaches
<1>9. r \in [D -> SUBSET D] /\ \A u \in D : u \in r[u]
    BY <1>7 DEF Reaches
<1> QED BY <1>8, <1>9 DEF r

LEMMA LoadedIs ==
    ASSUME NEW uris
    PROVE  UA \in Loaded(uris) /\ Closed(Loaded(uris)) /\ uris \cap DOMAIN Specs \subseteq Loaded(uris)
<1> DEFINE D == DOMAIN Specs
<1>1. \A u \in D : u \in Required[u] /\ Closed(Required[u]) /\ Required[u] \subseteq D
    BY RequiredIs
<1>2. Loaded(uris) = {UA} \cup UNION {Required[u] : u \in uris \cap D}
    BY DEF Loaded
<1>3. UA \in D /\ Specs[UA].requires = {}
    BY SpecsAssumption
<1>4. \A v \in Loaded(uris) : v = UA \/ \E u \in uris \cap D : v \in Required[u]
    BY <1>2
<1>5. \A u \in uris \cap D : Required[u] \subseteq Loaded(uris)
    BY <1>2
<1>6. Closed(Loaded(uris))
    BY <1>1, <1>3, <1>4, <1>5 DEF Closed
<1> QED BY <1>1, <1>2, <1>5, <1>6

LEMMA LoadedAll == Loaded(DOMAIN Specs) = DOMAIN Specs
    BY LoadedIs DEF Closed

-------------------------------------------------------------------------------
(* The models of every state.                                                 *)
(* An edit of a model yields a model; what the tools see of it is a model too.*)

Plain == {m \in Models : m.catalog = {}}

LEMMA SeqEdits ==
    ASSUME NEW S, NEW s \in Seq(S), NEW d \in S
    PROVE  /\ Append(s, d) \in Seq(S)
           /\ \A i \in DOMAIN s : [s EXCEPT ![i] = d] \in Seq(S)
    OBVIOUS

LEMMA CutIs ==
    ASSUME NEW S, NEW s \in Seq(S), NEW i \in 1..Len(s)
    PROVE  SubSeq(s, 1, i - 1) \o SubSeq(s, i + 1, Len(s)) \in Seq(S)
<1>1. Len(s) \in Nat
    OBVIOUS
<1>2. SubSeq(s, 1, i - 1) \in Seq(S)
    <2> DEFINE f == [k \in 1..i - 1 |-> s[k]]
    <2>1. SubSeq(s, 1, i - 1) = f
        BY <1>1
    <2>2. i - 1 \in Nat /\ \A k \in 1..i - 1 : s[k] \in S
        BY <1>1
    <2>3. f \in Seq(S)
        BY <2>2
    <2> QED BY <2>1, <2>3
<1>3. SubSeq(s, i + 1, Len(s)) \in Seq(S)
    <2> DEFINE f == [k \in 1..Len(s) - i |-> s[i + k]]
    <2>1. Len(s) - i \in Nat /\ \A k \in 1..Len(s) - i : s[i + k] \in S
        BY <1>1
    <2>2. f \in Seq(S)
        BY <2>1
    <2>3. SubSeq(s, i + 1, Len(s)) = f
        BY <1>1
    <2> QED BY <2>2, <2>3
<1> QED BY <1>2, <1>3

LEMMA WithoutIs ==
    ASSUME NEW S, NEW s \in Seq(S), NEW n
    PROVE  Without(s, n) \in Seq(S)
<1> DEFINE I == {i \in 1..Len(s) : s[i].name = n}
           c == IF I # {} THEN Min(I) ELSE 0
<1>1. Without(s, n) = IF \E i \in 1..Len(s) : s[i].name = n THEN RemoveAt(s, c) ELSE s
    BY DEF Without, RemoveFirstMatch, SelectInSeq
<1>2. CASE \E i \in 1..Len(s) : s[i].name = n
    <2>1. I # {} /\ I \subseteq Nat
        BY <1>2
    <2>2. \E k \in I : \A j \in I : k <= j
        <3> HIDE DEF I
        <3> QED BY <2>1, LeastOf
    <2>3. Min(I) \in I
        <3> HIDE DEF I
        <3> QED BY <2>2 DEF Min
    <2>4. c \in 1..Len(s)
        BY <2>1, <2>3
    <2> HIDE DEF c
    <2>5. RemoveAt(s, c) \in Seq(S)
        BY <2>4, CutIs DEF RemoveAt
    <2> QED BY <1>1, <1>2, <2>5
<1>3. CASE ~\E i \in 1..Len(s) : s[i].name = n
    <2> HIDE DEF c
    <2> QED BY <1>1, <1>3
<1> QED BY <1>2, <1>3

LEMMA RewrittenIs ==
    ASSUME NEW S, NEW s \in Seq(S), NEW some, some \subseteq S, NEW t \in Rewritten(s, some)
    PROVE  t \in Seq(S)
    BY SeqEdits DEF Rewritten

LEMMA PlainEdits ==
    ASSUME NEW m \in Plain
    PROVE  /\ m.imports \in Seq(Imports) /\ m.enums \in Seq(Enums) /\ m.types \in Seq(Types)
           /\ m.instances \in Seq(Instances) /\ m.perspectives \in Seq(Perspectives)
           /\ m.header \in Headers /\ m.skip \in BOOLEAN
           /\ \A s \in Seq(Imports) : [m EXCEPT !.imports = s] \in Plain
           /\ \A s \in Seq(Enums) : [m EXCEPT !.enums = s] \in Plain
           /\ \A s \in Seq(Types) : [m EXCEPT !.types = s] \in Plain
           /\ \A s \in Seq(Instances) : [m EXCEPT !.instances = s] \in Plain
           /\ \A s \in Seq(Perspectives) : [m EXCEPT !.perspectives = s] \in Plain
           /\ \A h \in Headers : [m EXCEPT !.header = h] \in Plain
           /\ [m EXCEPT !.skip = ~@] \in Plain
<1> DEFINE Is == Seq(Imports)
           Es == Seq(Enums)
           Ts == Seq(Types)
           Ns == Seq(Instances)
           Ps == Seq(Perspectives)
           Cs == SUBSET DOMAIN Specs
<1>1. Models = [header : Headers, skip : BOOLEAN, imports : Is, enums : Es, types : Ts, instances : Ns,
                perspectives : Ps, catalog : Cs]
    BY DEF Models
<1> HIDE DEF Is, Es, Ts, Ns, Ps, Cs
<1>2. m \in Models /\ m.catalog = {}
    BY DEF Plain
<1>3. /\ m.imports \in Is /\ m.enums \in Es /\ m.types \in Ts
      /\ m.instances \in Ns /\ m.perspectives \in Ps
      /\ m.header \in Headers /\ m.skip \in BOOLEAN
    BY <1>1, <1>2
<1>4. \A s \in Is : [m EXCEPT !.imports = s] \in Plain
    BY <1>1, <1>2 DEF Plain
<1>5. \A s \in Es : [m EXCEPT !.enums = s] \in Plain
    BY <1>1, <1>2 DEF Plain
<1>6. \A s \in Ts : [m EXCEPT !.types = s] \in Plain
    BY <1>1, <1>2 DEF Plain
<1>7. \A s \in Ns : [m EXCEPT !.instances = s] \in Plain
    BY <1>1, <1>2 DEF Plain
<1>8. \A s \in Ps : [m EXCEPT !.perspectives = s] \in Plain
    BY <1>1, <1>2 DEF Plain
<1>9. \A h \in Headers : [m EXCEPT !.header = h] \in Plain
    BY <1>1, <1>2 DEF Plain
<1>10. [m EXCEPT !.skip = ~@] \in Plain
    BY <1>1, <1>2 DEF Plain
<1> QED BY <1>3, <1>4, <1>5, <1>6, <1>7, <1>8, <1>9, <1>10 DEF Is, Es, Ts, Ns, Ps

LEMMA PutType ==
    ASSUME TypeOK, NEW m \in Plain, edits < MaxEdits, Put(m)
    PROVE  TypeOK'
<1>1. MaxEdits \in Nat
    BY InputsAssumption
<1>2. edits' \in 0..MaxEdits /\ base' = base /\ draft' = m
    BY <1>1 DEF TypeOK, Put
<1> QED BY <1>2 DEF TypeOK, Plain

LEMMA StepType ==
    ASSUME TypeOK, [Next]_toolVars
    PROVE  TypeOK'
<1>1. draft \in Plain
    BY DEF TypeOK, Plain
<1>2. CASE UNCHANGED toolVars
    BY <1>2 DEF TypeOK, toolVars
<1>3. ASSUME NEW m \in Plain, NEW force \in BOOLEAN, Mutate(m, force) PROVE TypeOK'
    BY <1>3, PutType DEF Mutate
<1>4. ASSUME NEW m \in Plain, UpdateDraft(m) PROVE TypeOK'
    BY <1>4, PutType DEF UpdateDraft
<1> DEFINE d == draft
<1>5. /\ d.imports \in Seq(Imports) /\ d.enums \in Seq(Enums) /\ d.types \in Seq(Types)
      /\ d.instances \in Seq(Instances) /\ d.perspectives \in Seq(Perspectives)
      /\ \A s \in Seq(Imports) : [d EXCEPT !.imports = s] \in Plain
      /\ \A s \in Seq(Enums) : [d EXCEPT !.enums = s] \in Plain
      /\ \A s \in Seq(Types) : [d EXCEPT !.types = s] \in Plain
      /\ \A s \in Seq(Instances) : [d EXCEPT !.instances = s] \in Plain
      /\ \A s \in Seq(Perspectives) : [d EXCEPT !.perspectives = s] \in Plain
      /\ \A h \in Headers : [d EXCEPT !.header = h] \in Plain
      /\ [d EXCEPT !.skip = ~@] \in Plain
    BY <1>1, PlainEdits
<1>6. ASSUME NEW force \in BOOLEAN, NEW im \in SomeImports, AddImport(im, force) PROVE TypeOK'
    <2>1. Append(d.imports, im) \in Seq(Imports)
        BY <1>5, InputsAssumption, SeqEdits
    <2>2. [d EXCEPT !.imports = Append(@, im)] \in Plain
        BY <1>5, <2>1
    <2> QED BY <1>3, <1>6, <2>2 DEF AddImport
<1>7. ASSUME NEW force \in BOOLEAN, NEW ot \in SomeTypes, AddType(ot, force) PROVE TypeOK'
    <2>1. Append(d.types, ot) \in Seq(Types)
        BY <1>5, InputsAssumption, SeqEdits
    <2>2. [d EXCEPT !.types = Append(@, ot)] \in Plain
        BY <1>5, <2>1
    <2> QED BY <1>3, <1>7, <2>2 DEF AddType
<1>8. ASSUME NEW force \in BOOLEAN, NEW inst \in SomeInstances, AddInstance(inst, force) PROVE TypeOK'
    <2>1. Append(d.instances, inst) \in Seq(Instances)
        BY <1>5, InputsAssumption, SeqEdits
    <2>2. [d EXCEPT !.instances = Append(@, inst)] \in Plain
        BY <1>5, <2>1
    <2> QED BY <1>3, <1>8, <2>2 DEF AddInstance
<1>9. ASSUME NEW force \in BOOLEAN, NEW n, RemoveImport(n, force) PROVE TypeOK'
    <2>1. Without(d.imports, n) \in Seq(Imports)
        BY <1>5, WithoutIs
    <2>2. [d EXCEPT !.imports = Without(@, n)] \in Plain
        BY <1>5, <2>1
    <2> QED BY <1>3, <1>9, <2>2 DEF RemoveImport
<1>10. ASSUME NEW force \in BOOLEAN, NEW n, RemoveType(n, force) PROVE TypeOK'
    <2>1. Without(d.types, n) \in Seq(Types)
        BY <1>5, WithoutIs
    <2>2. [d EXCEPT !.types = Without(@, n)] \in Plain
        BY <1>5, <2>1
    <2> QED BY <1>3, <1>10, <2>2 DEF RemoveType
<1>11. ASSUME NEW force \in BOOLEAN, NEW n, RemoveInstance(n, force) PROVE TypeOK'
    <2>1. Without(d.instances, n) \in Seq(Instances)
        BY <1>5, WithoutIs
    <2>2. [d EXCEPT !.instances = Without(@, n)] \in Plain
        BY <1>5, <2>1
    <2> QED BY <1>3, <1>11, <2>2 DEF RemoveInstance
<1>12. ASSUME NEW s \in Rewritten(d.imports, SomeImports), UpdateDraft([d EXCEPT !.imports = s]) PROVE TypeOK'
    <2>1. s \in Seq(Imports)
        BY <1>5, InputsAssumption, RewrittenIs
    <2> QED BY <1>4, <1>5, <1>12, <2>1
<1>13. ASSUME NEW s \in Rewritten(d.enums, SomeEnums), UpdateDraft([d EXCEPT !.enums = s]) PROVE TypeOK'
    <2>1. s \in Seq(Enums)
        BY <1>5, InputsAssumption, RewrittenIs
    <2> QED BY <1>4, <1>5, <1>13, <2>1
<1>14. ASSUME NEW s \in Rewritten(d.types, SomeTypes), UpdateDraft([d EXCEPT !.types = s]) PROVE TypeOK'
    <2>1. s \in Seq(Types)
        BY <1>5, InputsAssumption, RewrittenIs
    <2> QED BY <1>4, <1>5, <1>14, <2>1
<1>15. ASSUME NEW s \in Rewritten(d.instances, SomeInstances), UpdateDraft([d EXCEPT !.instances = s]) PROVE TypeOK'
    <2>1. s \in Seq(Instances)
        BY <1>5, InputsAssumption, RewrittenIs
    <2> QED BY <1>4, <1>5, <1>15, <2>1
<1>16. ASSUME NEW s \in Rewritten(d.perspectives, SomePerspectives), UpdateDraft([d EXCEPT !.perspectives = s])
       PROVE TypeOK'
    <2>1. s \in Seq(Perspectives)
        BY <1>5, InputsAssumption, RewrittenIs
    <2> QED BY <1>4, <1>5, <1>16, <2>1
<1>17. ASSUME NEW h \in SomeHeaders, UpdateDraft([d EXCEPT !.header = h]) PROVE TypeOK'
    BY <1>4, <1>5, <1>17, InputsAssumption
<1>18. ASSUME UpdateDraft([d EXCEPT !.skip = ~@]) PROVE TypeOK'
    BY <1>4, <1>5, <1>18
<1> QED BY <1>2, <1>6, <1>7, <1>8, <1>9, <1>10, <1>11, <1>12, <1>13, <1>14, <1>15, <1>16, <1>17, <1>18, Zenon DEF Next

(* The models of a draft and of what it was made from are models.             *)
THEOREM ModelTypes == Spec => []TypeOK
<1>1. Init => TypeOK
    <2>1. MaxEdits \in Nat => 0 \in 0..MaxEdits
        OBVIOUS
    <2> QED BY <2>1, InputsAssumption DEF Init, TypeOK
<1>2. TypeOK /\ [Next]_toolVars => TypeOK'
    BY StepType
<1> QED BY <1>1, <1>2, PTL DEF Spec

LEMMA JudgedIsModel ==
    ASSUME NEW m \in Plain
    PROVE  Judged(m) \in Models /\ Built(m) \in Models
<1>1. \A uris : Loaded(uris) \in SUBSET DOMAIN Specs
    BY LoadedIs DEF Closed
<1>2. \A uris \in SUBSET DOMAIN Specs : [m EXCEPT !.catalog = uris] \in Models
    <2> DEFINE Is == Seq(Imports)
               Es == Seq(Enums)
               Ts == Seq(Types)
               Ns == Seq(Instances)
               Ps == Seq(Perspectives)
               Cs == SUBSET DOMAIN Specs
    <2>1. Models = [header : Headers, skip : BOOLEAN, imports : Is, enums : Es, types : Ts, instances : Ns,
                    perspectives : Ps, catalog : Cs]
        BY DEF Models
    <2> HIDE DEF Is, Es, Ts, Ns, Ps
    <2>2. m \in Models
        BY DEF Plain
    <2> QED BY <2>1, <2>2
<1> QED BY <1>1, <1>2 DEF Judged, Built, WithCatalog

(* The three searches for cycles find all there are and no others.            *)
THEOREM LoopsAreFound == Spec => []ChainsJudged
<1>1. TypeOK => ChainsJudged
    <2> SUFFICES ASSUME TypeOK PROVE ChainsJudged
        OBVIOUS
    <2>1. draft \in Plain
        BY DEF TypeOK, Plain
    <2> DEFINE m == Judged(draft)
    <2>2. m \in Models
        BY <2>1, JudgedIsModel
    <2> HIDE DEF m
    <2>3. ChainsSaid(m, Validate(m))
        BY <2>2, AllChainsSaid
    <2> QED BY <2>3 DEF m, ChainsJudged
<1> QED BY <1>1, ModelTypes, PTL

-------------------------------------------------------------------------------
(* Walks and names where more is loaded.                                      *)
(* The whole bundle and the closure of the imports say the same of every name *)
(* of the file, and so the linter says the same.                              *)

LEMMA Compare == ASSUME NEW a \in Nat, NEW b \in Nat, a <= b PROVE a < b \/ a = b
    OBVIOUS

(* A walk is given by where it begins, how it goes on and where it ends.      *)
LEMMA PathsAgree ==
    ASSUME NEW up, NEW x, NEW S, NEW v \in Seq(S), NEW w \in Seq(S),
           IsPath(up, x, v), IsPath(up, x, w), Ends(up, v), Len(v) <= Len(w)
    PROVE  v = w
<1>1. /\ Len(v) \in Nat /\ Len(v) > 0 /\ DOMAIN v = 1..Len(v) /\ v[1] = x /\ Last(v) = v[Len(v)]
      /\ Len(w) \in Nat /\ DOMAIN w = 1..Len(w) /\ w[1] = x
    BY DEF IsPath, Last
<1>2. /\ \A i \in 1..Len(v) - 1 : v[i] \in DOMAIN up /\ v[i + 1] = up[v[i]]
      /\ \A i \in 1..Len(w) - 1 : w[i] \in DOMAIN up /\ w[i + 1] = up[w[i]]
      /\ \A i, j \in 1..Len(w) : w[i] = w[j] => i = j
    BY DEF IsPath
<1> DEFINE T == {k \in Nat : k + 1 <= Len(v) => w[k + 1] = v[k + 1]}
<1>3. 0 \in T
    BY <1>1
<1>4. ASSUME NEW k \in Nat, k \in T PROVE k + 1 \in T
    <2> SUFFICES ASSUME (k + 1) + 1 <= Len(v) PROVE w[(k + 1) + 1] = v[(k + 1) + 1]
        OBVIOUS
    <2>1. k + 1 \in 1..Len(v) - 1 /\ k + 1 \in 1..Len(w) - 1 /\ k + 1 <= Len(v)
        BY <1>1
    <2>2. w[k + 1] = v[k + 1]
        BY <1>4, <2>1
    <2> QED BY <1>2, <2>1, <2>2
<1> HIDE DEF T
<1>5. Nat \subseteq T
    BY <1>3, <1>4, Induction
<1>6. \A i \in 1..Len(v) : w[i] = v[i]
    <2> TAKE i \in 1..Len(v)
    <2>1. i - 1 \in Nat /\ (i - 1) + 1 = i /\ i <= Len(v)
        BY <1>1
    <2>2. i - 1 \in T
        BY <1>5, <2>1
    <2> QED BY <2>1, <2>2 DEF T
<1>7. Len(v) = Len(w)
    <2>0. Len(v) < Len(w) \/ Len(v) = Len(w)
        BY <1>1, Compare
    <2> SUFFICES ASSUME Len(v) < Len(w) PROVE FALSE
        BY <2>0
    <2> DEFINE L == Len(v)
    <2>1. L \in 1..Len(w) - 1 /\ L \in 1..L /\ L + 1 \in 1..Len(w)
        BY <1>1
    <2>2. w[L] = v[L] /\ w[L] \in DOMAIN up /\ w[L + 1] = up[w[L]]
        BY <1>2, <1>6, <2>1
    <2>3. Contains(v, w[L + 1])
        BY <1>1, <2>2 DEF Ends
    <2>4. PICK j \in 1..L : v[j] = w[L + 1]
        BY <2>3 DEF Contains
    <2>5. j \in 1..Len(w) /\ w[j] = w[L + 1]
        BY <1>1, <1>6, <2>4
    <2>6. j = L + 1
        BY <1>2, <2>1, <2>5
    <2> QED BY <1>1, <2>4, <2>6
<1> QED BY <1>1, <1>6, <1>7

(* Functions that lead on alike within a set take the same walks in it.       *)
AlikeIn(A, up, vp) ==
    \A y \in A : /\ y \in DOMAIN up <=> y \in DOMAIN vp
                 /\ y \in DOMAIN up => up[y] = vp[y] /\ up[y] \in A

LEMMA WalksAgree ==
    ASSUME NEW up, NEW vp, IsFiniteSet(DOMAIN up), IsFiniteSet(DOMAIN vp),
           NEW A, NEW x \in A, AlikeIn(A, up, vp)
    PROVE  Walk(up, x) = Walk(vp, x) /\ \A i \in DOMAIN Walk(up, x) : Walk(up, x)[i] \in A
<1> DEFINE w == Walk(up, x)
           v == Walk(vp, x)
           S == Places(up, x) \cup Places(vp, x)
<1>1. w \in Seq(S) /\ IsPath(up, x, w) /\ Ends(up, w)
    <2>1. w \in Seq(Places(up, x)) /\ IsPath(up, x, w) /\ Ends(up, w)
        BY WalkIs
    <2> HIDE DEF w
    <2> QED BY <2>1
<1>2. v \in Seq(S) /\ IsPath(vp, x, v) /\ Ends(vp, v)
    <2>1. v \in Seq(Places(vp, x)) /\ IsPath(vp, x, v) /\ Ends(vp, v)
        BY WalkIs
    <2> HIDE DEF v
    <2> QED BY <2>1
<1> HIDE DEF w, v, S
<1>3. Len(w) \in Nat /\ Len(w) > 0 /\ DOMAIN w = 1..Len(w) /\ w[1] = x /\ Last(w) = w[Len(w)]
    BY <1>1 DEF IsPath, Last
<1> DEFINE T == {k \in Nat : k + 1 <= Len(w) => w[k + 1] \in A}
<1>4. 0 \in T
    BY <1>3
<1>5. ASSUME NEW k \in Nat, k \in T PROVE k + 1 \in T
    <2> SUFFICES ASSUME (k + 1) + 1 <= Len(w) PROVE w[(k + 1) + 1] \in A
        OBVIOUS
    <2>1. k + 1 \in 1..Len(w) - 1 /\ k + 1 <= Len(w)
        BY <1>3
    <2>2. w[k + 1] \in A /\ w[k + 1] \in DOMAIN up /\ w[(k + 1) + 1] = up[w[k + 1]]
        BY <1>1, <1>5, <2>1 DEF IsPath
    <2> QED BY <2>2 DEF AlikeIn
<1> HIDE DEF T
<1>6. Nat \subseteq T
    BY <1>4, <1>5, Induction
<1>7. \A i \in 1..Len(w) : w[i] \in A
    <2> TAKE i \in 1..Len(w)
    <2>1. i - 1 \in Nat /\ (i - 1) + 1 = i /\ i <= Len(w)
        BY <1>3
    <2>2. i - 1 \in T
        BY <1>6, <2>1
    <2> QED BY <2>1, <2>2 DEF T
<1>8. IsPath(vp, x, w)
    <2>1. \A i \in 1..Len(w) - 1 : w[i] \in A /\ w[i] \in DOMAIN up /\ w[i + 1] = up[w[i]]
        <3> TAKE i \in 1..Len(w) - 1
        <3>1. i \in 1..Len(w)
            BY <1>3
        <3> QED BY <1>1, <1>7, <3>1 DEF IsPath
    <2>2. \A i \in 1..Len(w) - 1 : w[i] \in DOMAIN vp /\ w[i + 1] = vp[w[i]]
        BY <2>1 DEF AlikeIn
    <2> QED BY <1>1, <2>2 DEF IsPath
<1>9. Ends(vp, w)
    <2>1. Last(w) \in A
        BY <1>3, <1>7
    <2> QED BY <1>1, <2>1 DEF Ends, AlikeIn
<1>10. Len(v) \in Nat
    BY <1>2
<1>11. w = v
    <2>1. CASE Len(v) <= Len(w)
        BY <1>1, <1>2, <1>8, <2>1, PathsAgree
    <2>2. CASE Len(w) <= Len(v)
        BY <1>1, <1>2, <1>8, <1>9, <2>2, PathsAgree
    <2> QED BY <1>3, <1>10, <2>1, <2>2
<1> QED BY <1>3, <1>7, <1>11 DEF w, v

-------------------------------------------------------------------------------
(* Two models that differ in what is loaded, but mean the same by their names. *)
SameFile(m, n) ==
    /\ m.header = n.header /\ m.skip = n.skip /\ m.imports = n.imports /\ m.enums = n.enums
    /\ m.types = n.types /\ m.instances = n.instances /\ m.perspectives = n.perspectives
SameNames(m, n) ==
    /\ SameFile(m, n)
    /\ m.catalog # {} /\ n.catalog # {}
    /\ \A im \in ToSet(m.imports) : im.uri \in m.catalog <=> im.uri \in n.catalog
    /\ \A ref : ResolveType(m, ref) = ResolveType(n, ref)
    /\ \A ref : ResolveType(m, ref).kind = "importUnknown" =>
                    (ResolveType(m, ref).uri \in m.catalog <=> ResolveType(m, ref).uri \in n.catalog)
    /\ \A ref : FarMembers(m, ref) = FarMembers(n, ref)

(* A reference to what an import has.                                          *)
Imported(m, ref) == ref.alias # "" /\ ImportKnown(m, ref.alias)
FoundAlike(m, n, ref, uri) ==
    Imported(m, ref) => (InCatalog(m, uri, ref.name) <=> InCatalog(n, uri, ref.name))

SameDeclared(m, n) ==
    Names(m.imports) = Names(n.imports) /\ Names(m.enums) = Names(n.enums) /\ Names(m.types) = Names(n.types)

LEMMA ResolvedSame ==
    ASSUME NEW m, NEW n, SameDeclared(m, n), m.catalog # {}, n.catalog # {}, NEW ref, NEW uri,
           FoundAlike(m, n, ref, uri)
    PROVE  Resolved(m, ref, uri) = Resolved(n, ref, uri)
<1>1. ImportKnown(m, ref.alias) <=> ImportKnown(n, ref.alias)
    BY DEF SameDeclared, ImportKnown
<1>2. Names(m.types) = Names(n.types) /\ Names(m.enums) = Names(n.enums)
    BY DEF SameDeclared
<1> DEFINE loc == IF ref.name \in Names(m.enums) \cup Names(m.types) THEN "local" ELSE "unknownName"
           far == IF ~InCatalog(m, uri, ref.name) THEN "importUnknown"
                  ELSE IF uri = UA THEN "import" ELSE "importResolved"
           kindOf(known) ==
               CASE ref.alias = "" /\ ref.name \in Builtin -> "builtin"
                 [] ref.alias = "" /\ ref.name \notin Builtin -> loc
                 [] ref.alias # "" /\ ~known -> "unknownAlias"
                 [] ref.alias # "" /\ known -> far
<1>3. Resolved(m, ref, uri) = [uri |-> uri, name |-> ref.name, kind |->
          CASE ref.alias = "" /\ ref.name \in Builtin -> "builtin"
            [] ref.alias = "" /\ ref.name \notin Builtin -> loc
            [] ref.alias # "" /\ ~ImportKnown(m, ref.alias) -> "unknownAlias"
            [] ref.alias # "" /\ ImportKnown(m, ref.alias) -> IF m.catalog = {} THEN "import" ELSE far]
    BY Zenon DEF Resolved
<1> DEFINE farn == IF ~InCatalog(n, uri, ref.name) THEN "importUnknown"
                   ELSE IF uri = UA THEN "import" ELSE "importResolved"
<1>4. Resolved(n, ref, uri) = [uri |-> uri, name |-> ref.name, kind |->
          CASE ref.alias = "" /\ ref.name \in Builtin -> "builtin"
            [] ref.alias = "" /\ ref.name \notin Builtin -> loc
            [] ref.alias # "" /\ ~ImportKnown(n, ref.alias) -> "unknownAlias"
            [] ref.alias # "" /\ ImportKnown(n, ref.alias) -> IF n.catalog = {} THEN "import" ELSE farn]
    BY <1>2, Zenon DEF Resolved
<1>5. ref.alias # "" /\ ImportKnown(m, ref.alias) => far = farn
    BY DEF FoundAlike, Imported
<1> HIDE DEF loc, far, farn
<1> QED BY <1>1, <1>3, <1>4, <1>5

(* What is known of a resolved reference.                                     *)
Means(m, ref, uri, r) ==
    /\ r.uri = uri
    /\ r.kind \in {"import", "importUnknown", "importResolved"} => Imported(m, ref)
    /\ r.kind = "importResolved" => InCatalog(m, uri, ref.name) /\ uri # UA
    /\ r.kind = "import" /\ m.catalog # {} => InCatalog(m, uri, ref.name) /\ uri = UA
    /\ r.kind = "unknownAlias" => ref.alias # ""
    /\ r.kind \in {"builtin", "local", "unknownName"} => ref.alias = ""
    /\ r.kind = "local" => ref.name \in Names(m.enums) \cup Names(m.types)
    /\ r.kind \in {"builtin", "local", "unknownName", "unknownAlias",
                   "import", "importUnknown", "importResolved"}

LEMMA ResolvedIs ==
    ASSUME NEW m, NEW ref, NEW uri
    PROVE  Means(m, ref, uri, Resolved(m, ref, uri))
<1> DEFINE known == ImportKnown(m, ref.alias)
           here == ref.name \in Names(m.enums) \cup Names(m.types)
           there == InCatalog(m, uri, ref.name)
           loc == IF here THEN "local" ELSE "unknownName"
           empty == m.catalog = {}
           ns0 == uri = UA
           far == IF empty THEN "import" ELSE IF ~there THEN "importUnknown"
                  ELSE IF ns0 THEN "import" ELSE "importResolved"
           kind == CASE ref.alias = "" /\ ref.name \in Builtin -> "builtin"
                     [] ref.alias = "" /\ ref.name \notin Builtin -> loc
                     [] ref.alias # "" /\ ~known -> "unknownAlias"
                     [] ref.alias # "" /\ known -> far
<1>1. Resolved(m, ref, uri) = [uri |-> uri, name |-> ref.name, kind |-> kind]
    BY Zenon DEF Resolved
<1>2. loc \in {"local", "unknownName"} /\ (loc = "local" => here)
    OBVIOUS
<1>3. far \in {"import", "importUnknown", "importResolved"} /\ (far = "importResolved" => there /\ ~ns0)
      /\ (far = "import" /\ ~empty => there /\ ns0)
    OBVIOUS
<1> HIDE DEF loc, far, known, here, there, empty, ns0
<1>4. /\ kind \in {"import", "importUnknown", "importResolved"} => ref.alias # "" /\ known
      /\ kind = "importResolved" => there /\ ~ns0
      /\ kind = "import" /\ ~empty => there /\ ns0
      /\ kind = "unknownAlias" => ref.alias # ""
      /\ kind \in {"builtin", "local", "unknownName"} => ref.alias = ""
      /\ kind = "local" => here
      /\ kind \in {"builtin", "local", "unknownName", "unknownAlias", "import", "importUnknown", "importResolved"}
    BY <1>2, <1>3
<1> HIDE DEF kind
<1>5. Resolved(m, ref, uri).uri = uri /\ Resolved(m, ref, uri).kind = kind
    BY <1>1
<1> QED BY <1>4, <1>5 DEF Means, Imported, known, here, there, empty, ns0

LEMMA ImportURIIn ==
    ASSUME NEW m \in Plain, NEW alias, ImportKnown(m, alias)
    PROVE  ImportURI(m, alias) \in {UA} \cup {im.uri : im \in ToSet(m.imports)}
<1>1. m.imports \in Seq(Imports)
    BY PlainEdits
<1>2. CASE alias = "OpcUa"
    BY <1>2 DEF ImportURI
<1>3. CASE alias # "OpcUa"
    <2>1. alias \in Names(m.imports)
        BY <1>3 DEF ImportKnown
    <2>2. FirstNamed(m.imports, alias) \in ToSet(m.imports)
        BY <1>1, <2>1, Named
    <2> QED BY <1>3, <2>2 DEF ImportURI
<1> QED BY <1>2, <1>3

LEMMA BuiltSame ==
    ASSUME NEW m \in Plain
    PROVE  SameNames(Built(m), Judged(m)) /\ Built(m).catalog \subseteq Judged(m).catalog
<1> DEFINE B == Built(m)
           J == Judged(m)
           D == DOMAIN Specs
           uris == {im.uri : im \in ToSet(m.imports)}
           L == Loaded(uris)
<1>0. \A cat : /\ SameFile(m, [m EXCEPT !.catalog = cat]) /\ [m EXCEPT !.catalog = cat].catalog = cat
    BY DEF SameFile, Plain, Models
<1>1. SameFile(m, B) /\ SameFile(m, J) /\ B.catalog = L /\ J.catalog = D
    BY <1>0, LoadedAll DEF Built, Judged, WithCatalog
<1>2. UA \in L /\ UA \in D /\ Closed(L) /\ L \subseteq D /\ uris \cap D \subseteq L
    BY LoadedIs, SpecsAssumption DEF Closed
<1>3. SameFile(B, J) /\ B.catalog # {} /\ J.catalog # {} /\ B.imports = m.imports
    BY <1>1, <1>2 DEF SameFile
<1>u. \A u \in {UA} \cup uris : u \in L <=> u \in D
    BY <1>2
<1>4. \A im \in ToSet(B.imports) : im.uri \in B.catalog <=> im.uri \in J.catalog
    BY <1>1, <1>3, <1>u
<1> HIDE DEF B, J, L, uris, D
<1>5. \A alias : /\ ImportKnown(B, alias) <=> ImportKnown(m, alias)
                 /\ ImportKnown(J, alias) <=> ImportKnown(m, alias)
                 /\ ImportURI(B, alias) = ImportURI(m, alias)
                 /\ ImportURI(J, alias) = ImportURI(m, alias)
    BY <1>1 DEF SameFile, ImportKnown, ImportURI
<1> DEFINE home(ref) == IF ref.alias # "" /\ ImportKnown(m, ref.alias) THEN ImportURI(m, ref.alias) ELSE ""
<1>6. \A ref : ResolveType(B, ref) = Resolved(B, ref, home(ref)) /\ ResolveType(J, ref) = Resolved(J, ref, home(ref))
    <2> TAKE ref
    <2> QED BY <1>5, Zenon DEF ResolveType
<1>7. \A ref : ref.alias # "" /\ ImportKnown(m, ref.alias) => home(ref) \in {UA} \cup uris
    BY ImportURIIn DEF uris
<1> HIDE DEF home
<1>8. \A ref : ResolveType(B, ref) = ResolveType(J, ref)
    <2> TAKE ref
    <2> DEFINE u == home(ref)
    <2>1. FoundAlike(B, J, ref, u)
        BY <1>1, <1>5, <1>7, <1>u DEF FoundAlike, Imported, InCatalog
    <2>2. ResolveType(B, ref) = Resolved(B, ref, u) /\ ResolveType(J, ref) = Resolved(J, ref, u)
        BY <1>6
    <2> HIDE DEF u
    <2>4. SameDeclared(B, J)
        BY <1>3 DEF SameFile, SameDeclared
    <2>3. Resolved(B, ref, u) = Resolved(J, ref, u)
        BY <1>3, <2>1, <2>4, ResolvedSame
    <2> QED BY <2>2, <2>3
<1>9. ASSUME NEW ref, ResolveType(B, ref).kind \in {"importUnknown", "importResolved"}
      PROVE  /\ ResolveType(B, ref).uri \in {UA} \cup uris
             /\ ResolveType(B, ref).kind = "importResolved" => InCatalog(B, ResolveType(B, ref).uri, ref.name)
    <2> DEFINE u == home(ref)
    <2>1. ResolveType(B, ref) = Resolved(B, ref, u)
        BY <1>6
    <2>2. ref.alias # "" /\ ImportKnown(m, ref.alias) => u \in {UA} \cup uris
        BY <1>7
    <2> HIDE DEF u
    <2>3. Means(B, ref, u, Resolved(B, ref, u))
        BY ResolvedIs
    <2> QED BY <1>5, <1>9, <2>1, <2>2, <2>3 DEF Means, Imported
<1>10. \A ref : ResolveType(B, ref).kind = "importUnknown" =>
                    (ResolveType(B, ref).uri \in B.catalog <=> ResolveType(B, ref).uri \in J.catalog)
    BY <1>1, <1>9, <1>u
<1>11. ASSUME NEW ref PROVE FarMembers(B, ref) = FarMembers(J, ref)
    <2>1. Kind(B, ref) = Kind(J, ref) /\ CatalogKey(B, ref) = CatalogKey(J, ref)
        BY <1>8 DEF Kind, CatalogKey
    <2>2. CASE Kind(B, ref) # "importResolved"
        BY <2>1, <2>2 DEF FarMembers
    <2>3. CASE Kind(B, ref) = "importResolved"
        <3> DEFINE up == LoadedBases(B)
                   vp == LoadedBases(J)
                   A == {k \in SpecNodes : k[1] \in L}
                   x == CatalogKey(B, ref)
        <3>1. x \in A
            <4>1. InCatalog(B, ResolveType(B, ref).uri, ref.name)
                BY <1>9, <2>3 DEF Kind
            <4>2. x = <<ResolveType(B, ref).uri, ref.name>>
                BY DEF CatalogKey
            <4>3. ResolveType(B, ref).uri \in L /\ ResolveType(B, ref).uri \in D
                  /\ ref.name \in DOMAIN Specs[ResolveType(B, ref).uri].nodes
                BY <1>1, <1>2, <4>1 DEF InCatalog
            <4>4. x \in SpecNodes
                BY <4>2, <4>3 DEF SpecNodes, D
            <4> QED BY <4>2, <4>3, <4>4
        <3>2. /\ DOMAIN up = {k \in SpecNodes : Node(k).base \in SpecNodes /\ {k[1], Node(k).base[1]} \subseteq L}
              /\ \A k \in DOMAIN up : up[k] = Node(k).base
              /\ DOMAIN vp = {k \in SpecNodes : Node(k).base \in SpecNodes /\ {k[1], Node(k).base[1]} \subseteq D}
              /\ \A k \in DOMAIN vp : vp[k] = Node(k).base
            BY <1>1 DEF LoadedBases
        <3> HIDE DEF up, vp, x
        <3>3. IsFiniteSet(DOMAIN up) /\ IsFiniteSet(DOMAIN vp)
            BY <3>2, SpecsAssumption, FS_Subset
        <3>4. \A k \in SpecNodes : k[1] \in L /\ Node(k).base \in SpecNodes => Node(k).base[1] \in L
            <4>1. \A k \in SpecNodes : Node(k).base \in SpecNodes => Node(k).base[1] \in {k[1]} \cup Specs[k[1]].requires
                BY SpecsAssumption
            <4> QED BY <1>2, <4>1 DEF Closed
        <3>5. AlikeIn(A, up, vp)
            BY <1>2, <3>2, <3>4 DEF AlikeIn
        <3> HIDE DEF A
        <3>6. Walk(up, x) = Walk(vp, x)
            BY <3>1, <3>3, <3>5, WalksAgree
        <3> QED BY <2>1, <2>3, <3>6 DEF FarMembers, up, vp, x
    <2> QED BY <2>2, <2>3
<1>12. SameNames(B, J)
    BY <1>3, <1>4, <1>8, <1>10, <1>11 DEF SameNames
<1> QED BY <1>1, <1>2, <1>12 DEF B, J

-------------------------------------------------------------------------------
(* Where names mean the same, so does all that is made of them.               *)
LEMMA NamesSame ==
    ASSUME NEW m, NEW n, SameNames(m, n)
    PROVE  /\ \A ref : /\ Kind(m, ref) = Kind(n, ref) /\ CatalogKey(m, ref) = CatalogKey(n, ref)
                       /\ FarMembers(m, ref) = FarMembers(n, ref)
                       /\ Abstract(m, ref) <=> Abstract(n, ref)
           /\ \A ot : HasLocalBase(m, ot) <=> HasLocalBase(n, ot)
           /\ Bases(m) = Bases(n)
<1>1. m.types = n.types
    BY DEF SameNames, SameFile
<1>2. \A ref : /\ Kind(m, ref) = Kind(n, ref) /\ CatalogKey(m, ref) = CatalogKey(n, ref)
               /\ FarMembers(m, ref) = FarMembers(n, ref)
    BY DEF SameNames, Kind, CatalogKey
<1>3. \A ref : Abstract(m, ref) <=> Abstract(n, ref)
    BY <1>1, <1>2 DEF Abstract
<1>4. \A ot : HasLocalBase(m, ot) <=> HasLocalBase(n, ot)
    BY <1>1, <1>2 DEF HasLocalBase
<1>5. Bases(m) = Bases(n)
    <2> DEFINE D(k) == {t \in Names(m.types) : HasLocalBase(k, FirstNamed(m.types, t))}
    <2>1. D(m) = D(n)
        BY <1>4
    <2>2. /\ Bases(m) = [t \in D(m) |-> FirstNamed(m.types, t).base.name]
          /\ Bases(n) = [t \in D(n) |-> FirstNamed(m.types, t).base.name]
        BY <1>1 DEF Bases
    <2> HIDE DEF D
    <2> QED BY <2>1, <2>2
<1> QED BY <1>2, <1>3, <1>4, <1>5

LEMMA MembersSame ==
    ASSUME NEW m, NEW n, SameNames(m, n)
    PROVE  /\ \A t : ResolveMembers(m, t) = ResolveMembers(n, t)
           /\ \A ref : MembersOf(m, ref) = MembersOf(n, ref)
           /\ \A ref : Opaque(m, ref) <=> Opaque(n, ref)
           /\ \A ref, x : TypeHasMember(m, ref, x) <=> TypeHasMember(n, ref, x)
<1>1. m.types = n.types
    BY DEF SameNames, SameFile
<1>2. /\ \A ref : Kind(m, ref) = Kind(n, ref) /\ FarMembers(m, ref) = FarMembers(n, ref)
      /\ Bases(m) = Bases(n)
    BY NamesSame
<1>3. \A walk : MembersAlong(m, walk) = MembersAlong(n, walk)
    BY <1>1, <1>2, Zenon DEF MembersAlong
<1>4. \A t : ResolveMembers(m, t) = ResolveMembers(n, t)
    BY <1>2, <1>3, Zenon DEF ResolveMembers
<1>5. \A ref : MembersOf(m, ref) = MembersOf(n, ref)
    BY <1>1, <1>2, <1>4, Zenon DEF MembersOf
<1>6. \A ref : Opaque(m, ref) <=> Opaque(n, ref)
    BY <1>1, <1>2 DEF Opaque
<1>7. \A ref, x : TypeHasMember(m, ref, x) <=> TypeHasMember(n, ref, x)
    BY <1>5 DEF TypeHasMember
<1> QED BY <1>4, <1>5, <1>6, <1>7

LEMMA UnresolvedSame ==
    ASSUME NEW m, NEW n, SameNames(m, n), NEW x, NEW ref
    PROVE  Unresolved(m, x, ResolveType(m, ref)) = Unresolved(n, x, ResolveType(n, ref))
<1> DEFINE r == ResolveType(m, ref)
           a == r.kind = "unknownAlias"
           b == r.kind = "importUnknown" /\ r.uri \in m.catalog
           d == r.kind = "importUnknown" /\ r.uri \in n.catalog
<1>1. r = ResolveType(n, ref) /\ (b <=> d)
    BY DEF SameNames
<1>2. /\ Unresolved(m, x, r) = Said(x, {<<"unknown-import-alias", a>>, <<"unknown-import-type", b>>})
      /\ Unresolved(n, x, r) = Said(x, {<<"unknown-import-alias", a>>, <<"unknown-import-type", d>>})
    BY Zenon DEF Unresolved
<1> HIDE DEF a, b, d
<1>3. /\ Unresolved(m, x, r) = When(a, <<"unknown-import-alias", x>>) \cup When(b, <<"unknown-import-type", x>>)
      /\ Unresolved(n, x, r) = When(a, <<"unknown-import-alias", x>>) \cup When(d, <<"unknown-import-type", x>>)
    BY <1>2, SaidTwo
<1>4. When(b, <<"unknown-import-type", x>>) = When(d, <<"unknown-import-type", x>>)
    BY <1>1 DEF When
<1> HIDE DEF r
<1>5. Unresolved(m, x, r) = Unresolved(n, x, r)
    BY <1>3, <1>4
<1> QED BY <1>1, <1>5 DEF r

LEMMA TypeRefSame ==
    ASSUME NEW m, NEW n, SameNames(m, n), NEW x, NEW ref
    PROVE  CheckTypeRef(m, x, ref) = CheckTypeRef(n, x, ref)
<1> DEFINE g(k) == Said(x, {<<"unknown-type", k = "unknownName">>})
<1>1. /\ CheckTypeRef(m, x, ref) = IF ref = NoRef THEN {}
             ELSE Unresolved(m, x, ResolveType(m, ref)) \cup g(Kind(m, ref))
      /\ CheckTypeRef(n, x, ref) = IF ref = NoRef THEN {}
             ELSE Unresolved(n, x, ResolveType(n, ref)) \cup g(Kind(n, ref))
    BY Zenon DEF CheckTypeRef
<1> HIDE DEF g
<1>2. Kind(m, ref) = Kind(n, ref)
    BY NamesSame
<1>3. Unresolved(m, x, ResolveType(m, ref)) = Unresolved(n, x, ResolveType(n, ref))
    BY UnresolvedSame
<1> QED BY <1>1, <1>2, <1>3

LEMMA BaseSame ==
    ASSUME NEW m, NEW n, SameNames(m, n), NEW ot
    PROVE  CheckBase(m, ot) = CheckBase(n, ot)
<1> DEFINE c == UnknownBase(m, ot, ResolveType(m, ot.base))
           d == UnknownBase(n, ot, ResolveType(n, ot.base))
           x == <<ot.name>>
           y == <<"unknown-base", x>>
<1>1. c <=> d
    <2>1. ResolveType(m, ot.base) = ResolveType(n, ot.base)
        BY DEF SameNames
    <2>2. HasLocalBase(m, ot) <=> HasLocalBase(n, ot)
        BY NamesSame
    <2> QED BY <2>1, <2>2 DEF UnknownBase
<1>2. /\ CheckBase(m, ot) = IF ot.base = NoRef THEN {}
             ELSE Unresolved(m, x, ResolveType(m, ot.base)) \cup Said(x, {<<"unknown-base", c>>})
      /\ CheckBase(n, ot) = IF ot.base = NoRef THEN {}
             ELSE Unresolved(n, x, ResolveType(n, ot.base)) \cup Said(x, {<<"unknown-base", d>>})
    BY Zenon DEF CheckBase
<1> HIDE DEF c, d
<1>3. Said(x, {<<"unknown-base", c>>}) = When(c, y) /\ Said(x, {<<"unknown-base", d>>}) = When(d, y)
    BY SaidOne
<1>4. When(c, y) = When(d, y)
    BY <1>1 DEF When
<1> HIDE DEF x, y
<1>5. Unresolved(m, x, ResolveType(m, ot.base)) = Unresolved(n, x, ResolveType(n, ot.base))
    BY UnresolvedSame
<1> QED BY <1>2, <1>3, <1>4, <1>5

LEMMA InheritanceSame ==
    ASSUME NEW m, NEW n, SameNames(m, n)
    PROVE  CheckInheritance(m) = CheckInheritance(n)
<1> DEFINE g(up, ot) == IF Loops(up, ot.name) THEN {<<"inheritance-cycle", <<Last(Walk(up, ot.name))>>>>} ELSE {}
<1>1. /\ CheckInheritance(m) = UNION {CheckBase(m, ot) \cup g(BasesFrom(m, ot), ot) : ot \in ToSet(m.types)}
      /\ CheckInheritance(n) = UNION {CheckBase(n, ot) \cup g(BasesFrom(n, ot), ot) : ot \in ToSet(n.types)}
    BY Zenon DEF CheckInheritance
<1> HIDE DEF g
<1>2. m.types = n.types
    BY DEF SameNames, SameFile
<1>3. \A ot : BasesFrom(m, ot) = BasesFrom(n, ot)
    <2> TAKE ot
    <2> DEFINE D(k) == (DOMAIN Bases(m) \ {ot.name}) \cup (IF HasLocalBase(k, ot) THEN {ot.name} ELSE {})
    <2>1. D(m) = D(n)
        BY NamesSame
    <2>2. Bases(m) = Bases(n)
        BY NamesSame
    <2>3. /\ BasesFrom(m, ot) = [t \in D(m) |-> IF t = ot.name THEN ot.base.name ELSE Bases(m)[t]]
          /\ BasesFrom(n, ot) = [t \in D(n) |-> IF t = ot.name THEN ot.base.name ELSE Bases(m)[t]]
        BY <2>2, Zenon DEF BasesFrom
    <2> HIDE DEF D
    <2> QED BY <2>1, <2>3
<1>4. \A ot : CheckBase(m, ot) = CheckBase(n, ot)
    BY BaseSame
<1> QED BY <1>1, <1>2, <1>3, <1>4

LEMMA MemberSame ==
    ASSUME NEW m, NEW n, SameNames(m, n), NEW owner, NEW mem
    PROVE  CheckMember(m, owner, mem) = CheckMember(n, owner, mem)
<1> DEFINE y == Append(owner, mem.name)
           its == Said(y,
            {<<"invalid-kind", mem.kind \notin Kinds>>,
             <<"invalid-rule", mem.rule \notin Rules>>,
             <<"invalid-access", mem.kind \in {"variable", "property"} /\ mem.access \notin {"r", "rw"}>>,
             <<"placeholder-without-rule", mem.placeholder /\ mem.rule \notin PlaceholderRules>>,
             <<"rule-without-placeholder", ~mem.placeholder /\ mem.rule \in PlaceholderRules>>,
             <<"missing-type", mem.kind # "method" /\ mem.type = NoRef>>,
             <<"unknown-unit", mem.unit # "" /\ mem.kind = "variable" /\ mem.unit \notin Units>>,
             <<"unit-on-non-numeric",
               /\ mem.unit # "" /\ mem.kind = "variable"
               /\ ~(mem.type.alias = "" /\ mem.type.name \in Numeric)>>,
             <<"unit-on-property", mem.unit # "" /\ mem.kind = "property">>,
             <<"unit-requires-variable", mem.unit # "" /\ mem.kind \notin {"variable", "property"}>>})
           args(k) == UNION {CheckTypeRef(k, y, arg) : arg \in mem.args}
           type(k) == IF mem.kind = "method" THEN {} ELSE CheckTypeRef(k, y, mem.type)
<1>1. CheckMember(m, owner, mem) = its \cup type(m) \cup args(m)
    BY Zenon DEF CheckMember
<1>2. CheckMember(n, owner, mem) = its \cup type(n) \cup args(n)
    BY Zenon DEF CheckMember
<1> HIDE DEF its, y
<1>3. \A ref : CheckTypeRef(m, y, ref) = CheckTypeRef(n, y, ref)
    BY TypeRefSame
<1>4. type(m) = type(n) /\ args(m) = args(n)
    BY <1>3
<1> QED BY <1>1, <1>2, <1>4

LEMMA MembersCheckSame ==
    ASSUME NEW m, NEW n, SameNames(m, n), NEW owner, NEW mems
    PROVE  CheckMembers(m, owner, mems) = CheckMembers(n, owner, mems)
<1>1. \A o, mem : CheckMember(m, o, mem) = CheckMember(n, o, mem)
    BY MemberSame
<1>2. \A o, s : MembersSaid(m, o, s) = MembersSaid(n, o, s)
    BY <1>1 DEF MembersSaid
<1> DEFINE all(k) == MembersSaid(k, owner, mems)
                     \cup UNION {MembersSaid(k, Append(owner, mem.name), mem.children) :
                                     mem \in {x \in ToSet(mems) : x.kind = "object"}}
<1>3. CheckMembers(m, owner, mems) = all(m)
    BY MembersSaidIs
<1>4. CheckMembers(n, owner, mems) = all(n)
    BY MembersSaidIs
<1>5. all(m) = all(n)
    BY <1>2, Zenon
<1> QED BY <1>3, <1>4, <1>5, Zenon

LEMMA ImportsSame ==
    ASSUME NEW m, NEW n, SameNames(m, n)
    PROVE  CheckImports(m) = CheckImports(n)
<1> DEFINE a(k, im) == k.catalog # {} /\ im.uri # UA /\ im.name # "OpcUa" /\ im.uri \notin k.catalog
           c(k, im) == Said(<<im.name>>, {<<"import-not-bundled", a(k, im)>>})
<1>1. /\ CheckImports(m) = UNION {c(m, im) : im \in ToSet(m.imports)}
      /\ CheckImports(n) = UNION {c(n, im) : im \in ToSet(n.imports)}
    BY Zenon DEF CheckImports
<1>2. m.imports = n.imports /\ \A im \in ToSet(m.imports) : a(m, im) <=> a(n, im)
    BY DEF SameNames, SameFile
<1> HIDE DEF a
<1>3. ASSUME NEW im \in ToSet(m.imports) PROVE c(m, im) = c(n, im)
    <2> DEFINE p == a(m, im)
               q == a(n, im)
               y == <<"import-not-bundled", <<im.name>>>>
    <2>1. p <=> q
        BY <1>2, <1>3
    <2>2. /\ c(m, im) = Said(<<im.name>>, {<<"import-not-bundled", p>>})
          /\ c(n, im) = Said(<<im.name>>, {<<"import-not-bundled", q>>})
        OBVIOUS
    <2> HIDE DEF p, q, c
    <2>3. c(m, im) = When(p, y) /\ c(n, im) = When(q, y)
        BY <2>2, SaidOne
    <2> QED BY <2>1, <2>3 DEF When
<1> HIDE DEF c
<1> QED BY <1>1, <1>2, <1>3

LEMMA UnderSame ==
    ASSUME NEW m, NEW n, SameNames(m, n), NEW inst
    PROVE  CheckUnder(m, inst) = CheckUnder(n, inst)
<1> DEFINE g(kind, instances) ==
              IF inst.under = NoRef THEN {}
              ELSE Said(<<inst.name>>,
                  {<<"unknown-import-alias", kind = "unknownAlias">>,
                   <<"unknown-under", \/ kind \in {"builtin", "local"}
                                      \/ kind = "unknownName" /\ inst.under.name \notin Names(instances)>>})
<1>1. CheckUnder(m, inst) = g(Kind(m, inst.under), m.instances)
    BY Zenon DEF CheckUnder
<1>2. CheckUnder(n, inst) = g(Kind(n, inst.under), n.instances)
    BY Zenon DEF CheckUnder
<1> HIDE DEF g
<1>3. Kind(m, inst.under) = Kind(n, inst.under)
    BY NamesSame
<1>4. m.instances = n.instances
    BY DEF SameNames, SameFile
<1> QED BY <1>1, <1>2, <1>3, <1>4

LEMMA FilledSame ==
    ASSUME NEW m, NEW n, SameNames(m, n), NEW inst
    PROVE  CheckInstanceMembers(m, inst) = CheckInstanceMembers(n, inst)
<1>1. MembersOf(m, inst.type) = MembersOf(n, inst.type) /\ (Opaque(m, inst.type) <=> Opaque(n, inst.type))
    BY MembersSame
<1> QED BY <1>1, Zenon DEF CheckInstanceMembers

LEMMA CyclesSame ==
    ASSUME NEW m, NEW n, SameNames(m, n), NEW inst
    PROVE  ParentsFrom(m, inst) = ParentsFrom(n, inst) /\ (HasParent(m, inst) <=> HasParent(n, inst))
<1>1. m.instances = n.instances
    BY DEF SameNames, SameFile
<1>2. \A x : HasParent(m, x) <=> HasParent(n, x)
    BY <1>1 DEF HasParent
<1> DEFINE D(k) == {x \in Names(m.instances) : HasParent(k, LastNamed(m.instances, x))}
           E(k, up) == (DOMAIN up \ {inst.name}) \cup (IF HasParent(k, inst) THEN {inst.name} ELSE {})
<1>3. /\ Parents(m) = [x \in D(m) |-> LastNamed(m.instances, x).under.name]
      /\ Parents(n) = [x \in D(n) |-> LastNamed(m.instances, x).under.name]
    BY <1>1, Zenon DEF Parents
<1>4. D(m) = D(n)
    BY <1>2
<1> HIDE DEF D
<1>5. Parents(m) = Parents(n)
    BY <1>3, <1>4
<1> DEFINE up == Parents(m)
<1>6. /\ ParentsFrom(m, inst) = [x \in E(m, up) |-> IF x = inst.name THEN inst.under.name ELSE up[x]]
      /\ ParentsFrom(n, inst) = [x \in E(n, up) |-> IF x = inst.name THEN inst.under.name ELSE up[x]]
    BY <1>5, Zenon DEF ParentsFrom
<1> HIDE DEF up
<1>7. E(m, up) = E(n, up)
    BY <1>2
<1> HIDE DEF E
<1> QED BY <1>2, <1>6, <1>7

-------------------------------------------------------------------------------
(* What is left of what is said where ISA-95 need not be loaded.              *)
Passed(cat, said) == {d \in said : d[1] = "machine-under-machine" => ISA95 \in cat}
Free(said) == \A d \in said : d[1] # "machine-under-machine"

LEMMA PassedFree == ASSUME NEW cat, NEW s, Free(s) PROVE Passed(cat, s) = s
    BY DEF Passed, Free
LEMMA PassedBoth == ASSUME NEW cat, NEW s, NEW t PROVE Passed(cat, s \cup t) = Passed(cat, s) \cup Passed(cat, t)
    BY DEF Passed
LEMMA UsualFree == ASSUME NEW s, Usual(s) PROVE Free(s)
    BY DEF Usual, Free, OwnCodes
LEMMA FreeBoth == ASSUME NEW s, NEW t, Free(s), Free(t) PROVE Free(s \cup t)
    BY DEF Free
LEMMA FreeAll == ASSUME NEW ss, \A s \in ss : Free(s) PROVE Free(UNION ss)
    BY DEF Free

FourSaid(x, c1, a1, c2, a2, c3, a3, c4, a4) ==
    Said(x, {<<c1, a1>>, <<c2, a2>>, <<c3, a3>>, <<c4, a4>>})
    = When(a1, <<c1, x>>) \cup When(a2, <<c2, x>>) \cup When(a3, <<c3, x>>) \cup When(a4, <<c4, x>>)

LEMMA SaidFour ==
    ASSUME NEW x, NEW c1, NEW a1, NEW c2, NEW a2, NEW c3, NEW a3, NEW c4, NEW a4
    PROVE  FourSaid(x, c1, a1, c2, a2, c3, a3, c4, a4)
<1> DEFINE one == {<<c1, a1>>, <<c2, a2>>}
           two == {<<c3, a3>>, <<c4, a4>>}
<1>1. {<<c1, a1>>, <<c2, a2>>, <<c3, a3>>, <<c4, a4>>} = one \cup two
    BY Zenon
<1>2. Said(x, one) = When(a1, <<c1, x>>) \cup When(a2, <<c2, x>>)
    BY SaidTwo
<1>3. Said(x, two) = When(a3, <<c3, x>>) \cup When(a4, <<c4, x>>)
    BY SaidTwo
<1> HIDE DEF one, two
<1>4. Said(x, one \cup two) = Said(x, one) \cup Said(x, two)
    BY SaidSplits
<1> QED BY <1>1, <1>2, <1>3, <1>4 DEF FourSaid

LEMMA TiersSame ==
    ASSUME NEW m, NEW n, SameNames(m, n), m.catalog \subseteq n.catalog, NEW inst, NEW parent
    PROVE  CheckTiers(m, inst, parent) = Passed(m.catalog, CheckTiers(n, inst, parent))
<1> DEFINE r1 == IsOrg(inst) /\ IsOrg(parent) /\ Tier[inst.level] <= Tier[parent.level]
           r2(k) == /\ IsOrg(inst) /\ IsOrg(parent)
                    /\ Tier[inst.level] > Tier[parent.level] + 1 /\ ~k.skip
           r3 == ~IsOrg(inst) /\ IsOrg(parent) /\ Tier[parent.level] < 3
           r4(k) == ~IsOrg(inst) /\ ~IsOrg(parent) /\ ISA95 \in k.catalog
           rows(k) == {<<"hierarchy-level-order", r1>>, <<"hierarchy-level-skip", r2(k)>>,
                       <<"equipment-parent", r3>>, <<"machine-under-machine", r4(k)>>}
           x == <<inst.name>>
<1>1. CheckTiers(m, inst, parent) = Said(x, rows(m)) /\ CheckTiers(n, inst, parent) = Said(x, rows(n))
    BY Zenon DEF CheckTiers
<1>2. (r2(m) <=> r2(n)) /\ (r4(m) <=> r4(n) /\ ISA95 \in m.catalog)
    BY DEF SameNames, SameFile
<1> HIDE DEF r1, r2, r3, r4, x
<1>3. ASSUME NEW k
      PROVE  Said(x, rows(k)) = When(r1, <<"hierarchy-level-order", x>>)
                                \cup When(r2(k), <<"hierarchy-level-skip", x>>)
                                \cup When(r3, <<"equipment-parent", x>>)
                                \cup When(r4(k), <<"machine-under-machine", x>>)
    <2> DEFINE a == r2(k)
               b == r4(k)
    <2> HIDE DEF a, b
    <2>1. FourSaid(x, "hierarchy-level-order", r1, "hierarchy-level-skip", a,
                   "equipment-parent", r3, "machine-under-machine", b)
        BY SaidFour
    <2> QED BY <2>1, Zenon DEF FourSaid, a, b
<1> HIDE DEF rows
<1> DEFINE s(k) == Said(x, rows(k))
<1>4. s(m) = Passed(m.catalog, s(n))
    BY <1>2, <1>3 DEF Passed, When
<1> QED BY <1>1, <1>4

LEMMA HierarchySame ==
    ASSUME NEW m, NEW n, SameNames(m, n), m.catalog \subseteq n.catalog, NEW inst
    PROVE  CheckHierarchy(m, inst) = Passed(m.catalog, CheckHierarchy(n, inst))
<1> DEFINE x == <<inst.name>>
           a == inst.level # "" /\ ~(IsOrg(inst) \/ inst.level \in Tierless)
           b(k) == (IsOrg(inst) \/ inst.level \in Tierless) /\ ~TypeHasMember(k, inst.type, "EquipmentLevel")
           its(k) == Said(x, {<<"unknown-level", a>>, <<"level-on-unsupported-type", b(k)>>})
           tiers(k) == IF HasParent(k, inst)
                       THEN CheckTiers(k, inst, LastNamed(k.instances, inst.under.name)) ELSE {}
<1>1. CheckHierarchy(m, inst) = its(m) \cup tiers(m)
    BY Zenon DEF CheckHierarchy
<1>2. CheckHierarchy(n, inst) = its(n) \cup tiers(n)
    BY Zenon DEF CheckHierarchy
<1>3. b(m) <=> b(n)
    BY MembersSame
<1> HIDE DEF a, b, x
<1>4. ASSUME NEW k PROVE its(k) = When(a, <<"unknown-level", x>>) \cup When(b(k), <<"level-on-unsupported-type", x>>)
    <2> DEFINE c == b(k)
    <2>1. its(k) = Said(x, {<<"unknown-level", a>>, <<"level-on-unsupported-type", c>>})
        OBVIOUS
    <2> HIDE DEF its, c
    <2>2. its(k) = When(a, <<"unknown-level", x>>) \cup When(c, <<"level-on-unsupported-type", x>>)
        BY <2>1, SaidTwo
    <2> QED BY <2>2 DEF c
<1> HIDE DEF its
<1>5. its(m) = its(n) /\ Free(its(n))
    BY <1>3, <1>4 DEF When, Free
<1>6. tiers(m) = Passed(m.catalog, tiers(n))
    <2>1. HasParent(m, inst) <=> HasParent(n, inst)
        BY CyclesSame
    <2>2. m.instances = n.instances
        BY DEF SameNames, SameFile
    <2>3. \A parent : CheckTiers(m, inst, parent) = Passed(m.catalog, CheckTiers(n, inst, parent))
        BY TiersSame
    <2>4. Passed(m.catalog, {}) = {}
        BY DEF Passed
    <2> QED BY <2>1, <2>2, <2>3, <2>4
<1> HIDE DEF tiers
<1>7. Passed(m.catalog, its(n)) = its(n)
    BY <1>5, PassedFree
<1>8. Passed(m.catalog, its(n) \cup tiers(n)) = Passed(m.catalog, its(n)) \cup Passed(m.catalog, tiers(n))
    BY PassedBoth
<1> QED BY <1>1, <1>2, <1>5, <1>6, <1>7, <1>8

(* What is said of one instance besides its level.                            *)
OfOne(m, inst) ==
    CheckTypeRef(m, <<inst.name>>, inst.type)
    \cup Said(<<inst.name>>,
             {<<"abstract-instance", Abstract(m, inst.type)>>,
              <<"instance-cycle", Loops(ParentsFrom(m, inst), inst.name)>>})
    \cup CheckUnder(m, inst)
    \cup CheckInstanceMembers(m, inst)

LEMMA OfOneSame ==
    ASSUME NEW m, NEW n, SameNames(m, n), NEW inst
    PROVE  OfOne(m, inst) = OfOne(n, inst) /\ Free(OfOne(n, inst))
<1> DEFINE x == <<inst.name>>
           a(k) == Abstract(k, inst.type)
           b(k) == Loops(ParentsFrom(k, inst), inst.name)
           two(k) == Said(x, {<<"abstract-instance", a(k)>>, <<"instance-cycle", b(k)>>})
<1>1. ASSUME NEW k PROVE OfOne(k, inst) = CheckTypeRef(k, x, inst.type) \cup two(k) \cup CheckUnder(k, inst)
                                          \cup CheckInstanceMembers(k, inst)
    BY Zenon DEF OfOne
<1>2. (a(m) <=> a(n)) /\ (b(m) <=> b(n))
    <2>1. ParentsFrom(m, inst) = ParentsFrom(n, inst)
        BY CyclesSame
    <2>2. b(m) <=> b(n)
        BY <2>1 DEF Loops
    <2> QED BY <2>2, NamesSame
<1> HIDE DEF a, b
<1>3. ASSUME NEW k PROVE two(k) = When(a(k), <<"abstract-instance", x>>) \cup When(b(k), <<"instance-cycle", x>>)
    <2> DEFINE c == a(k)
               d == b(k)
    <2>1. two(k) = Said(x, {<<"abstract-instance", c>>, <<"instance-cycle", d>>})
        OBVIOUS
    <2> HIDE DEF two, c, d
    <2>2. two(k) = When(c, <<"abstract-instance", x>>) \cup When(d, <<"instance-cycle", x>>)
        BY <2>1, SaidTwo
    <2> QED BY <2>2 DEF c, d
<1> HIDE DEF two
<1>4. two(m) = two(n) /\ Free(two(n))
    BY <1>2, <1>3 DEF When, Free
<1>5. CheckTypeRef(m, x, inst.type) = CheckTypeRef(n, x, inst.type)
    BY TypeRefSame
<1>6. CheckUnder(m, inst) = CheckUnder(n, inst)
    BY UnderSame
<1>7. CheckInstanceMembers(m, inst) = CheckInstanceMembers(n, inst)
    BY FilledSame
<1>8. Free(CheckTypeRef(n, x, inst.type)) /\ Free(CheckUnder(n, inst)) /\ Free(CheckInstanceMembers(n, inst))
    BY UsualTypeRef, UsualUnder, UsualInstanceMembers, UsualFree
<1> HIDE DEF x
<1>9. OfOne(m, inst) = OfOne(n, inst)
    BY <1>1, <1>4, <1>5, <1>6, <1>7
<1>10. Free(OfOne(n, inst))
    BY <1>1, <1>4, <1>8 DEF Free
<1> QED BY <1>9, <1>10

LEMMA InstancesSame ==
    ASSUME NEW m, NEW n, SameNames(m, n), m.catalog \subseteq n.catalog
    PROVE  CheckInstances(m) = Passed(m.catalog, CheckInstances(n))
<1> DEFINE dup == {<<"duplicate-instance", <<x>>>> : x \in Repeated(m.instances)}
           each(k, inst) == OfOne(k, inst) \cup CheckHierarchy(k, inst)
<1>1. m.instances = n.instances
    BY DEF SameNames, SameFile
<1>2. CheckInstances(m) = dup \cup UNION {each(m, inst) : inst \in ToSet(m.instances)}
    BY Zenon DEF CheckInstances, OfOne
<1>3. CheckInstances(n) = dup \cup UNION {each(n, inst) : inst \in ToSet(m.instances)}
    BY <1>1, Zenon DEF CheckInstances, OfOne
<1>4. \A inst : each(m, inst) = Passed(m.catalog, each(n, inst))
    <2> TAKE inst
    <2>1. OfOne(m, inst) = OfOne(n, inst) /\ Free(OfOne(n, inst))
        BY OfOneSame
    <2>2. CheckHierarchy(m, inst) = Passed(m.catalog, CheckHierarchy(n, inst))
        BY HierarchySame
    <2>3. Passed(m.catalog, OfOne(n, inst)) = OfOne(n, inst)
        BY <2>1, PassedFree
    <2> QED BY <2>1, <2>2, <2>3, PassedBoth
<1>5. Free(dup)
    BY DEF Free
<1> HIDE DEF dup, each
<1> DEFINE all(k) == UNION {each(k, inst) : inst \in ToSet(m.instances)}
<1>6. all(m) = Passed(m.catalog, all(n))
    BY <1>4 DEF Passed
<1> HIDE DEF all
<1>7. Passed(m.catalog, dup \cup all(n)) = dup \cup all(m)
    <2>1. Passed(m.catalog, dup) = dup
        BY <1>5, PassedFree
    <2>2. Passed(m.catalog, dup \cup all(n)) = Passed(m.catalog, dup) \cup Passed(m.catalog, all(n))
        BY PassedBoth
    <2> QED BY <1>6, <2>1, <2>2
<1> QED BY <1>2, <1>3, <1>7 DEF all

-------------------------------------------------------------------------------
LEMMA PerspectivesSame ==
    ASSUME NEW m, NEW n, SameFile(m, n)
    PROVE  UNION {CheckPerspective(m, p) : p \in ToSet(m.perspectives)}
           = UNION {CheckPerspective(n, p) : p \in ToSet(n.perspectives)}
<1>1. m.perspectives = n.perspectives /\ m.instances = n.instances
    BY DEF SameFile
<1>2. \A p : CheckPerspective(m, p) = CheckPerspective(n, p)
    BY <1>1, Zenon DEF CheckPerspective
<1> QED BY <1>1, <1>2

LEMMA ValidateSame ==
    ASSUME NEW m, NEW n, SameNames(m, n), m.catalog \subseteq n.catalog
    PROVE  Validate(m) = Passed(m.catalog, Validate(n))
<1> DEFINE head(k) == CheckHeader(k) \cup CheckImports(k) \cup CheckDuplicateTypes(k)
           enums(k) == UNION {CheckEnum(e) : e \in ToSet(k.enums)}
           types(k) == UNION {CheckMembers(k, <<ot.name>>, ot.members) : ot \in ToSet(k.types)}
           persps(k) == UNION {CheckPerspective(k, p) : p \in ToSet(k.perspectives)}
<1>1. SameFile(m, n)
    BY DEF SameNames
<1>2. head(m) = head(n) /\ Free(head(n))
    <2>1. CheckHeader(m) = CheckHeader(n)
        BY <1>1, Zenon DEF CheckHeader, SameFile
    <2>2. CheckDuplicateTypes(m) = CheckDuplicateTypes(n)
        BY <1>1, Zenon DEF CheckDuplicateTypes, SameFile
    <2>3. CheckImports(m) = CheckImports(n)
        BY ImportsSame
    <2>4. Free(CheckHeader(n)) /\ Free(CheckImports(n)) /\ Free(CheckDuplicateTypes(n))
        BY UsualHeader, UsualImports, UsualDuplicates, UsualFree
    <2> QED BY <2>1, <2>2, <2>3, <2>4 DEF Free
<1>3. enums(m) = enums(n) /\ Free(enums(n))
    <2>1. m.enums = n.enums
        BY <1>1 DEF SameFile
    <2>2. \A s \in {CheckEnum(e) : e \in ToSet(n.enums)} : Free(s)
        BY UsualEnum, UsualFree
    <2> QED BY <2>1, <2>2, FreeAll
<1>4. types(m) = types(n) /\ Free(types(n))
    <2>1. m.types = n.types
        BY <1>1 DEF SameFile
    <2>2. \A o, s : CheckMembers(m, o, s) = CheckMembers(n, o, s)
        BY MembersCheckSame
    <2>3. \A s \in {CheckMembers(n, <<ot.name>>, ot.members) : ot \in ToSet(n.types)} : Free(s)
        BY UsualMembers, UsualFree
    <2>4. Free(types(n))
        BY <2>3, FreeAll
    <2>5. types(m) = types(n)
        BY <2>1, <2>2
    <2> QED BY <2>4, <2>5
<1>5. CheckInheritance(m) = CheckInheritance(n) /\ Free(CheckInheritance(n))
    <2>1. PICK u : Usual(u) /\ CheckInheritance(n) = u \cup BaseCycles(n)
        BY InheritanceSays
    <2>2. Free(u)
        BY <2>1, UsualFree
    <2>3. Free(BaseCycles(n))
        BY DEF Free, BaseCycles
    <2> QED BY <2>1, <2>2, <2>3, FreeBoth, InheritanceSame
<1>6. persps(m) = persps(n) /\ Free(persps(n))
    <2>1. persps(m) = persps(n)
        BY <1>1, PerspectivesSame
    <2>2. PICK u : Usual(u) /\ UNION {CheckPerspective(n, p) : p \in ToSet(n.perspectives)} = u \cup NodeCycles(n)
        BY PerspectivesSay
    <2>3. Free(u)
        BY <2>2, UsualFree
    <2>4. Free(NodeCycles(n))
        BY DEF Free, NodeCycles
    <2>5. Free(u \cup NodeCycles(n))
        BY <2>3, <2>4, FreeBoth
    <2> QED BY <2>1, <2>2, <2>5
<1>7. CheckInstances(m) = Passed(m.catalog, CheckInstances(n))
    BY InstancesSame
<1>8. /\ Validate(m) = head(m) \cup enums(m) \cup CheckInheritance(m) \cup types(m) \cup CheckInstances(m) \cup persps(m)
      /\ Validate(n) = head(n) \cup enums(n) \cup CheckInheritance(n) \cup types(n) \cup CheckInstances(n) \cup persps(n)
    BY Zenon DEF Validate
<1> HIDE DEF head, enums, types, persps
<1> DEFINE rest == head(n) \cup enums(n) \cup CheckInheritance(n) \cup types(n) \cup persps(n)
<1>9. Free(rest)
    BY <1>2, <1>3, <1>4, <1>5, <1>6 DEF Free
<1>10. /\ Validate(m) = rest \cup CheckInstances(m)
       /\ Validate(n) = rest \cup CheckInstances(n)
    BY <1>2, <1>3, <1>4, <1>5, <1>6, <1>8
<1> HIDE DEF rest
<1>11. Passed(m.catalog, rest \cup CheckInstances(n)) = Passed(m.catalog, rest) \cup Passed(m.catalog, CheckInstances(n))
    BY PassedBoth
<1>12. Passed(m.catalog, rest) = rest
    BY <1>9, PassedFree
<1> QED BY <1>7, <1>10, <1>11, <1>12

LEMMA BuiltPasses ==
    ASSUME NEW m \in Plain
    PROVE  Validate(Built(m)) = Passed(Built(m).catalog, Validate(Judged(m)))
<1> DEFINE B == Built(m)
           J == Judged(m)
<1>1. SameNames(B, J) /\ B.catalog \subseteq J.catalog
    BY BuiltSame
<1> HIDE DEF B, J
<1>2. Validate(B) = Passed(B.catalog, Validate(J))
    BY <1>1, ValidateSame
<1> QED BY <1>2 DEF B, J

(* What the command line says of a model is what the service says of it, but  *)
(* for machines under machines where ISA-95 is not imported: the closure of   *)
(* the imports that LoadImports loads has all that the whole bundle has to    *)
(* say about the names of the file.                                           *)
THEOREM ServiceAndCommandAgree == Spec => []JudgedAlike
<1>1. TypeOK => JudgedAlike
    <2> SUFFICES ASSUME TypeOK PROVE JudgedAlike
        OBVIOUS
    <2>1. draft \in Plain
        BY DEF TypeOK, Plain
    <2>2. Validate(Built(draft)) = Passed(Built(draft).catalog, Validate(Judged(draft)))
        BY <2>1, BuiltPasses
    <2> QED BY <2>2, Zenon DEF JudgedAlike, Passed
<1> QED BY <1>1, ModelTypes, PTL

-------------------------------------------------------------------------------
(* What a clean model is like.                                                *)
LEMMA SaidNothing ==
    ASSUME NEW a, NEW d, When(a, d) = {}
    PROVE  ~a
    BY DEF When

LEMMA CleanParts ==
    ASSUME NEW m, Clean(m)
    PROVE  /\ CheckInheritance(m) = {} /\ CheckInstances(m) = {}
           /\ \A ot \in ToSet(m.types) : CheckMembers(m, <<ot.name>>, ot.members) = {}
           /\ \A p \in ToSet(m.perspectives) : CheckPerspective(m, p) = {}
<1> DEFINE T == {CheckMembers(m, <<ot.name>>, ot.members) : ot \in ToSet(m.types)}
           P == {CheckPerspective(m, p) : p \in ToSet(m.perspectives)}
           E == UNION {CheckEnum(e) : e \in ToSet(m.enums)}
<1>1. Validate(m) = CheckHeader(m) \cup CheckImports(m) \cup CheckDuplicateTypes(m) \cup E
                    \cup CheckInheritance(m) \cup (UNION T) \cup CheckInstances(m) \cup (UNION P)
    BY Zenon DEF Validate
<1>2. Validate(m) = {}
    BY DEF Clean
<1> HIDE DEF T, P, E
<1>3. CheckInheritance(m) = {} /\ CheckInstances(m) = {} /\ (UNION T) = {} /\ (UNION P) = {}
    BY <1>1, <1>2
<1>4. (\A s \in T : s = {}) /\ (\A s \in P : s = {})
    BY <1>3
<1> QED BY <1>3, <1>4 DEF T, P

LEMMA CleanInstance ==
    ASSUME NEW m, Clean(m)
    PROVE  /\ Repeated(m.instances) = {}
           /\ \A inst \in ToSet(m.instances) :
                /\ CheckTypeRef(m, <<inst.name>>, inst.type) = {}
                /\ CheckUnder(m, inst) = {}
                /\ CheckInstanceMembers(m, inst) = {}
                /\ CheckHierarchy(m, inst) = {}
<1> DEFINE dup == {<<"duplicate-instance", <<x>>>> : x \in Repeated(m.instances)}
           each(inst) == OfOne(m, inst) \cup CheckHierarchy(m, inst)
           all == {each(inst) : inst \in ToSet(m.instances)}
<1>1. CheckInstances(m) = dup \cup UNION all
    BY Zenon DEF CheckInstances, OfOne
<1>2. dup = {} /\ (UNION all) = {}
    <2> HIDE DEF dup, all
    <2> QED BY <1>1, CleanParts
<1>3. \A s \in all : s = {}
    <2> HIDE DEF all
    <2> QED BY <1>2
<1>4. \A inst \in ToSet(m.instances) : OfOne(m, inst) = {} /\ CheckHierarchy(m, inst) = {}
    <2> TAKE inst \in ToSet(m.instances)
    <2>1. OfOne(m, inst) \cup CheckHierarchy(m, inst) = {}
        BY <1>3
    <2> QED BY <2>1
<1>5. \A inst \in ToSet(m.instances) :
          /\ CheckTypeRef(m, <<inst.name>>, inst.type) = {}
          /\ CheckUnder(m, inst) = {} /\ CheckInstanceMembers(m, inst) = {}
    <2> TAKE inst \in ToSet(m.instances)
    <2> DEFINE a == CheckTypeRef(m, <<inst.name>>, inst.type)
               b == Said(<<inst.name>>,
                         {<<"abstract-instance", Abstract(m, inst.type)>>,
                          <<"instance-cycle", Loops(ParentsFrom(m, inst), inst.name)>>})
               c == CheckUnder(m, inst)
               d == CheckInstanceMembers(m, inst)
    <2>1. OfOne(m, inst) = a \cup b \cup c \cup d
        BY Zenon DEF OfOne
    <2> HIDE DEF a, b, c, d
    <2>2. a = {} /\ c = {} /\ d = {}
        BY <1>4, <2>1
    <2> QED BY <2>2 DEF a, c, d
<1>6. Repeated(m.instances) = {}
    BY <1>2
<1> QED BY <1>4, <1>5, <1>6

LEMMA CleanTiers ==
    ASSUME NEW m, NEW inst, NEW parent, CheckTiers(m, inst, parent) = {}
    PROVE  /\ IsOrg(inst) /\ IsOrg(parent) => /\ ~(Tier[inst.level] <= Tier[parent.level])
                                              /\ m.skip \/ ~(Tier[inst.level] > Tier[parent.level] + 1)
           /\ ~IsOrg(inst) /\ IsOrg(parent) => ~(Tier[parent.level] < 3)
<1> DEFINE r1 == IsOrg(inst) /\ IsOrg(parent) /\ Tier[inst.level] <= Tier[parent.level]
           r2 == /\ IsOrg(inst) /\ IsOrg(parent)
                 /\ Tier[inst.level] > Tier[parent.level] + 1 /\ ~m.skip
           r3 == ~IsOrg(inst) /\ IsOrg(parent) /\ Tier[parent.level] < 3
           r4 == ~IsOrg(inst) /\ ~IsOrg(parent) /\ ISA95 \in m.catalog
           x == <<inst.name>>
<1>1. CheckTiers(m, inst, parent) = Said(x, {<<"hierarchy-level-order", r1>>, <<"hierarchy-level-skip", r2>>,
                                             <<"equipment-parent", r3>>, <<"machine-under-machine", r4>>})
    BY Zenon DEF CheckTiers
<1>2. ~r1 /\ ~r2 /\ ~r3
    <2> HIDE DEF r1, r2, r3, r4, x
    <2>1. FourSaid(x, "hierarchy-level-order", r1, "hierarchy-level-skip", r2,
                   "equipment-parent", r3, "machine-under-machine", r4)
        BY SaidFour
    <2> DEFINE w1 == When(r1, <<"hierarchy-level-order", x>>)
               w2 == When(r2, <<"hierarchy-level-skip", x>>)
               w3 == When(r3, <<"equipment-parent", x>>)
               w4 == When(r4, <<"machine-under-machine", x>>)
    <2>2. CheckTiers(m, inst, parent) = w1 \cup w2 \cup w3 \cup w4
        BY <1>1, <2>1, Zenon DEF FourSaid
    <2> HIDE DEF w1, w2, w3, w4
    <2>3. w1 = {} /\ w2 = {} /\ w3 = {}
        BY <2>2
    <2>4. ~r1
        BY <2>3, SaidNothing DEF w1
    <2>5. ~r2
        BY <2>3, SaidNothing DEF w2
    <2>6. ~r3
        BY <2>3, SaidNothing DEF w3
    <2> QED BY <2>4, <2>5, <2>6
<1> QED BY <1>2, Zenon

LEMMA CleanHierarchy ==
    ASSUME NEW m, NEW inst, CheckHierarchy(m, inst) = {}
    PROVE  /\ IsOrg(inst) => TypeHasMember(m, inst.type, "EquipmentLevel")
           /\ HasParent(m, inst) => CheckTiers(m, inst, LastNamed(m.instances, inst.under.name)) = {}
<1> DEFINE x == <<inst.name>>
           a == inst.level # "" /\ ~(IsOrg(inst) \/ inst.level \in Tierless)
           b == (IsOrg(inst) \/ inst.level \in Tierless) /\ ~TypeHasMember(m, inst.type, "EquipmentLevel")
           its == Said(x, {<<"unknown-level", a>>, <<"level-on-unsupported-type", b>>})
           tiers == IF HasParent(m, inst)
                    THEN CheckTiers(m, inst, LastNamed(m.instances, inst.under.name)) ELSE {}
<1>1. CheckHierarchy(m, inst) = its \cup tiers
    BY Zenon DEF CheckHierarchy
<1>2. its = {} /\ tiers = {}
    <2> HIDE DEF its, tiers
    <2> QED BY <1>1
<1>3. ~b
    <2> HIDE DEF a, b, x
    <2>1. its = When(a, <<"unknown-level", x>>) \cup When(b, <<"level-on-unsupported-type", x>>)
        BY SaidTwo
    <2> HIDE DEF its
    <2>2. When(b, <<"level-on-unsupported-type", x>>) = {}
        BY <1>2, <2>1
    <2> QED BY <2>2, SaidNothing
<1> QED BY <1>2, <1>3

LEMMA CleanBuilt ==
    ASSUME NEW m \in Plain, Clean(Judged(m))
    PROVE  Clean(Built(m))
<1>1. \A cat : Passed(cat, {}) = {}
    BY DEF Passed
<1> QED BY <1>1, BuiltPasses DEF Clean

LEMMA BuiltHas ==
    ASSUME NEW m \in Plain
    PROVE  SameFile(m, Built(m)) /\ Built(m).catalog # {}
<1>1. \A cat : SameFile(m, [m EXCEPT !.catalog = cat])
    BY DEF SameFile, Plain, Models
<1> QED BY <1>1, BuiltSame DEF Built, WithCatalog, SameNames

-------------------------------------------------------------------------------
(* What is built of the instances.                                            *)
NodeOf(m, inst) ==
    [name |-> inst.name, type |-> QName(m, inst.type),
     under |-> InstanceTarget(m, inst.under),
     overrides |-> LevelOverride(m, inst) \cup ValueOverrides(m, inst, LocalMembers(m, inst.type)),
     children |-> DesignChildren(m, inst, LocalMembers(m, inst.type))]

LEMMA DesignInstances ==
    ASSUME NEW m
    PROVE  /\ Design(m).instances = {NodeOf(m, inst) : inst \in ToSet(m.instances)}
           /\ \A inst : /\ NodeOf(m, inst).name = inst.name
                        /\ NodeOf(m, inst).type = QName(m, inst.type)
                        /\ NodeOf(m, inst).under = InstanceTarget(m, inst.under)
                        /\ NodeOf(m, inst).overrides = LevelOverride(m, inst)
                              \cup ValueOverrides(m, inst, LocalMembers(m, inst.type))
                        /\ NodeOf(m, inst).children = DesignChildren(m, inst, LocalMembers(m, inst.type))
<1>1. Design(m).instances = {NodeOf(m, inst) : inst \in ToSet(m.instances)}
    <2> DEFINE a == {<<im.name, im.uri>> : im \in AdditionalImports(m)}
               b == {[name |-> e.name, values |-> e.values] : e \in ToSet(m.enums)}
               c == {[name |-> ot.name, base |-> QName(m, ot.base), abstract |-> ot.abstract,
                      uses |-> MemberQNames(m, ot.members), members |-> ot.members] : ot \in ToSet(m.types)}
               d == {NodeOf(m, inst) : inst \in ToSet(m.instances)}
               e == UNION {PerspectiveDesign(p) : p \in Exported(m)}
    <2>1. Design(m) = [header |-> m.header, prefixes |-> a, enums |-> b, types |-> c, instances |-> d, groups |-> e]
        BY Zenon DEF Design, NodeOf
    <2> HIDE DEF a, b, c, d, e
    <2>2. Design(m).instances = d
        BY <2>1
    <2> QED BY <2>2 DEF d
<1>2. ASSUME NEW inst
      PROVE  /\ NodeOf(m, inst).name = inst.name
             /\ NodeOf(m, inst).type = QName(m, inst.type)
             /\ NodeOf(m, inst).under = InstanceTarget(m, inst.under)
             /\ NodeOf(m, inst).overrides = LevelOverride(m, inst)
                              \cup ValueOverrides(m, inst, LocalMembers(m, inst.type))
             /\ NodeOf(m, inst).children = DesignChildren(m, inst, LocalMembers(m, inst.type))
    BY DEF NodeOf
<1> QED BY <1>1, <1>2

(* A qualified name says what its reference means.                            *)
QNameSays(m, ref, q) ==
    /\ q.name = ref.name
    /\ Kind(m, ref) = "builtin" => q.prefix = "ua"
    /\ Kind(m, ref) \in {"import", "importUnknown"} /\ ImportURI(m, ref.alias) = UA => q.prefix = "ua"
    /\ Kind(m, ref) \in {"import", "importUnknown"} /\ ImportURI(m, ref.alias) # UA => q.prefix = ref.alias
    /\ Kind(m, ref) \notin {"builtin", "import", "importUnknown"} => q.prefix = ref.alias

LEMMA QNameIs == ASSUME NEW m, NEW ref PROVE QNameSays(m, ref, QName(m, ref))
<1> DEFINE kind == Kind(m, ref)
           home == ImportURI(m, ref.alias)
           p == CASE kind = "builtin" -> "ua"
                  [] kind \in {"import", "importUnknown"} /\ home = UA -> "ua"
                  [] OTHER -> ref.alias
<1>1. QName(m, ref) = [name |-> ref.name, prefix |-> p]
    BY Zenon DEF QName
<1>2. /\ kind = "builtin" => p = "ua"
      /\ kind \in {"import", "importUnknown"} /\ home = UA => p = "ua"
      /\ kind \in {"import", "importUnknown"} /\ home # UA => p = ref.alias
      /\ kind \notin {"builtin", "import", "importUnknown"} => p = ref.alias
    <2> HIDE DEF kind, home
    <2> QED OBVIOUS
<1> HIDE DEF p
<1>3. QName(m, ref).name = ref.name /\ QName(m, ref).prefix = p
    BY <1>1
<1> QED BY <1>2, <1>3 DEF QNameSays

LEMMA KindMeans ==
    ASSUME NEW m, NEW ref
    PROVE  \E uri : /\ Means(m, ref, uri, ResolveType(m, ref))
                    /\ Imported(m, ref) => uri = ImportURI(m, ref.alias)
<1> DEFINE uri == IF ref.alias # "" /\ ImportKnown(m, ref.alias) THEN ImportURI(m, ref.alias) ELSE ""
<1>1. ResolveType(m, ref) = Resolved(m, ref, uri)
    BY Zenon DEF ResolveType
<1>2. Imported(m, ref) => uri = ImportURI(m, ref.alias)
    BY DEF Imported
<1> HIDE DEF uri
<1>3. Means(m, ref, uri, Resolved(m, ref, uri))
    BY ResolvedIs
<1> QED BY <1>1, <1>2, <1>3

TargetSays(ref, q) == q.name = ref.name /\ (q.prefix = "" => ref.alias = "")

LEMMA PrefixMeans ==
    ASSUME NEW m, NEW ref
    PROVE  TargetSays(ref, QName(m, ref))
<1> DEFINE q == QName(m, ref)
<1>1. QNameSays(m, ref, q)
    BY QNameIs
<1> HIDE DEF q
<1>2. "ua" # ""
    OBVIOUS
<1>3. TargetSays(ref, q)
    BY <1>1, <1>2 DEF QNameSays, TargetSays
<1> QED BY <1>3 DEF q

LEMMA TargetMeans ==
    ASSUME NEW m, NEW ref
    PROVE  TargetSays(ref, InstanceTarget(m, ref))
<1>1. CASE Kind(m, ref) = "unknownName"
    <2>1. PICK uri : Means(m, ref, uri, ResolveType(m, ref))
        BY KindMeans
    <2>2. ref.alias = ""
        BY <1>1, <2>1 DEF Means, Kind
    <2> DEFINE q == [name |-> ref.name, prefix |-> ""]
    <2>3. InstanceTarget(m, ref) = q
        BY <1>1, Zenon DEF InstanceTarget
    <2>4. q.name = ref.name
        OBVIOUS
    <2> HIDE DEF q
    <2>5. TargetSays(ref, q)
        BY <2>2, <2>4 DEF TargetSays
    <2> QED BY <2>3, <2>5
<1>2. CASE Kind(m, ref) # "unknownName"
    <2>1. InstanceTarget(m, ref) = QName(m, ref)
        BY <1>2, Zenon DEF InstanceTarget
    <2> QED BY <2>1, PrefixMeans
<1> QED BY <1>1, <1>2

LEMMA TierIs == \A l \in DOMAIN Tier : Tier[l] \in Int
    BY DEF Tier

LEMMA LevelOf ==
    ASSUME NEW m \in Models, NEW inst \in ToSet(m.instances),
           CheckHierarchy(m, inst) = {}, "EquipmentLevel" \notin Names(inst.values)
    PROVE  {Tier[o.value] : o \in {p \in NodeOf(m, inst).overrides :
                                       p.name = "EquipmentLevel" /\ p.value \in DOMAIN Tier}}
           = IF IsOrg(inst) THEN {Tier[inst.level]} ELSE {}
<1> DEFINE lev == LevelOverride(m, inst)
           val == ValueOverrides(m, inst, LocalMembers(m, inst.type))
           alias == [name |-> "ISA95EquipmentElementLevelEnum", prefix |-> LevelAlias(m)]
           one == [name |-> "EquipmentLevel", value |-> inst.level, type |-> alias]
<1>1. NodeOf(m, inst).overrides = lev \cup val
    BY DesignInstances
<1>2. \A o \in val : o.name # "EquipmentLevel"
    <2>1. inst \in Instances
        <3>1. m.instances \in Seq(Instances)
            BY DEF Models
        <3> QED BY <3>1, NamesOf
    <2>2. \A v \in ToSet(inst.values) : v.name \in Names(inst.values)
        <3>1. inst.values \in Seq([name : STRING, raw : STRING])
            BY <2>1 DEF Instances
        <3> QED BY <3>1, NamesOf
    <2> DEFINE ty(v) == QName(m, FirstNamed(LocalMembers(m, inst.type), v.name).type)
    <2>3. \A o \in val : \E v \in ToSet(inst.values) : o = [name |-> v.name, value |-> v.raw, type |-> ty(v)]
        BY Zenon DEF ValueOverrides
    <2> HIDE DEF val, ty
    <2>4. \A o \in val : \E v \in ToSet(inst.values) : o.name = v.name
        BY <2>3
    <2> QED BY <2>2, <2>4
<1>3. IsOrg(inst) => TypeHasMember(m, inst.type, "EquipmentLevel")
    BY CleanHierarchy
<1>4. lev = IF TypeHasMember(m, inst.type, "EquipmentLevel") /\ inst.level \in DOMAIN Tier \cup Tierless
            THEN {one} ELSE {}
    BY Zenon DEF LevelOverride
<1> HIDE DEF alias
<1>5. one.name = "EquipmentLevel" /\ one.value = inst.level
    OBVIOUS
<1> HIDE DEF lev, val, one
<1>6. CASE IsOrg(inst)
    <2>1. inst.level \in DOMAIN Tier
        BY <1>6 DEF IsOrg
    <2>2. lev = {one}
        BY <1>3, <1>4, <1>6, <2>1
    <2>3. {p \in NodeOf(m, inst).overrides : p.name = "EquipmentLevel" /\ p.value \in DOMAIN Tier} = {one}
        BY <1>1, <1>2, <1>5, <2>1, <2>2
    <2> QED BY <1>5, <1>6, <2>3
<1>7. CASE ~IsOrg(inst)
    <2>1. inst.level \notin DOMAIN Tier
        BY <1>7 DEF IsOrg
    <2>2. {p \in NodeOf(m, inst).overrides : p.name = "EquipmentLevel" /\ p.value \in DOMAIN Tier} = {}
        BY <1>1, <1>2, <1>4, <1>5, <2>1
    <2> QED BY <1>7, <2>2
<1> QED BY <1>6, <1>7

(* A name is that of an organizational instance j steps above tier t.         *)
Higher(m, n, t, j) ==
    \E inst \in ToSet(m.instances) :
        /\ inst.name = n /\ IsOrg(inst)
        /\ Tier[inst.level] <= t /\ (j > 0 => Tier[inst.level] < t)
        /\ m.skip \/ Tier[inst.level] = t - j

LEMMA HigherNext ==
    ASSUME NEW a \in Int, NEW b \in Int, NEW t \in Int, NEW j \in Nat, NEW skip,
           a <= t, skip \/ a = t - j, ~(a <= b), skip \/ ~(a > b + 1)
    PROVE  b <= t /\ b < t /\ (skip \/ b = t - (j + 1))
    OBVIOUS

LEMMA LevelsBuilt ==
    ASSUME NEW m \in Models, Clean(m), \A inst \in ToSet(m.instances) : Ordered(m, inst)
    PROVE  Descending(m.skip, Design(m).instances)
<1> DEFINE nodes == Design(m).instances
           N(inst) == NodeOf(m, inst)
           I == ToSet(m.instances)
           P(inst) == LastNamed(m.instances, inst.under.name)
<1>1. /\ m.instances \in Seq(Instances) /\ Repeated(m.instances) = {}
      /\ \A inst \in I : CheckHierarchy(m, inst) = {}
    BY CleanInstance DEF Models
<1>2. /\ nodes = {N(inst) : inst \in I}
      /\ \A inst : N(inst).name = inst.name /\ N(inst).under = InstanceTarget(m, inst.under)
    BY DesignInstances
<1>3. /\ \A inst \in I : LastNamed(m.instances, inst.name) = inst
      /\ \A inst \in I : inst.name \in Names(m.instances)
      /\ IsFiniteSet(Names(m.instances))
    BY <1>1, UniqueNamed, NamesOf, NamesFinite
<1> HIDE DEF nodes, N
<1>4. \A inst \in I : N(inst) \in nodes /\ NodeNamed(nodes, inst.name) = N(inst)
    <2> TAKE inst \in I
    <2>1. \A x \in nodes : x.name = inst.name => x = N(inst)
        BY <1>2, <1>3
    <2> QED BY <1>2, <2>1 DEF NodeNamed
<1>5. \A inst \in I : TiersOf(nodes, inst.name) = IF IsOrg(inst) THEN {Tier[inst.level]} ELSE {}
    <2> TAKE inst \in I
    <2>1. "EquipmentLevel" \notin Names(inst.values)
        BY DEF Ordered
    <2>2. {Tier[o.value] : o \in {p \in N(inst).overrides :
                                       p.name = "EquipmentLevel" /\ p.value \in DOMAIN Tier}}
           = IF IsOrg(inst) THEN {Tier[inst.level]} ELSE {}
        BY <1>1, <2>1, LevelOf DEF N
    <2> QED BY <1>4, <2>2, Zenon DEF TiersOf
<1>6. \A inst \in I : Nested(nodes, N(inst)) => HasParent(m, inst) /\ N(inst).under.name = inst.under.name
    <2> TAKE inst \in I
    <2> HAVE Nested(nodes, N(inst))
    <2>1. inst.under.alias = "" /\ N(inst).under.name = inst.under.name
        <3>1. TargetSays(inst.under, N(inst).under)
            BY <1>2, TargetMeans
        <3> QED BY <3>1 DEF Nested, TargetSays
    <2>2. inst.under.name \in Names(m.instances)
        <3>1. PICK y \in nodes : y.name = N(inst).under.name
            BY DEF Nested
        <3>2. PICK i \in I : y = N(i)
            BY <1>2
        <3>3. y.name = i.name /\ i.name \in Names(m.instances)
            BY <1>2, <1>3, <3>2
        <3> QED BY <2>1, <3>1, <3>3
    <2> QED BY <2>1, <2>2 DEF HasParent
<1>7. ASSUME NEW inst \in I, HasParent(m, inst)
      PROVE  /\ P(inst) \in I /\ P(inst).name = inst.under.name
             /\ IsOrg(inst) => /\ IsOrg(P(inst))
                               /\ ~(Tier[inst.level] <= Tier[P(inst).level])
                               /\ m.skip \/ ~(Tier[inst.level] > Tier[P(inst).level] + 1)
             /\ ~IsOrg(inst) /\ IsOrg(P(inst)) => ~(Tier[P(inst).level] < 3)
    <2>1. P(inst) \in I /\ P(inst).name = inst.under.name
        BY <1>1, <1>7, Named DEF HasParent
    <2>2. CheckTiers(m, inst, P(inst)) = {}
        BY <1>1, <1>7, CleanHierarchy
    <2>3. IsOrg(inst) => IsOrg(P(inst))
        BY <1>7 DEF Ordered
    <2> QED BY <2>1, <2>2, <2>3, CleanTiers
<1> DEFINE up == Above(nodes)
<1>8. /\ IsFiniteSet(DOMAIN up)
      /\ \A inst \in I : inst.name \in DOMAIN up => HasParent(m, inst) /\ up[inst.name] = inst.under.name
    <2>1. /\ DOMAIN up = {x.name : x \in {y \in nodes : Nested(nodes, y)}}
          /\ \A n \in DOMAIN up : up[n] = NodeNamed(nodes, n).under.name
        BY DEF Above
    <2> HIDE DEF up
    <2>2. DOMAIN up \subseteq Names(m.instances)
        BY <1>2, <1>3, <2>1
    <2>3. ASSUME NEW inst \in I, inst.name \in DOMAIN up
          PROVE  HasParent(m, inst) /\ up[inst.name] = inst.under.name
        <3>1. PICK y \in nodes : Nested(nodes, y) /\ y.name = inst.name
            BY <2>1, <2>3
        <3>2. PICK other \in I : y = N(other)
            BY <1>2
        <3>3. other = inst
            BY <1>2, <1>3, <3>1, <3>2
        <3>4. HasParent(m, inst) /\ N(inst).under.name = inst.under.name
            BY <1>6, <3>1, <3>2, <3>3
        <3> QED BY <1>4, <2>1, <2>3, <3>4
    <2> QED BY <1>3, <2>2, <2>3, FS_Subset
<1> HIDE DEF up, I, P
<1>9. ASSUME NEW inst \in I, IsOrg(inst), NEW k \in 2..Len(Walk(up, inst.name)),
             NEW above \in TiersOf(nodes, Walk(up, inst.name)[k])
      PROVE  above < Tier[inst.level] /\ (m.skip \/ above = Tier[inst.level] - (k - 1))
    <2> DEFINE w == Walk(up, inst.name)
               t == Tier[inst.level]
    <2>1. w \in Seq(Places(up, inst.name)) /\ IsPath(up, inst.name, w)
        BY <1>8, WalkIs
    <2> HIDE DEF w
    <2>2. Len(w) \in Nat /\ w[1] = inst.name
        BY <2>1 DEF IsPath
    <2>3. t \in Int
        BY <1>9, TierIs DEF IsOrg
    <2> DEFINE T == {j \in Nat : j + 1 <= Len(w) => Higher(m, w[j + 1], t, j)}
    <2>4. 0 \in T
        <3>1. t <= t /\ t = t - 0
            BY <2>3
        <3>2. Higher(m, w[1], t, 0)
            BY <1>9, <2>2, <3>1 DEF Higher, I
        <3> QED BY <3>2
    <2>5. ASSUME NEW j \in Nat, j \in T PROVE j + 1 \in T
        <3> SUFFICES ASSUME (j + 1) + 1 <= Len(w) PROVE Higher(m, w[(j + 1) + 1], t, j + 1)
            OBVIOUS
        <3>1. j + 1 \in 1..Len(w) - 1 /\ j + 1 <= Len(w)
            BY <2>2
        <3>2. w[j + 1] \in DOMAIN up /\ w[(j + 1) + 1] = up[w[j + 1]]
            BY <2>1, <3>1 DEF IsPath
        <3>3. PICK i \in I : /\ i.name = w[j + 1] /\ IsOrg(i) /\ Tier[i.level] <= t
                             /\ m.skip \/ Tier[i.level] = t - j
            BY <2>5, <3>1 DEF Higher, I
        <3>4. HasParent(m, i) /\ w[(j + 1) + 1] = i.under.name
            BY <1>8, <3>2, <3>3
        <3> DEFINE p == P(i)
                   a == Tier[i.level]
                   b == Tier[p.level]
        <3>5. p \in I /\ p.name = i.under.name /\ IsOrg(p) /\ ~(a <= b) /\ (m.skip \/ ~(a > b + 1))
            BY <1>7, <3>3, <3>4
        <3>6. a \in Int /\ b \in Int
            BY <3>3, <3>5, TierIs DEF IsOrg
        <3> HIDE DEF a, p
        <3>7. a <= t /\ (m.skip \/ a = t - j)
            BY <3>3 DEF a
        <3> HIDE DEF b, t
        <3>8. b <= t /\ b < t /\ (m.skip \/ b = t - (j + 1))
            BY <2>3, <3>5, <3>6, <3>7, HigherNext
        <3> QED BY <3>4, <3>5, <3>8 DEF Higher, I, b
    <2> HIDE DEF T
    <2>6. Nat \subseteq T
        BY <2>4, <2>5, Induction
    <2>7. k - 1 \in Nat /\ (k - 1) + 1 = k /\ k <= Len(w) /\ k - 1 > 0
        BY <1>9, <2>2 DEF w
    <2>8. Higher(m, w[k], t, k - 1)
        BY <2>6, <2>7 DEF T
    <2>9. PICK i \in I : /\ i.name = w[k] /\ IsOrg(i) /\ Tier[i.level] < t
                         /\ m.skip \/ Tier[i.level] = t - (k - 1)
        BY <2>7, <2>8 DEF Higher, I
    <2>10. above = Tier[i.level]
        BY <1>5, <1>9, <2>9 DEF w
    <2> QED BY <2>9, <2>10
<1>10. ASSUME NEW inst \in I, ~IsOrg(inst), Nested(nodes, N(inst)), NEW above \in TiersOf(nodes, N(inst).under.name)
       PROVE  above >= 3
    <2>1. HasParent(m, inst) /\ N(inst).under.name = inst.under.name
        BY <1>6, <1>10
    <2> DEFINE p == P(inst)
    <2>2. p \in I /\ p.name = inst.under.name /\ (IsOrg(p) => ~(Tier[p.level] < 3))
        BY <1>7, <1>10, <2>1
    <2> HIDE DEF p
    <2>3. IsOrg(p) /\ above = Tier[p.level]
        BY <1>5, <1>10, <2>1, <2>2
    <2>4. above \in Int
        BY <2>3, TierIs DEF IsOrg
    <2> QED BY <2>2, <2>3, <2>4
<1>11. ASSUME NEW x \in nodes
       PROVE  /\ \A t \in TiersOf(nodes, x.name), k \in 2..Len(Walk(up, x.name)) :
                    \A above \in TiersOf(nodes, Walk(up, x.name)[k]) :
                        above < t /\ (m.skip \/ above = t - (k - 1))
              /\ TiersOf(nodes, x.name) = {} /\ Nested(nodes, x) =>
                    \A above \in TiersOf(nodes, x.under.name) : above >= 3
    <2>1. PICK inst \in I : x = N(inst)
        BY <1>2
    <2>2. x.name = inst.name
        BY <1>2, <2>1
    <2>3. TiersOf(nodes, x.name) = IF IsOrg(inst) THEN {Tier[inst.level]} ELSE {}
        BY <1>5, <2>2
    <2>4. ASSUME NEW t \in TiersOf(nodes, x.name) PROVE IsOrg(inst) /\ t = Tier[inst.level]
        BY <2>3, <2>4
    <2>5. ASSUME NEW t \in TiersOf(nodes, x.name), NEW k \in 2..Len(Walk(up, x.name)),
                 NEW above \in TiersOf(nodes, Walk(up, x.name)[k])
          PROVE  above < t /\ (m.skip \/ above = t - (k - 1))
        BY <1>9, <2>2, <2>4, <2>5
    <2>6. TiersOf(nodes, x.name) = {} => ~IsOrg(inst)
        BY <2>3
    <2> QED BY <1>10, <2>1, <2>5, <2>6
<1> QED BY <1>11 DEF Descending, up, nodes

(* What is built from a model the service lets pass has the organizational    *)
(* levels in order.                                                           *)
THEOREM LevelsAreOrdered == Spec => []LevelsDescend
<1>1. TypeOK => LevelsDescend
    <2> SUFFICES ASSUME TypeOK, Clean(Judged(draft)), \A inst \in ToSet(draft.instances) : Ordered(draft, inst)
                 PROVE  Descending(draft.skip, Design(Built(draft)).instances)
        BY DEF LevelsDescend
    <2>1. draft \in Plain
        BY DEF TypeOK, Plain
    <2> DEFINE B == Built(draft)
    <2>2. B \in Models /\ Clean(B) /\ SameFile(draft, B)
        BY <2>1, JudgedIsModel, CleanBuilt, BuiltHas
    <2> HIDE DEF B
    <2>3. \A inst \in ToSet(B.instances) : Ordered(B, inst)
        BY <2>2 DEF SameFile, Ordered, HasParent
    <2>4. Descending(B.skip, Design(B).instances)
        BY <2>2, <2>3, LevelsBuilt
    <2>5. B.skip = draft.skip
        BY <2>2 DEF SameFile
    <2> QED BY <2>4, <2>5 DEF B
<1> QED BY <1>1, ModelTypes, PTL

-------------------------------------------------------------------------------
(* What members an instance's type has: those that types of the model declare *)
(* and those made of a companion node's.                                      *)
FarKinds == [name : STRING, kind : STRING, placeholder : BOOLEAN]
Synth == [name : STRING, kind : STRING, placeholder : BOOLEAN, type : {NoRef}, children : {<<>>}]
AllMembers == Members \cup MembersWith({<<>>}) \cup Synth

LEMMA SynthIs ==
    ASSUME NEW far \in Seq(FarKinds)
    PROVE  Synthesized(far) \in Seq(Synth)
<1>1. \A i \in DOMAIN far : [name |-> far[i].name, kind |-> far[i].kind, placeholder |-> far[i].placeholder,
                             type |-> NoRef, children |-> <<>>] \in Synth
    <2> TAKE i \in DOMAIN far
    <2>1. far[i] \in FarKinds
        OBVIOUS
    <2> QED BY <2>1 DEF FarKinds, Synth
<1> DEFINE e(i) == [name |-> far[i].name, kind |-> far[i].kind, placeholder |-> far[i].placeholder,
                    type |-> NoRef, children |-> <<>>]
<1>2. Synthesized(far) = [i \in DOMAIN far |-> e(i)]
    BY Zenon DEF Synthesized
<1>3. \A i \in DOMAIN far : e(i) \in Synth
    BY <1>1
<1> HIDE DEF e
<1>4. DOMAIN far = 1..Len(far) /\ Len(far) \in Nat
    OBVIOUS
<1> QED BY <1>2, <1>3, <1>4

LEMMA FarWalk ==
    ASSUME NEW m, NEW x \in SpecNodes
    PROVE  /\ IsFiniteSet(DOMAIN LoadedBases(m))
           /\ Walk(LoadedBases(m), x) \in Seq(SpecNodes)
           /\ Len(Walk(LoadedBases(m), x)) > 0
<1> DEFINE up == LoadedBases(m)
<1>1. /\ DOMAIN up \subseteq SpecNodes
      /\ \A k \in DOMAIN up : up[k] \in SpecNodes
    BY DEF LoadedBases
<1> HIDE DEF up
<1>2. IsFiniteSet(DOMAIN up)
    BY <1>1, SpecsAssumption, FS_Subset
<1>3. Walk(up, x) \in Seq(Places(up, x)) /\ Len(Walk(up, x)) > 0
    BY <1>2, WalkIs DEF IsPath
<1>4. Places(up, x) \subseteq SpecNodes
    BY <1>1 DEF Places
<1>5. Walk(up, x) \in Seq(SpecNodes)
    BY <1>3, <1>4
<1> QED BY <1>2, <1>3, <1>5 DEF up

LEMMA FlattenedIs ==
    ASSUME NEW walk \in Seq(SpecNodes)
    PROVE  Flattened(walk) \in Seq(FarKinds)
<1> DEFINE ss == [i \in DOMAIN walk |-> Node(walk[i]).members]
<1>1. \A i \in DOMAIN walk : Node(walk[i]).members \in Seq(FarKinds)
    <2> TAKE i \in DOMAIN walk
    <2>1. walk[i] \in SpecNodes
        OBVIOUS
    <2> QED BY <2>1, SpecsAssumption DEF FarKinds
<1>2. DOMAIN walk = 1..Len(walk) /\ Len(walk) \in Nat
    OBVIOUS
<1>3. ss \in Seq(Seq(FarKinds))
    BY <1>1, <1>2
<1> HIDE DEF ss
<1>4. FlattenSeq(ss) \in Seq(FarKinds)
    BY <1>3, FlattenIs
<1>5. Unrepeated(FlattenSeq(ss)) \in Seq(FarKinds)
    BY <1>4, UnrepeatedIs
<1> QED BY <1>5 DEF Flattened, ss

LEMMA KeyIs ==
    ASSUME NEW m \in Models, NEW ref, Kind(m, ref) = "importResolved"
    PROVE  CatalogKey(m, ref) \in SpecNodes
<1>1. PICK uri : Means(m, ref, uri, ResolveType(m, ref))
    BY KindMeans
<1>2. InCatalog(m, uri, ref.name) /\ ResolveType(m, ref).uri = uri
    BY <1>1 DEF Means, Kind
<1>3. m.catalog \subseteq DOMAIN Specs
    BY DEF Models
<1> QED BY <1>2, <1>3 DEF InCatalog, CatalogKey, SpecNodes

LEMMA FarMembersAre ==
    ASSUME NEW m \in Models, NEW ref
    PROVE  FarMembers(m, ref) \in Seq(Synth)
<1>1. CASE Kind(m, ref) # "importResolved"
    <2>1. FarMembers(m, ref) = <<>>
        BY <1>1, Zenon DEF FarMembers
    <2> QED BY <2>1
<1>2. CASE Kind(m, ref) = "importResolved"
    <2> DEFINE x == CatalogKey(m, ref)
               w == Walk(LoadedBases(m), x)
    <2>1. x \in SpecNodes
        BY <1>2, KeyIs
    <2>2. FarMembers(m, ref) = Synthesized(Flattened(w))
        BY <1>2, Zenon DEF FarMembers
    <2> HIDE DEF x
    <2>3. w \in Seq(SpecNodes)
        BY <2>1, FarWalk
    <2> HIDE DEF w
    <2> QED BY <2>2, <2>3, FlattenedIs, SynthIs
<1> QED BY <1>1, <1>2

(* The walk to the bases of a type, and what is declared along it.            *)
LEMMA BasesWalk ==
    ASSUME NEW m \in Models, NEW t \in Names(m.types)
    PROVE  /\ IsFiniteSet(DOMAIN Bases(m))
           /\ Walk(Bases(m), t) \in Seq(Names(m.types))
           /\ Len(Walk(Bases(m), t)) > 0
<1> DEFINE up == Bases(m)
           N == Names(m.types)
<1>1. DOMAIN up \subseteq N /\ \A k \in DOMAIN up : up[k] \in N
    BY DEF Bases, HasLocalBase
<1> HIDE DEF up
<1>2. IsFiniteSet(N)
    <2>1. m.types \in Seq(Types)
        BY DEF Models
    <2> QED BY <2>1, NamesFinite
<1> HIDE DEF N
<1>3. IsFiniteSet(DOMAIN up)
    BY <1>1, <1>2, FS_Subset
<1>4. Walk(up, t) \in Seq(Places(up, t)) /\ Len(Walk(up, t)) > 0
    BY <1>3, WalkIs DEF IsPath
<1>5. Places(up, t) \subseteq N
    BY <1>1 DEF Places, N
<1>6. Walk(up, t) \in Seq(N)
    BY <1>4, <1>5
<1> QED BY <1>3, <1>4, <1>6 DEF up, N

Along(m, walk) == [i \in DOMAIN walk |-> FirstNamed(m.types, walk[i]).members]
Gathered(m, walk) == FlattenSeq(Along(m, walk)) \o FarMembers(m, FirstNamed(m.types, Last(walk)).base)

LEMMA GatheredIs ==
    ASSUME NEW m \in Models, NEW walk \in Seq(Names(m.types))
    PROVE  /\ \A i \in DOMAIN walk : /\ FirstNamed(m.types, walk[i]) \in ToSet(m.types)
                                     /\ FirstNamed(m.types, walk[i]) \in Types
                                     /\ FirstNamed(m.types, walk[i]).name = walk[i]
           /\ Along(m, walk) \in Seq(Seq(AllMembers))
           /\ FarMembers(m, FirstNamed(m.types, Last(walk)).base) \in Seq(AllMembers)
           /\ Gathered(m, walk) \in Seq(AllMembers)
           /\ \A mem \in ToSet(Gathered(m, walk)) :
                mem \in Synth \/ \E ot \in ToSet(m.types) : mem \in ToSet(ot.members)
<1>1. m.types \in Seq(Types) /\ \A i \in DOMAIN walk : walk[i] \in Names(m.types)
    BY DEF Models
<1>2. \A i \in DOMAIN walk : /\ FirstNamed(m.types, walk[i]) \in ToSet(m.types)
                             /\ FirstNamed(m.types, walk[i]) \in Types
                             /\ FirstNamed(m.types, walk[i]).name = walk[i]
    BY <1>1, Named
<1>3. \A ot \in Types : ot.members \in Seq(Members)
    BY DEF Types
<1>4. \A i \in DOMAIN walk : FirstNamed(m.types, walk[i]).members \in Seq(AllMembers)
    <2> TAKE i \in DOMAIN walk
    <2>1. FirstNamed(m.types, walk[i]).members \in Seq(Members)
        BY <1>2, <1>3
    <2>2. Members \subseteq AllMembers
        BY DEF AllMembers
    <2> HIDE DEF AllMembers
    <2> QED BY <2>1, <2>2
<1> DEFINE ss == Along(m, walk)
           f == FarMembers(m, FirstNamed(m.types, Last(walk)).base)
<1>5. /\ DOMAIN ss = DOMAIN walk /\ ss \in Seq(Seq(AllMembers))
      /\ \A i \in DOMAIN walk : ss[i] = FirstNamed(m.types, walk[i]).members
    <2>1. DOMAIN walk = 1..Len(walk) /\ Len(walk) \in Nat
        OBVIOUS
    <2> QED BY <1>4, <2>1 DEF Along
<1>6. f \in Seq(AllMembers) /\ f \in Seq(Synth)
    <2>1. f \in Seq(Synth)
        BY FarMembersAre
    <2> HIDE DEF f
    <2>2. Synth \subseteq AllMembers
        BY DEF AllMembers
    <2> QED BY <2>1, <2>2
<1>7. Gathered(m, walk) = FlattenSeq(ss) \o f
    BY DEF Gathered
<1> HIDE DEF ss, f
<1>8. FlattenSeq(ss) \in Seq(AllMembers) /\ ToSet(FlattenSeq(ss)) = UNION {ToSet(ss[i]) : i \in DOMAIN ss}
    BY <1>5, FlattenIs
<1>9. Gathered(m, walk) \in Seq(AllMembers) /\ ToSet(Gathered(m, walk)) = ToSet(FlattenSeq(ss)) \cup ToSet(f)
    BY <1>6, <1>7, <1>8, ConcatIs
<1>10. ASSUME NEW mem \in ToSet(Gathered(m, walk))
       PROVE  mem \in Synth \/ \E ot \in ToSet(m.types) : mem \in ToSet(ot.members)
    <2>1. CASE mem \in ToSet(f)
        <3>1. ToSet(f) \subseteq Synth
            BY <1>6, NamesOf
        <3> QED BY <2>1, <3>1
    <2>2. CASE mem \in ToSet(FlattenSeq(ss))
        <3>1. PICK i \in DOMAIN walk : mem \in ToSet(ss[i])
            BY <1>5, <1>8, <2>2
        <3> QED BY <1>2, <1>5, <3>1
    <2> QED BY <1>9, <2>1, <2>2
<1> QED BY <1>2, <1>5, <1>6, <1>9, <1>10 DEF ss, f

LEMMA MembersFrom ==
    ASSUME NEW m \in Models, NEW t \in Names(m.types)
    PROVE  /\ ResolveMembers(m, t) \in Seq(AllMembers)
           /\ \A mem \in ToSet(ResolveMembers(m, t)) :
                mem \in Synth \/ \E ot \in ToSet(m.types) : mem \in ToSet(ot.members)
<1> DEFINE w == Walk(Bases(m), t)
           g == Gathered(m, w)
<1>1. w \in Seq(Names(m.types))
    BY BasesWalk
<1>2. ResolveMembers(m, t) = Unrepeated(g)
    BY Zenon DEF ResolveMembers, MembersAlong, Gathered, Along
<1> HIDE DEF w
<1>3. g \in Seq(AllMembers) /\ \A mem \in ToSet(g) :
                mem \in Synth \/ \E ot \in ToSet(m.types) : mem \in ToSet(ot.members)
    BY <1>1, GatheredIs
<1> HIDE DEF g
<1>4. Unrepeated(g) \in Seq(AllMembers) /\ ToSet(Unrepeated(g)) = {FirstNamed(g, n) : n \in Names(g)}
    BY <1>3, UnrepeatedIs
<1>5. \A n \in Names(g) : FirstNamed(g, n) \in ToSet(g)
    BY <1>3, Named
<1> QED BY <1>2, <1>3, <1>4, <1>5

(* The members in file order with their own.                                  *)
LEMMA PreorderIs ==
    ASSUME NEW mems \in Seq(AllMembers)
    PROVE  /\ Preorder(mems) \in Seq(AllMembers)
           /\ ToSet(Preorder(mems)) = ToSet(mems) \cup UNION {ToSet(mem.children) : mem \in ToSet(mems)}
<1>1. \A x \in AllMembers : x.children \in Seq(AllMembers)
    <2>1. \A x \in Members : x.children \in Seq(MembersWith({<<>>}))
        BY DEF Members, MembersWith
    <2>2. \A x \in MembersWith({<<>>}) \cup Synth : x.children = <<>>
        BY DEF MembersWith, Synth
    <2>3. MembersWith({<<>>}) \subseteq AllMembers
        BY DEF AllMembers
    <2>4. \A x \in Members : x.children \in Seq(AllMembers)
        BY <2>1, <2>3
    <2>5. <<>> \in Seq(AllMembers)
        OBVIOUS
    <2> QED BY <2>2, <2>4, <2>5 DEF AllMembers
<1> DEFINE e(i) == <<mems[i]>> \o mems[i].children
           ss == [i \in DOMAIN mems |-> e(i)]
<1>2. DOMAIN mems = 1..Len(mems) /\ Len(mems) \in Nat /\ \A i \in DOMAIN mems : mems[i] \in AllMembers
    OBVIOUS
<1>3. ASSUME NEW i \in DOMAIN mems
      PROVE  e(i) \in Seq(AllMembers) /\ ToSet(e(i)) = {mems[i]} \cup ToSet(mems[i].children)
    <2> DEFINE one == <<mems[i]>>
    <2>1. one \in Seq(AllMembers) /\ mems[i].children \in Seq(AllMembers)
        BY <1>1, <1>2
    <2>2. ToSet(one) = {mems[i]}
        BY DEF ToSet
    <2> HIDE DEF one
    <2>3. one \o mems[i].children \in Seq(AllMembers)
          /\ ToSet(one \o mems[i].children) = ToSet(one) \cup ToSet(mems[i].children)
        BY <2>1, ConcatIs
    <2> QED BY <2>2, <2>3 DEF one
<1>4. Preorder(mems) = FlattenSeq(ss)
    BY Zenon DEF Preorder
<1> HIDE DEF e
<1>5. ss \in Seq(Seq(AllMembers)) /\ DOMAIN ss = DOMAIN mems /\ \A i \in DOMAIN mems : ss[i] = e(i)
    BY <1>2, <1>3
<1> HIDE DEF ss
<1>6. FlattenSeq(ss) \in Seq(AllMembers) /\ ToSet(FlattenSeq(ss)) = UNION {ToSet(ss[i]) : i \in DOMAIN ss}
    BY <1>5, FlattenIs
<1>7. ToSet(mems) = {mems[i] : i \in DOMAIN mems}
    BY DEF ToSet
<1>8. \A i \in DOMAIN mems : ToSet(ss[i]) = {mems[i]} \cup ToSet(mems[i].children)
    BY <1>3, <1>5
<1> DEFINE A == UNION {ToSet(ss[i]) : i \in DOMAIN ss}
           B == ToSet(mems) \cup UNION {ToSet(mem.children) : mem \in ToSet(mems)}
<1>9. ASSUME NEW d PROVE d \in A <=> d \in B
    <2>1. d \in A <=> \E i \in DOMAIN mems : d \in ToSet(ss[i])
        BY <1>5
    <2>2. d \in B <=> \E i \in DOMAIN mems : d = mems[i] \/ d \in ToSet(mems[i].children)
        BY <1>7
    <2> QED BY <1>8, <2>1, <2>2
<1> HIDE DEF A, B
<1>10. A = B
    BY <1>9
<1> QED BY <1>4, <1>6, <1>10 DEF A, B

-------------------------------------------------------------------------------
(* References that the linter lets pass, and the names they become.           *)
RefKnown(m, ref) == Kind(m, ref) # "unknownAlias" /\ (Kind(m, ref) = "unknownName" => ref = NoRef)
KnownName(m, q) ==
    q = NoQName \/ (q.prefix \in KnownPrefixes(m)
                    /\ (q.prefix = "" => q.name \in Names(m.types) \cup Names(m.enums)))

LEMMA AliasKnown ==
    ASSUME NEW m \in Models, NEW ref, Imported(m, ref), ImportURI(m, ref.alias) # UA
    PROVE  ref.alias \in KnownPrefixes(m) /\ ref.alias # ""
<1>1. m.imports \in Seq(Imports)
    BY DEF Models
<1>2. ref.alias # "" /\ ref.alias # "OpcUa" /\ ref.alias \in Names(m.imports)
    BY DEF Imported, ImportKnown, ImportURI
<1> DEFINE im == FirstNamed(m.imports, ref.alias)
<1>3. im \in ToSet(m.imports) /\ im.name = ref.alias
    BY <1>1, <1>2, Named
<1>4. im.uri # UA
    BY <1>2 DEF ImportURI
<1> HIDE DEF im
<1>5. im \in AdditionalImports(m)
    BY <1>2, <1>3, <1>4 DEF AdditionalImports
<1> QED BY <1>2, <1>3, <1>5 DEF KnownPrefixes

PrefixIs(m, q) == q.prefix \in KnownPrefixes(m) /\ q.prefix # ""

LEMMA PrefixKnown ==
    ASSUME NEW m \in Models, NEW ref, Kind(m, ref) \in {"builtin", "import", "importUnknown", "importResolved"}
    PROVE  PrefixIs(m, QName(m, ref))
<1> DEFINE q == QName(m, ref)
<1>1. QNameSays(m, ref, q)
    BY QNameIs
<1>2. PICK uri : Means(m, ref, uri, ResolveType(m, ref)) /\ (Imported(m, ref) => uri = ImportURI(m, ref.alias))
    BY KindMeans
<1> HIDE DEF q
<1>3. "ua" \in KnownPrefixes(m) /\ "ua" # ""
    BY DEF KnownPrefixes
<1>4. CASE q.prefix = "ua"
    BY <1>3, <1>4 DEF q, PrefixIs
<1>5. CASE q.prefix # "ua"
    <2>1. /\ Kind(m, ref) \in {"import", "importUnknown", "importResolved"} /\ q.prefix = ref.alias
          /\ Kind(m, ref) \in {"import", "importUnknown"} => ImportURI(m, ref.alias) # UA
        BY <1>1, <1>5 DEF QNameSays
    <2>2. Imported(m, ref)
        BY <1>2, <2>1 DEF Means, Kind
    <2>3. Kind(m, ref) = "importResolved" => uri # UA
        BY <1>2 DEF Means, Kind
    <2>4. ImportURI(m, ref.alias) # UA
        BY <1>2, <2>1, <2>2, <2>3
    <2>5. ref.alias \in KnownPrefixes(m) /\ ref.alias # ""
        BY <2>2, <2>4, AliasKnown
    <2> QED BY <2>1, <2>5 DEF q, PrefixIs
<1> QED BY <1>4, <1>5

LEMMA QNameKnown ==
    ASSUME NEW m \in Models, NEW ref, RefKnown(m, ref)
    PROVE  KnownName(m, QName(m, ref))
<1> DEFINE q == QName(m, ref)
<1>1. QNameSays(m, ref, q)
    BY QNameIs
<1>2. PICK uri : Means(m, ref, uri, ResolveType(m, ref)) /\ (Imported(m, ref) => uri = ImportURI(m, ref.alias))
    BY KindMeans
<1> HIDE DEF q
<1>3. CASE Kind(m, ref) \in {"builtin", "import", "importUnknown", "importResolved"}
    <2>1. PrefixIs(m, q)
        BY <1>3, PrefixKnown DEF q
    <2>2. KnownName(m, q)
        BY <2>1 DEF KnownName, PrefixIs
    <2> QED BY <2>2 DEF q
<1>4. CASE Kind(m, ref) = "local"
    <2>1. q.prefix = ref.alias /\ q.name = ref.name
        BY <1>1, <1>4 DEF QNameSays
    <2>2. ref.alias = "" /\ ref.name \in Names(m.enums) \cup Names(m.types)
        BY <1>2, <1>4 DEF Means, Kind
    <2>3. "" \in KnownPrefixes(m)
        BY DEF KnownPrefixes
    <2>4. KnownName(m, q)
        BY <2>1, <2>2, <2>3 DEF KnownName
    <2> QED BY <2>4 DEF q
<1>5. CASE Kind(m, ref) = "unknownName"
    <2>1. ref = NoRef
        BY <1>5 DEF RefKnown
    <2>2. QName(m, ref) = [name |-> ref.name, prefix |-> ref.alias]
        <3> DEFINE kind == Kind(m, ref)
                   home == ImportURI(m, ref.alias)
                   p == CASE kind = "builtin" -> "ua"
                          [] kind \in {"import", "importUnknown"} /\ home = UA -> "ua"
                          [] OTHER -> ref.alias
        <3>1. QName(m, ref) = [name |-> ref.name, prefix |-> p]
            BY Zenon DEF QName
        <3>2. p = ref.alias
            <4>1. kind = "unknownName"
                BY <1>5
            <4> HIDE DEF kind, home
            <4> QED BY <4>1
        <3> QED BY <3>1, <3>2
    <2>3. ref.name = "" /\ ref.alias = ""
        BY <2>1 DEF NoRef
    <2>4. QName(m, ref) = NoQName
        BY <2>2, <2>3, Zenon DEF NoQName
    <2> QED BY <2>4 DEF KnownName
<1>6. Kind(m, ref) \in {"builtin", "local", "unknownName", "unknownAlias",
                        "import", "importUnknown", "importResolved"}
    BY <1>2 DEF Means, Kind
<1> QED BY <1>3, <1>4, <1>5, <1>6 DEF RefKnown

LEMMA UnresolvedNone ==
    ASSUME NEW m, NEW x, NEW r, Unresolved(m, x, r) = {}
    PROVE  r.kind # "unknownAlias"
<1> DEFINE a == r.kind = "unknownAlias"
           b == r.kind = "importUnknown" /\ r.uri \in m.catalog
<1>1. Unresolved(m, x, r) = Said(x, {<<"unknown-import-alias", a>>, <<"unknown-import-type", b>>})
    BY Zenon DEF Unresolved
<1> HIDE DEF a, b
<1>2. Said(x, {<<"unknown-import-alias", a>>, <<"unknown-import-type", b>>})
      = When(a, <<"unknown-import-alias", x>>) \cup When(b, <<"unknown-import-type", x>>)
    BY SaidTwo
<1>3. When(a, <<"unknown-import-alias", x>>) = {}
    BY <1>1, <1>2
<1>4. ~a
    BY <1>3, SaidNothing
<1> QED BY <1>4 DEF a

LEMMA NoRefKnown ==
    ASSUME NEW m
    PROVE  RefKnown(m, NoRef)
<1> DEFINE r == NoRef
<1>1. r.alias = ""
    BY DEF NoRef
<1> HIDE DEF r
<1>2. PICK uri : Means(m, r, uri, ResolveType(m, r))
    BY KindMeans
<1>3. Kind(m, r) # "unknownAlias"
    BY <1>1, <1>2 DEF Means, Kind
<1> QED BY <1>3 DEF RefKnown, r

LEMMA TypeRefKnown ==
    ASSUME NEW m, NEW x, NEW ref, CheckTypeRef(m, x, ref) = {}
    PROVE  RefKnown(m, ref)
<1>1. CASE ref = NoRef
    BY <1>1, NoRefKnown
<1>2. CASE ref # NoRef
    <2> DEFINE a == Kind(m, ref) = "unknownName"
               u == Unresolved(m, x, ResolveType(m, ref))
               s == Said(x, {<<"unknown-type", a>>})
    <2>1. CheckTypeRef(m, x, ref) = u \cup s
        BY <1>2, Zenon DEF CheckTypeRef
    <2> HIDE DEF a
    <2>2. s = When(a, <<"unknown-type", x>>)
        BY SaidOne
    <2> HIDE DEF u, s
    <2>3. u = {} /\ When(a, <<"unknown-type", x>>) = {}
        BY <2>1, <2>2
    <2>4. ~a
        BY <2>3, SaidNothing
    <2>5. ResolveType(m, ref).kind # "unknownAlias"
        BY <2>3, UnresolvedNone DEF u
    <2> QED BY <2>4, <2>5 DEF RefKnown, Kind, a
<1> QED BY <1>1, <1>2

LEMMA BaseKnown ==
    ASSUME NEW m, NEW ot, CheckBase(m, ot) = {}, NotEnum(m, NoRef)
    PROVE  RefKnown(m, ot.base) /\ NotEnum(m, ot.base)
<1>1. CASE ot.base = NoRef
    BY <1>1, NoRefKnown
<1>2. CASE ot.base # NoRef
    <2> DEFINE a == UnknownBase(m, ot, ResolveType(m, ot.base))
               u == Unresolved(m, <<ot.name>>, ResolveType(m, ot.base))
               s == Said(<<ot.name>>, {<<"unknown-base", a>>})
    <2>1. CheckBase(m, ot) = u \cup s
        BY <1>2, Zenon DEF CheckBase
    <2> HIDE DEF a
    <2>2. s = When(a, <<"unknown-base", <<ot.name>>>>)
        BY SaidOne
    <2> HIDE DEF u, s
    <2>3. u = {} /\ When(a, <<"unknown-base", <<ot.name>>>>) = {}
        BY <2>1, <2>2
    <2>4. ~a
        BY <2>3, SaidNothing
    <2>5. ResolveType(m, ot.base).kind # "unknownAlias"
        BY <2>3, UnresolvedNone DEF u
    <2>6. Kind(m, ot.base) # "unknownName" /\ (Kind(m, ot.base) = "local" => ot.base.name \in Names(m.types))
        BY <2>4 DEF a, UnknownBase, Kind, HasLocalBase
    <2> QED BY <2>5, <2>6 DEF RefKnown, NotEnum, Kind
<1> QED BY <1>1, <1>2

LEMMA CleanBase ==
    ASSUME NEW m, Clean(m), NEW ot \in ToSet(m.types)
    PROVE  CheckBase(m, ot) = {}
<1> DEFINE g(t) == IF Loops(BasesFrom(m, t), t.name) THEN {<<"inheritance-cycle", <<Last(Walk(BasesFrom(m, t), t.name))>>>>} ELSE {}
           all == {CheckBase(m, t) \cup g(t) : t \in ToSet(m.types)}
<1>1. CheckInheritance(m) = UNION all
    BY Zenon DEF CheckInheritance
<1> HIDE DEF g
<1>2. CheckBase(m, ot) \cup g(ot) \in all
    OBVIOUS
<1> HIDE DEF all
<1>3. CheckBase(m, ot) \cup g(ot) = {}
    BY <1>1, <1>2, CleanParts
<1> QED BY <1>3

(* A member that passes, and what it refers to.                               *)
Passes(m, mem) ==
    (mem.kind # "method" => RefKnown(m, mem.type)) /\ \A arg \in mem.args : RefKnown(m, arg)

LEMMA MemberPasses ==
    ASSUME NEW m, NEW owner, NEW mem, CheckMember(m, owner, mem) = {}
    PROVE  Passes(m, mem)
<1> DEFINE y == Append(owner, mem.name)
           its == Said(y,
            {<<"invalid-kind", mem.kind \notin Kinds>>,
             <<"invalid-rule", mem.rule \notin Rules>>,
             <<"invalid-access", mem.kind \in {"variable", "property"} /\ mem.access \notin {"r", "rw"}>>,
             <<"placeholder-without-rule", mem.placeholder /\ mem.rule \notin PlaceholderRules>>,
             <<"rule-without-placeholder", ~mem.placeholder /\ mem.rule \in PlaceholderRules>>,
             <<"missing-type", mem.kind # "method" /\ mem.type = NoRef>>,
             <<"unknown-unit", mem.unit # "" /\ mem.kind = "variable" /\ mem.unit \notin Units>>,
             <<"unit-on-non-numeric",
               /\ mem.unit # "" /\ mem.kind = "variable"
               /\ ~(mem.type.alias = "" /\ mem.type.name \in Numeric)>>,
             <<"unit-on-property", mem.unit # "" /\ mem.kind = "property">>,
             <<"unit-requires-variable", mem.unit # "" /\ mem.kind \notin {"variable", "property"}>>})
           all == {CheckTypeRef(m, y, arg) : arg \in mem.args}
           type == IF mem.kind = "method" THEN {} ELSE CheckTypeRef(m, y, mem.type)
<1>1. CheckMember(m, owner, mem) = its \cup type \cup UNION all
    BY Zenon DEF CheckMember
<1> HIDE DEF its, y, all, type
<1>2. type = {} /\ \A s \in all : s = {}
    BY <1>1
<1>3. mem.kind # "method" => CheckTypeRef(m, y, mem.type) = {}
    BY <1>2 DEF type
<1>4. \A arg \in mem.args : CheckTypeRef(m, y, arg) = {}
    BY <1>2 DEF all
<1> QED BY <1>3, <1>4, TypeRefKnown DEF Passes

LEMMA MembersPass ==
    ASSUME NEW m, NEW owner, NEW mems, CheckMembers(m, owner, mems) = {}
    PROVE  \A mem \in ToSet(mems) :
             Passes(m, mem) /\ (mem.kind = "object" => \A c \in ToSet(mem.children) : Passes(m, c))
<1> DEFINE inner == {MembersSaid(m, Append(owner, mem.name), mem.children) :
                         mem \in {x \in ToSet(mems) : x.kind = "object"}}
<1>1. CheckMembers(m, owner, mems) = MembersSaid(m, owner, mems) \cup UNION inner
    BY MembersSaidIs
<1>2. MembersSaid(m, owner, mems) = {} /\ \A s \in inner : s = {}
    <2> HIDE DEF inner
    <2> QED BY <1>1
<1>3. ASSUME NEW o, NEW s, MembersSaid(m, o, s) = {}
      PROVE  \A mem \in ToSet(s) : Passes(m, mem)
    <2> TAKE mem \in ToSet(s)
    <2> DEFINE dup == {<<"duplicate-member", Append(o, n)>> : n \in Repeated(s)}
               all == {CheckMember(m, o, x) : x \in ToSet(s)}
    <2>1. MembersSaid(m, o, s) = dup \cup UNION all
        BY Zenon DEF MembersSaid
    <2>2. CheckMember(m, o, mem) \in all
        OBVIOUS
    <2> HIDE DEF dup, all
    <2>3. CheckMember(m, o, mem) = {}
        BY <1>3, <2>1, <2>2
    <2> QED BY <2>3, MemberPasses
<1>4. \A mem \in ToSet(mems) : Passes(m, mem)
    BY <1>2, <1>3
<1>5. ASSUME NEW mem \in ToSet(mems), mem.kind = "object" PROVE \A c \in ToSet(mem.children) : Passes(m, c)
    <2>1. MembersSaid(m, Append(owner, mem.name), mem.children) = {}
        BY <1>2, <1>5
    <2> QED BY <1>3, <2>1
<1> QED BY <1>4, <1>5

-------------------------------------------------------------------------------
(* What the members of an instance's type may refer to.                       *)
Sound(m, mem) ==
    /\ RefKnown(m, mem.type)
    /\ mem.kind = "object" \/ mem.placeholder => NotEnum(m, mem.type)

Given(m) == m \in Models /\ Clean(m) /\ Emittable(m)

LEMMA GivenParts ==
    ASSUME NEW m, Given(m)
    PROVE  /\ m \in Models /\ Clean(m) /\ NotEnum(m, NoRef)
           /\ "own" \notin {im.uri : im \in ToSet(m.imports)}
           /\ m.types \in Seq(Types) /\ m.instances \in Seq(Instances) /\ m.imports \in Seq(Imports)
           /\ \A ot \in ToSet(m.types) : EmittableType(m, ot) /\ ot \in Types /\ ot.members \in Seq(AllMembers)
           /\ \A inst \in ToSet(m.instances) : EmittableInstance(m, inst) /\ inst \in Instances
<1>1. m \in Models /\ Clean(m) /\ Emittable(m)
    BY DEF Given
<1>2. m.types \in Seq(Types) /\ m.instances \in Seq(Instances) /\ m.imports \in Seq(Imports)
    BY <1>1 DEF Models
<1>3. ToSet(m.types) \subseteq Types /\ ToSet(m.instances) \subseteq Instances
    BY <1>2, NamesOf
<1>4. \A ot \in ToSet(m.types) : ot \in Types /\ ot.members \in Seq(AllMembers)
    <2>1. \A ot \in Types : ot.members \in Seq(Members)
        BY DEF Types
    <2>2. Members \subseteq AllMembers
        BY DEF AllMembers
    <2> QED BY <1>3, <2>1, <2>2
<1> QED BY <1>1, <1>2, <1>3, <1>4 DEF Emittable

LEMMA InsideSound ==
    ASSUME NEW m, Given(m), NEW ot \in ToSet(m.types), NEW mem \in ToSet(Preorder(ot.members))
    PROVE  Sound(m, mem)
<1>1. CheckMembers(m, <<ot.name>>, ot.members) = {}
    BY CleanParts, GivenParts
<1>2. EmittableType(m, ot) /\ ot.members \in Seq(AllMembers)
    BY GivenParts
<1> DEFINE S == ot.members
<1>3. \A x \in ToSet(S) : Passes(m, x) /\ (x.kind = "object" => \A c \in ToSet(x.children) : Passes(m, c))
    BY <1>1, MembersPass
<1>4. ToSet(Preorder(S)) = ToSet(S) \cup UNION {ToSet(x.children) : x \in ToSet(S)}
    BY <1>2, PreorderIs
<1>5. /\ \A x \in ToSet(S) : x.kind # "object" => x.children = <<>>
      /\ mem.kind = "method" => mem.type = NoRef
      /\ mem.kind = "object" \/ mem.placeholder => NotEnum(m, mem.type)
    BY <1>2 DEF EmittableType
<1> HIDE DEF S
<1>6. mem \in ToSet(S) \/ \E x \in ToSet(S) : mem \in ToSet(x.children)
    <2>1. mem \in ToSet(S) \cup UNION {ToSet(x.children) : x \in ToSet(S)}
        BY <1>4 DEF S
    <2> QED BY <2>1
<1>7. ToSet(<<>>) = {}
    BY DEF ToSet
<1>8. Passes(m, mem)
    BY <1>3, <1>5, <1>6, <1>7
<1>9. RefKnown(m, NoRef)
    BY NoRefKnown
<1>10. RefKnown(m, mem.type)
    BY <1>5, <1>8, <1>9 DEF Passes
<1> QED BY <1>5, <1>10 DEF Sound

(* The members of a type that is local, and none of another.                  *)
LEMMA LocalMembersAre ==
    ASSUME NEW m \in Models, NEW ref
    PROVE  /\ LocalMembers(m, ref) \in Seq(AllMembers)
           /\ Kind(m, ref) # "local" => LocalMembers(m, ref) = <<>>
           /\ \A mem \in ToSet(LocalMembers(m, ref)) :
                mem \in Synth \/ \E ot \in ToSet(m.types) : mem \in ToSet(ot.members)
<1>1. <<>> \in Seq(AllMembers) /\ ToSet(<<>>) = {}
    BY DEF ToSet
<1>2. CASE Kind(m, ref) # "local"
    <2>1. LocalMembers(m, ref) = <<>>
        BY <1>2 DEF LocalMembers
    <2> QED BY <1>1, <2>1
<1>3. CASE Kind(m, ref) = "local" /\ ref.name \in Names(m.types)
    <2>1. LocalMembers(m, ref) = ResolveMembers(m, ref.name)
        BY <1>3, Zenon DEF LocalMembers, MembersOf
    <2> QED BY <1>3, <2>1, MembersFrom
<1>4. CASE Kind(m, ref) = "local" /\ ref.name \notin Names(m.types)
    <2>1. LocalMembers(m, ref) = FarMembers(m, ref)
        BY <1>4, Zenon DEF LocalMembers, MembersOf
    <2>2. Kind(m, ref) # "importResolved"
        BY <1>4
    <2>3. FarMembers(m, ref) = <<>>
        BY <2>2, Zenon DEF FarMembers
    <2> QED BY <1>1, <1>4, <2>1, <2>3
<1> QED BY <1>2, <1>3, <1>4

LEMMA LocalSound ==
    ASSUME NEW m, Given(m), NEW ref
    PROVE  \A mem \in ToSet(Preorder(LocalMembers(m, ref))) : Sound(m, mem)
<1> DEFINE S == LocalMembers(m, ref)
<1>1. m \in Models /\ NotEnum(m, NoRef) /\ RefKnown(m, NoRef)
    BY GivenParts, NoRefKnown
<1>2. S \in Seq(AllMembers) /\ \A x \in ToSet(S) : x \in Synth \/ \E ot \in ToSet(m.types) : x \in ToSet(ot.members)
    BY <1>1, LocalMembersAre
<1> HIDE DEF S
<1>3. ToSet(Preorder(S)) = ToSet(S) \cup UNION {ToSet(x.children) : x \in ToSet(S)}
    BY <1>2, PreorderIs
<1>4. ToSet(<<>>) = {}
    BY DEF ToSet
<1>5. \A x \in Synth : x.type = NoRef /\ x.children = <<>>
    BY DEF Synth
<1>6. ASSUME NEW mem \in ToSet(Preorder(S)) PROVE Sound(m, mem)
    <2>1. PICK x \in ToSet(S) : mem = x \/ mem \in ToSet(x.children)
        <3>1. mem \in ToSet(S) \cup UNION {ToSet(x.children) : x \in ToSet(S)}
            BY <1>3, <1>6
        <3> QED BY <3>1
    <2>2. CASE x \in Synth
        BY <1>1, <1>4, <1>5, <2>1, <2>2 DEF Sound
    <2>3. ASSUME NEW ot \in ToSet(m.types), x \in ToSet(ot.members) PROVE Sound(m, mem)
        <3> DEFINE T == ot.members
        <3>1. T \in Seq(AllMembers)
            BY GivenParts
        <3>2. ToSet(Preorder(T)) = ToSet(T) \cup UNION {ToSet(y.children) : y \in ToSet(T)}
            BY <3>1, PreorderIs
        <3>3. x \in ToSet(T)
            BY <2>3
        <3> HIDE DEF T
        <3>4. mem \in ToSet(T) \cup UNION {ToSet(y.children) : y \in ToSet(T)}
            BY <2>1, <3>3
        <3>5. mem \in ToSet(Preorder(T))
            BY <3>2, <3>4
        <3> QED BY <3>5, InsideSound DEF T
    <2> QED BY <1>2, <2>2, <2>3
<1> QED BY <1>6 DEF S

-------------------------------------------------------------------------------
(* The qualified names of a design, each in its place.                        *)
LEMMA TypeQNames ==
    ASSUME NEW m, Given(m), NEW ot \in ToSet(m.types)
    PROVE  KnownName(m, QName(m, ot.base)) /\ \A q \in MemberQNames(m, ot.members) : KnownName(m, q)
<1>1. m \in Models /\ Clean(m) /\ NotEnum(m, NoRef)
    BY GivenParts
<1>2. CheckBase(m, ot) = {}
    BY <1>1, CleanBase
<1>3. RefKnown(m, ot.base)
    BY <1>1, <1>2, BaseKnown
<1>4. KnownName(m, QName(m, ot.base))
    BY <1>1, <1>3, QNameKnown
<1>5. CheckMembers(m, <<ot.name>>, ot.members) = {}
    BY <1>1, CleanParts
<1> DEFINE S == ot.members
<1>6. \A x \in ToSet(S) : Passes(m, x) /\ (x.kind = "object" => \A c \in ToSet(x.children) : Passes(m, c))
    BY <1>5, MembersPass
<1> DEFINE own(mem) == (IF mem.kind = "method" THEN {} ELSE {QName(m, mem.type)})
                       \cup {QName(m, arg) : arg \in mem.args}
           all == ToSet(S) \cup UNION {ToSet(mem.children) : mem \in ObjectMembers(S)}
<1>7. MemberQNames(m, S) = UNION {own(mem) : mem \in all}
    BY Zenon DEF MemberQNames
<1>8. \A mem \in all : Passes(m, mem)
    BY <1>6 DEF ObjectMembers
<1> HIDE DEF all
<1>9. ASSUME NEW mem \in all, NEW q \in own(mem) PROVE KnownName(m, q)
    <2>1. CASE mem.kind # "method" /\ q = QName(m, mem.type)
        <3>1. RefKnown(m, mem.type)
            BY <1>8, <2>1 DEF Passes
        <3> QED BY <1>1, <2>1, <3>1, QNameKnown
    <2>2. ASSUME NEW arg \in mem.args, q = QName(m, arg) PROVE KnownName(m, q)
        <3>1. RefKnown(m, arg)
            BY <1>8, <2>2 DEF Passes
        <3> QED BY <1>1, <2>2, <3>1, QNameKnown
    <2>3. (mem.kind # "method" /\ q = QName(m, mem.type)) \/ \E arg \in mem.args : q = QName(m, arg)
        BY <1>9
    <2> QED BY <2>1, <2>2, <2>3
<1> HIDE DEF own
<1>10. \A q \in MemberQNames(m, S) : KnownName(m, q)
    BY <1>7, <1>9
<1> QED BY <1>4, <1>10

LEMMA OverrideQNames ==
    ASSUME NEW m, Given(m), NEW inst \in ToSet(m.instances)
    PROVE  /\ \A o \in LevelOverride(m, inst) \cup ValueOverrides(m, inst, LocalMembers(m, inst.type)) :
                  KnownName(m, o.type)
           /\ \A o \in DesignChildren(m, inst, LocalMembers(m, inst.type)) : KnownName(m, o.type)
<1> DEFINE S == LocalMembers(m, inst.type)
<1>1. m \in Models /\ EmittableInstance(m, inst)
    BY GivenParts
<1>2. S \in Seq(AllMembers)
    BY <1>1, LocalMembersAre
<1>3. \A mem \in ToSet(Preorder(S)) : Sound(m, mem)
    BY LocalSound
<1> HIDE DEF S
<1>4. ASSUME NEW o \in LevelOverride(m, inst) PROVE KnownName(m, o.type)
    <2> DEFINE alias == [name |-> "ISA95EquipmentElementLevelEnum", prefix |-> LevelAlias(m)]
               one == [name |-> "EquipmentLevel", value |-> inst.level, type |-> alias]
               cond == TypeHasMember(m, inst.type, "EquipmentLevel") /\ inst.level \in DOMAIN Tier \cup Tierless
    <2>1. LevelOverride(m, inst) = IF cond THEN {one} ELSE {}
        BY Zenon DEF LevelOverride
    <2> HIDE DEF one, cond
    <2>2. o = one /\ cond
        BY <1>4, <2>1
    <2>3. inst.level # ""
        BY <2>2 DEF cond, Tier, Tierless
    <2>4. LevelAlias(m) \in KnownPrefixes(m) /\ LevelAlias(m) # ""
        BY <1>1, <2>3 DEF EmittableInstance
    <2>5. alias.prefix = LevelAlias(m)
        OBVIOUS
    <2>6. one.type = alias
        BY DEF one
    <2> HIDE DEF alias
    <2>7. KnownName(m, alias)
        BY <2>4, <2>5 DEF KnownName
    <2> QED BY <2>2, <2>6, <2>7
<1>5. ToSet(S) \subseteq ToSet(Preorder(S))
    BY <1>2, PreorderIs
<1>6. ASSUME NEW o \in ValueOverrides(m, inst, S) PROVE KnownName(m, o.type)
    <2> DEFINE ty(v) == QName(m, FirstNamed(S, v.name).type)
    <2>1. \A x \in ValueOverrides(m, inst, S) : \E v \in ToSet(inst.values) :
              v.name \in Names(S) /\ x = [name |-> v.name, value |-> v.raw, type |-> ty(v)]
        BY Zenon DEF ValueOverrides
    <2> HIDE DEF ty
    <2>2. PICK v \in ToSet(inst.values) : v.name \in Names(S) /\ o.type = ty(v)
        BY <1>6, <2>1
    <2>3. FirstNamed(S, v.name) \in ToSet(S)
        BY <1>2, <2>2, Named
    <2>4. RefKnown(m, FirstNamed(S, v.name).type)
        BY <1>3, <1>5, <2>3 DEF Sound
    <2>5. KnownName(m, ty(v))
        BY <1>1, <2>4, QNameKnown DEF ty
    <2> QED BY <2>2, <2>5
<1>7. ASSUME NEW o \in DesignChildren(m, inst, S) PROVE KnownName(m, o.type)
    <2> DEFINE typed(of) == FirstWhere(Preorder(S), LAMBDA x : x.placeholder /\ x.type # NoRef /\ x.name = of)
               each(ch) == {[name |-> ch.name, type |-> QName(m, mem.type)] : mem \in typed(ch.of)}
    <2>1. DesignChildren(m, inst, S) = UNION {each(ch) : ch \in ToSet(inst.children)}
        BY Zenon DEF DesignChildren
    <2> HIDE DEF each
    <2>2. PICK ch \in ToSet(inst.children) : o \in each(ch)
        BY <1>7, <2>1
    <2> USE DEF each
    <2> HIDE DEF typed
    <2>3. PICK mem \in typed(ch.of) : o = [name |-> ch.name, type |-> QName(m, mem.type)]
        BY <2>2
    <2>4. mem \in ToSet(Preorder(S))
        BY <2>3 DEF typed, FirstWhere, ToSet
    <2>5. KnownName(m, QName(m, mem.type))
        BY <1>1, <1>3, <2>4, QNameKnown DEF Sound
    <2> QED BY <2>3, <2>5
<1> QED BY <1>4, <1>6, <1>7 DEF S

-------------------------------------------------------------------------------
(* What a node hangs from, and what a group organizes.                        *)
UnderSays(m, q) == q.prefix \in KnownPrefixes(m) /\ (q.prefix = "" => q.name \in Names(m.instances))

LEMMA UnderIs ==
    ASSUME NEW m, Given(m), NEW inst \in ToSet(m.instances)
    PROVE  \/ Kind(m, inst.under) \in {"import", "importUnknown"}
           \/ Kind(m, inst.under) = "unknownName" /\ inst.under.name \in Names(m.instances)
<1> DEFINE kind == Kind(m, inst.under)
           a == kind = "unknownAlias"
           b == \/ kind \in {"builtin", "local"}
                \/ kind = "unknownName" /\ inst.under.name \notin Names(m.instances)
           its == Said(<<inst.name>>, {<<"unknown-import-alias", a>>, <<"unknown-under", b>>})
<1>1. m \in Models /\ EmittableInstance(m, inst) /\ CheckUnder(m, inst) = {}
    BY GivenParts, CleanInstance
<1>2. inst.under # NoRef /\ kind # "importResolved"
    BY <1>1 DEF EmittableInstance
<1>3. CheckUnder(m, inst) = IF inst.under = NoRef THEN {} ELSE its
    BY Zenon DEF CheckUnder
<1>4. PICK uri : Means(m, inst.under, uri, ResolveType(m, inst.under))
    BY KindMeans
<1>5. kind \in {"builtin", "local", "unknownName", "unknownAlias", "import", "importUnknown", "importResolved"}
    BY <1>4 DEF Means, Kind
<1> HIDE DEF a, b
<1>6. its = When(a, <<"unknown-import-alias", <<inst.name>>>>) \cup When(b, <<"unknown-under", <<inst.name>>>>)
    BY SaidTwo
<1> HIDE DEF its
<1>7. When(a, <<"unknown-import-alias", <<inst.name>>>>) = {} /\ When(b, <<"unknown-under", <<inst.name>>>>) = {}
    BY <1>1, <1>2, <1>3, <1>6
<1>8. ~a /\ ~b
    BY <1>7, SaidNothing
<1> QED
    <2>1. kind \in {"import", "importUnknown"} \/ (kind = "unknownName" /\ inst.under.name \in Names(m.instances))
        BY <1>2, <1>5, <1>8 DEF a, b
    <2> QED BY <2>1

LEMMA UnderKnown ==
    ASSUME NEW m, Given(m), NEW inst \in ToSet(m.instances)
    PROVE  UnderSays(m, InstanceTarget(m, inst.under))
<1> DEFINE kind == Kind(m, inst.under)
<1>1. m \in Models
    BY GivenParts
<1>2. kind \in {"import", "importUnknown"} \/ (kind = "unknownName" /\ inst.under.name \in Names(m.instances))
    BY UnderIs
<1>3. CASE kind \in {"import", "importUnknown"}
    <2>1. InstanceTarget(m, inst.under) = QName(m, inst.under)
        BY <1>3, Zenon DEF InstanceTarget
    <2>2. PrefixIs(m, QName(m, inst.under))
        BY <1>1, <1>3, PrefixKnown
    <2> QED BY <2>1, <2>2 DEF PrefixIs, UnderSays
<1>4. CASE kind = "unknownName" /\ inst.under.name \in Names(m.instances)
    <2> DEFINE q == [name |-> inst.under.name, prefix |-> ""]
    <2>1. InstanceTarget(m, inst.under) = q
        BY <1>4, Zenon DEF InstanceTarget
    <2>2. q.name = inst.under.name /\ q.prefix = ""
        OBVIOUS
    <2> HIDE DEF q
    <2>3. "" \in KnownPrefixes(m)
        BY DEF KnownPrefixes
    <2>4. UnderSays(m, q)
        BY <1>4, <2>2, <2>3 DEF UnderSays
    <2> QED BY <2>1, <2>4
<1> QED BY <1>2, <1>3, <1>4

LEMMA PerspectiveClean ==
    ASSUME NEW m \in Models, NEW p \in ToSet(m.perspectives), CheckPerspective(m, p) = {}
    PROVE  \A nd \in ToSet(p.nodes) :
              ToSet(nd.children) \subseteq Names(p.nodes) /\ ToSet(nd.members) \subseteq Names(m.instances)
<1> DEFINE a1 == p.membership \notin {"", "exclusive", "overlapping"}
           a2 == \E nd \in ToSet(p.nodes) : ~(ToSet(nd.children) \subseteq Names(p.nodes))
           a3 == PerspectiveCyclic(p)
           a4 == p.export /\ ~p.symbolic
           its == Said(<<p.name>>, {<<"unknown-membership-mode", a1>>, <<"unknown-perspective-node", a2>>,
                                    <<"perspective-node-cycle", a3>>, <<"perspective-id-not-exportable", a4>>})
           dangling == {<<"dangling-member", <<n>>>> : n \in ToSet(Listed(p)) \ Names(m.instances)}
           twice == {<<"exclusive-membership", <<n>>>> :
                        n \in {x \in Names(m.instances) :
                        /\ p.membership # "overlapping"
                        /\ \E i, j \in DOMAIN Listed(p) : i < j /\ Listed(p)[i] = x /\ Listed(p)[j] = x}}
<1>1. CheckPerspective(m, p) = its \cup dangling \cup twice
    BY Zenon DEF CheckPerspective
<1> HIDE DEF a1, a2, a3, a4, twice
<1>2. FourSaid(<<p.name>>, "unknown-membership-mode", a1, "unknown-perspective-node", a2,
                           "perspective-node-cycle", a3, "perspective-id-not-exportable", a4)
    BY SaidFour
<1>3. its = When(a1, <<"unknown-membership-mode", <<p.name>>>>) \cup When(a2, <<"unknown-perspective-node", <<p.name>>>>)
            \cup When(a3, <<"perspective-node-cycle", <<p.name>>>>)
            \cup When(a4, <<"perspective-id-not-exportable", <<p.name>>>>)
    BY <1>2 DEF FourSaid
<1> HIDE DEF its, dangling
<1>4. When(a2, <<"unknown-perspective-node", <<p.name>>>>) = {} /\ dangling = {}
    BY <1>1, <1>3
<1>5. ~a2
    BY <1>4, SaidNothing
<1>6. ToSet(Listed(p)) \subseteq Names(m.instances)
    BY <1>4 DEF dangling
<1> DEFINE ss == [i \in DOMAIN p.nodes |-> p.nodes[i].members]
<1>7. Listed(p) = FlattenSeq(ss)
    BY Zenon DEF Listed
<1>8. p \in Perspectives
    <2>1. m.perspectives \in Seq(Perspectives)
        BY DEF Models
    <2> QED BY <2>1, NamesOf
<1>9. p.nodes \in Seq([name : STRING, children : Seq(STRING), members : Seq(STRING)])
    BY <1>8 DEF Perspectives
<1>10. ss \in Seq(Seq(STRING)) /\ DOMAIN ss = DOMAIN p.nodes /\ \A i \in DOMAIN p.nodes : ss[i] = p.nodes[i].members
    <2>1. DOMAIN p.nodes = 1..Len(p.nodes) /\ Len(p.nodes) \in Nat
        BY <1>9
    <2>2. \A i \in DOMAIN p.nodes : p.nodes[i].members \in Seq(STRING)
        <3> DEFINE N == [name : STRING, children : Seq(STRING), members : Seq(STRING)]
        <3>1. \A x \in N : x.members \in Seq(STRING)
            OBVIOUS
        <3>2. p.nodes \in Seq(N)
            BY <1>9
        <3> HIDE DEF N
        <3>3. \A i \in DOMAIN p.nodes : p.nodes[i] \in N
            BY <3>2
        <3> QED BY <3>1, <3>3
    <2> DEFINE e(i) == p.nodes[i].members
               D == DOMAIN p.nodes
    <2>3. \A i \in D : e(i) \in Seq(STRING)
        BY <2>2
    <2> HIDE DEF e, D
    <2>4. [i \in D |-> e(i)] \in Seq(Seq(STRING))
        BY <2>1, <2>3 DEF D
    <2>5. DOMAIN [i \in D |-> e(i)] = D /\ \A i \in D : [k \in D |-> e(k)][i] = e(i)
        OBVIOUS
    <2> QED BY <2>4, <2>5 DEF D, e
<1> HIDE DEF ss
<1>11. ToSet(FlattenSeq(ss)) = UNION {ToSet(ss[i]) : i \in DOMAIN ss}
    BY <1>10, FlattenIs
<1>12. ASSUME NEW nd \in ToSet(p.nodes) PROVE ToSet(nd.members) \subseteq ToSet(Listed(p))
    <2>1. PICK i \in DOMAIN p.nodes : nd = p.nodes[i]
        BY DEF ToSet
    <2>2. ToSet(ss[i]) \subseteq ToSet(FlattenSeq(ss))
        BY <1>10, <1>11
    <2> QED BY <1>7, <1>10, <2>1, <2>2
<1> QED BY <1>5, <1>6, <1>12 DEF a2

GroupOf(p, nd) ==
    [name |-> Joined(p.name, nd.name), root |-> nd.name \in PerspectiveRoots(p),
      organizes |-> {Joined(p.name, c) : c \in ToSet(nd.children)} \cup ToSet(nd.members)]

LEMMA GroupsClose ==
    ASSUME NEW m, Given(m), NEW groups, groups = UNION {PerspectiveDesign(p) : p \in Exported(m)}
    PROVE  \A g \in groups : g.organizes \subseteq {h.name : h \in groups} \cup Names(m.instances)
<1> SUFFICES ASSUME NEW g \in groups PROVE g.organizes \subseteq {h.name : h \in groups} \cup Names(m.instances)
    OBVIOUS
<1>1. PICK p \in Exported(m) : g \in PerspectiveDesign(p)
    OBVIOUS
<1>2. PerspectiveDesign(p) \subseteq groups
    BY <1>1
<1>3. m \in Models /\ p \in ToSet(m.perspectives) /\ CheckPerspective(m, p) = {}
    BY <1>1, GivenParts, CleanParts DEF Exported
<1>4. \A nd \in ToSet(p.nodes) :
          ToSet(nd.children) \subseteq Names(p.nodes) /\ ToSet(nd.members) \subseteq Names(m.instances)
    BY <1>3, PerspectiveClean
<1>5. PerspectiveDesign(p) = {GroupOf(p, nd) : nd \in ToSet(p.nodes)}
    BY Zenon DEF PerspectiveDesign, GroupOf
<1>6. \A nd : /\ GroupOf(p, nd).name = Joined(p.name, nd.name)
              /\ GroupOf(p, nd).organizes = {Joined(p.name, c) : c \in ToSet(nd.children)} \cup ToSet(nd.members)
    BY DEF GroupOf
<1>7. Names(p.nodes) = {nd.name : nd \in ToSet(p.nodes)}
    BY DEF Names, ToSet
<1>8. PICK nd \in ToSet(p.nodes) : g = GroupOf(p, nd)
    BY <1>1, <1>5
<1>9. ASSUME NEW c \in ToSet(nd.children) PROVE Joined(p.name, c) \in {h.name : h \in groups}
    <2>1. PICK y \in ToSet(p.nodes) : c = y.name
        BY <1>4, <1>7, <1>9
    <2>2. GroupOf(p, y) \in groups /\ GroupOf(p, y).name = Joined(p.name, c)
        BY <1>2, <1>5, <1>6, <2>1
    <2> QED BY <2>2
<1> QED BY <1>4, <1>6, <1>8, <1>9

TypeOf(m, ot) ==
    [name |-> ot.name, base |-> QName(m, ot.base), abstract |-> ot.abstract,
     uses |-> MemberQNames(m, ot.members), members |-> ot.members]

LEMMA DesignRest ==
    ASSUME NEW m
    PROVE  /\ Design(m).types = {TypeOf(m, ot) : ot \in ToSet(m.types)}
           /\ Design(m).groups = UNION {PerspectiveDesign(p) : p \in Exported(m)}
           /\ Design(m).enums = {[name |-> e.name, values |-> e.values] : e \in ToSet(m.enums)}
           /\ Design(m).header = m.header
           /\ \A ot : /\ TypeOf(m, ot).name = ot.name /\ TypeOf(m, ot).base = QName(m, ot.base)
                      /\ TypeOf(m, ot).abstract = ot.abstract /\ TypeOf(m, ot).members = ot.members
                      /\ TypeOf(m, ot).uses = MemberQNames(m, ot.members)
<1> DEFINE a == {<<im.name, im.uri>> : im \in AdditionalImports(m)}
           b == {[name |-> e.name, values |-> e.values] : e \in ToSet(m.enums)}
           c == {TypeOf(m, ot) : ot \in ToSet(m.types)}
           d == {NodeOf(m, inst) : inst \in ToSet(m.instances)}
           e == UNION {PerspectiveDesign(p) : p \in Exported(m)}
<1>1. Design(m) = [header |-> m.header, prefixes |-> a, enums |-> b, types |-> c, instances |-> d, groups |-> e]
    BY Zenon DEF Design, NodeOf, TypeOf
<1>2. ASSUME NEW ot
      PROVE  /\ TypeOf(m, ot).name = ot.name /\ TypeOf(m, ot).base = QName(m, ot.base)
             /\ TypeOf(m, ot).abstract = ot.abstract /\ TypeOf(m, ot).members = ot.members
             /\ TypeOf(m, ot).uses = MemberQNames(m, ot.members)
    BY DEF TypeOf
<1> HIDE DEF a, b, c, d, e
<1>3. Design(m).types = c /\ Design(m).groups = e /\ Design(m).enums = b /\ Design(m).header = m.header
    BY <1>1
<1> QED BY <1>2, <1>3 DEF b, c, e

LEMMA ClosesWhen ==
    ASSUME NEW m, NEW d,
           \A t \in d.types : \A q \in {t.base} \cup t.uses : KnownName(m, q),
           \A x \in d.instances : \A q \in {x.type} \cup {o.type : o \in x.overrides \cup x.children} : KnownName(m, q),
           \A x \in d.instances : UnderSays(m, x.under),
           \A g \in d.groups : g.organizes \subseteq {h.name : h \in d.groups} \cup Names(m.instances)
    PROVE  DesignCloses(m, d)
<1>1. \A x \in d.instances : x.under.prefix \in KnownPrefixes(m) /\ (x.under.prefix = "" => x.under.name \in Names(m.instances))
    BY DEF UnderSays
<1> QED BY <1>1, Zenon DEF DesignCloses, KnownName

LEMMA DesignIsClosed ==
    ASSUME NEW m, Given(m)
    PROVE  DesignCloses(m, Design(m))
<1> DEFINE d == Design(m)
<1>1. ASSUME NEW t \in d.types, NEW q \in {t.base} \cup t.uses PROVE KnownName(m, q)
    <2>1. PICK ot \in ToSet(m.types) : t = TypeOf(m, ot)
        BY <1>1, DesignRest
    <2>2. t.base = QName(m, ot.base) /\ t.uses = MemberQNames(m, ot.members)
        BY <2>1, DesignRest
    <2> QED BY <1>1, <2>2, TypeQNames
<1>2. ASSUME NEW x \in d.instances
      PROVE  /\ \A q \in {x.type} \cup {o.type : o \in x.overrides \cup x.children} : KnownName(m, q)
             /\ UnderSays(m, x.under)
    <2>1. PICK inst \in ToSet(m.instances) : x = NodeOf(m, inst)
        BY <1>2, DesignInstances
    <2>2. /\ x.type = QName(m, inst.type) /\ x.under = InstanceTarget(m, inst.under)
          /\ x.overrides = LevelOverride(m, inst) \cup ValueOverrides(m, inst, LocalMembers(m, inst.type))
          /\ x.children = DesignChildren(m, inst, LocalMembers(m, inst.type))
        BY <2>1, DesignInstances
    <2>3. UnderSays(m, x.under)
        BY <2>2, UnderKnown
    <2>4. m \in Models /\ Clean(m)
        BY GivenParts
    <2>5. CheckTypeRef(m, <<inst.name>>, inst.type) = {}
        BY <2>4, CleanInstance
    <2>6. RefKnown(m, inst.type)
        BY <2>5, TypeRefKnown
    <2>7. KnownName(m, x.type)
        BY <2>2, <2>4, <2>6, QNameKnown
    <2>8. \A o \in x.overrides \cup x.children : KnownName(m, o.type)
        BY <2>2, OverrideQNames
    <2> QED BY <2>3, <2>7, <2>8
<1>3. \A g \in d.groups : g.organizes \subseteq {h.name : h \in d.groups} \cup Names(m.instances)
    <2>1. d.groups = UNION {PerspectiveDesign(p) : p \in Exported(m)}
        BY DesignRest
    <2> QED BY <2>1, GroupsClose
<1> HIDE DEF d
<1>4. DesignCloses(m, d)
    BY <1>1, <1>2, <1>3, ClosesWhen
<1> QED BY <1>4 DEF d

-------------------------------------------------------------------------------
(* The ids of a bundle: those of the model's own types are declared.          *)
GivenLoaded(m) == Given(m) /\ m.catalog # {}
IdKnown(m, id) == id # NoID /\ (id.ns = "own" => id \in {ElementID("own", n) : n \in Names(m.types)})

LEMMA EmittedElsewhere ==
    ASSUME NEW m, Given(m), NEW alias
    PROVE  EmittedURI(m, alias) # "own"
<1>1. m.imports \in Seq(Imports) /\ "own" \notin {im.uri : im \in ToSet(m.imports)}
    BY GivenParts
<1>2. CASE alias \in Names(m.imports)
    <2> DEFINE im == FirstNamed(m.imports, alias)
    <2>1. im \in ToSet(m.imports)
        BY <1>1, <1>2, Named
    <2>2. EmittedURI(m, alias) = im.uri
        BY <1>2, Zenon DEF EmittedURI
    <2> HIDE DEF im
    <2> QED BY <1>1, <2>1, <2>2
<1>3. CASE alias \notin Names(m.imports)
    <2>1. EmittedURI(m, alias) = IF alias = "OpcUa" THEN UA ELSE ""
        BY <1>3, Zenon DEF EmittedURI
    <2> QED BY <2>1 DEF UA
<1> QED BY <1>2, <1>3

LEMMA IdIs ==
    ASSUME NEW a, NEW b
    PROVE  ElementID(a, b).ns = a /\ ElementID(a, b).name = b
    BY DEF ElementID

LEMMA IdOf ==
    ASSUME NEW m, NEW a, NEW b, a # "own", a # "" \/ b # ""
    PROVE  IdKnown(m, ElementID(a, b))
<1>1. ElementID(a, b).ns = a /\ ElementID(a, b).name = b
    BY IdIs
<1>2. NoID.ns = "" /\ NoID.name = ""
    BY IdIs DEF NoID
<1> DEFINE id == ElementID(a, b)
<1> HIDE DEF id
<1>3. id.ns = a /\ id.name = b
    BY <1>1 DEF id
<1>4. IdKnown(m, id)
    BY <1>2, <1>3 DEF IdKnown
<1> QED BY <1>4 DEF id

LEMMA OwnID ==
    ASSUME NEW m, NEW n \in Names(m.types)
    PROVE  IdKnown(m, ElementID("own", n))
<1> DEFINE id == ElementID("own", n)
<1>1. id.ns = "own"
    BY IdIs
<1>2. NoID.ns = ""
    BY IdIs DEF NoID
<1>3. id \in {ElementID("own", k) : k \in Names(m.types)}
    OBVIOUS
<1> HIDE DEF id
<1>4. IdKnown(m, id)
    BY <1>1, <1>2, <1>3 DEF IdKnown
<1> QED BY <1>4 DEF id

LEMMA TypeIDKnown ==
    ASSUME NEW m, GivenLoaded(m), NEW ref, NotEnum(m, ref)
    PROVE  IdKnown(m, TypeID(m, ref))
<1>1. Given(m) /\ m.catalog # {} /\ m \in Models
    BY GivenParts DEF GivenLoaded
<1>2. CASE Kind(m, ref) = "local"
    <2>1. TypeID(m, ref) = ElementID("own", ref.name)
        BY <1>2, Zenon DEF TypeID
    <2>2. ref.name \in Names(m.types)
        BY <1>2 DEF NotEnum
    <2> QED BY <2>1, <2>2, OwnID
<1>3. CASE Kind(m, ref) = "import"
    <2>1. TypeID(m, ref) = ElementID(EmittedURI(m, ref.alias), ref.name)
        <3> DEFINE k == Kind(m, ref)
        <3>1. TypeID(m, ref) = CASE k = "local" -> ElementID("own", ref.name)
                                 [] k = "import" -> ElementID(EmittedURI(m, ref.alias), ref.name)
                                 [] OTHER -> ElementID(UA, ref.name)
            BY Zenon DEF TypeID
        <3>2. k = "import"
            BY <1>3
        <3> HIDE DEF k
        <3> QED BY <3>1, <3>2
    <2>2. PICK uri : Means(m, ref, uri, ResolveType(m, ref))
        BY KindMeans
    <2>3. InCatalog(m, UA, ref.name)
        BY <1>1, <1>3, <2>2 DEF Means, Kind
    <2>4. ref.name # ""
        <3>1. UA \in DOMAIN Specs /\ ref.name \in DOMAIN Specs[UA].nodes
            BY <1>1, <2>3 DEF InCatalog, Models
        <3> DEFINE k == <<UA, ref.name>>
        <3>2. k \in SpecNodes
            BY <3>1 DEF SpecNodes
        <3>3. k[2] # ""
            BY <3>2, SpecsAssumption
        <3> QED BY <3>3
    <2>5. EmittedURI(m, ref.alias) # "own"
        BY <1>1, EmittedElsewhere
    <2> QED BY <2>1, <2>4, <2>5, IdOf
<1>4. CASE Kind(m, ref) \notin {"local", "import"}
    <2>1. TypeID(m, ref) = ElementID(UA, ref.name)
        <3> DEFINE k == Kind(m, ref)
        <3>1. TypeID(m, ref) = CASE k = "local" -> ElementID("own", ref.name)
                                 [] k = "import" -> ElementID(EmittedURI(m, ref.alias), ref.name)
                                 [] OTHER -> ElementID(UA, ref.name)
            BY Zenon DEF TypeID
        <3>2. k \notin {"local", "import"}
            BY <1>4
        <3> HIDE DEF k
        <3> QED BY <3>1, <3>2
    <2>2. UA # "own" /\ UA # ""
        BY DEF UA
    <2> QED BY <2>1, <2>2, IdOf
<1> QED BY <1>2, <1>3, <1>4

-------------------------------------------------------------------------------
(* What a child of an instance stands for is there, and no enum.              *)
FirstOf(s, Q) == {s[i] : i \in {i \in DOMAIN s : s[i] \in Q /\ \A j \in 1..i-1 : ~(s[j] \in Q)}}

LEMMA FirstThere ==
    ASSUME NEW S, NEW s \in Seq(S), NEW Q, \E i \in DOMAIN s : s[i] \in Q
    PROVE  FirstOf(s, Q) # {} /\ FirstOf(s, Q) \subseteq Q
<1> DEFINE T == {i \in DOMAIN s : s[i] \in Q}
<1>1. DOMAIN s = 1..Len(s) /\ Len(s) \in Nat
    OBVIOUS
<1>2. T \subseteq Nat /\ T # {}
    BY <1>1
<1>3. PICK i \in T : \A k \in T : i <= k
    BY <1>2, LeastOf
<1>4. i \in DOMAIN s /\ s[i] \in Q /\ \A j \in 1..i-1 : ~(s[j] \in Q)
    BY <1>1, <1>3
<1> QED BY <1>4 DEF FirstOf

LEMMA ChildStands ==
    ASSUME NEW m, GivenLoaded(m), NEW inst \in ToSet(m.instances), NEW ch \in ToSet(inst.children)
    PROVE  IdKnown(m, ChildType(m, StandsFor(LocalMembers(m, inst.type), ch)))
<1> DEFINE S == LocalMembers(m, inst.type)
           P == Preorder(S)
           refs == StandsFor(S, ch)
           Q == {x \in ToSet(P) : x.placeholder /\ x.name = ch.of}
<1>1. Given(m) /\ m \in Models /\ Clean(m) /\ EmittableInstance(m, inst)
    BY GivenParts DEF GivenLoaded
<1>2. Kind(m, inst.type) = "local"
    <2>1. ToSet(<<>>) = {}
        BY DEF ToSet
    <2> QED BY <1>1, <2>1 DEF EmittableInstance
<1>3. inst.type.name \in Names(m.types)
    BY <1>1, <1>2 DEF EmittableInstance, NotEnum
<1>4. ~Opaque(m, inst.type)
    BY <1>2, <1>3 DEF Opaque
<1>5. CheckInstanceMembers(m, inst) = {}
    BY <1>1, CleanInstance
<1>6. MembersOf(m, inst.type) = S
    BY <1>2, Zenon DEF LocalMembers
<1>7. S \in Seq(AllMembers)
    BY <1>1, LocalMembersAre
<1>8. CheckFilled(inst, S) = {}
    BY <1>4, <1>5, <1>6, Zenon DEF CheckInstanceMembers
<1> HIDE DEF S
<1>9. ch.of \in {mem.name : mem \in Placeholders(S)}
    <2> DEFINE a == UNION {CheckValue(<<inst.name, val.name>>, S, val.name) : val \in ToSet(inst.values)}
               b == {<<"unknown-placeholder", <<inst.name, c.name>>>> :
                        c \in {c \in ToSet(inst.children) : c.of \notin {mem.name : mem \in Placeholders(S)}}}
    <2>1. CheckFilled(inst, S) = a \cup b
        BY Zenon DEF CheckFilled
    <2> HIDE DEF a
    <2>2. b = {}
        BY <1>8, <2>1
    <2> QED BY <2>2
<1>10. P \in Seq(AllMembers)
    BY <1>7, PreorderIs
<1>11. \E i \in DOMAIN P : P[i] \in Q
    <2>1. PICK mem \in ToSet(P) : mem.placeholder /\ mem.name = ch.of
        BY <1>9 DEF Placeholders
    <2>2. PICK i \in DOMAIN P : mem = P[i]
        BY <2>1 DEF ToSet
    <2> QED BY <2>1, <2>2
<1>12. \A x \in ToSet(P) : Sound(m, x)
    BY <1>1, LocalSound DEF S
<1> HIDE DEF P
<1>13. refs = {mem.type : mem \in FirstWhere(P, LAMBDA x : x.placeholder /\ x.name = ch.of)}
    BY Zenon DEF StandsFor, P
<1>14. FirstWhere(P, LAMBDA x : x.placeholder /\ x.name = ch.of) = FirstOf(P, Q)
    <2>1. \A i \in DOMAIN P : P[i] \in ToSet(P)
        BY DEF ToSet
    <2>2. DOMAIN P = 1..Len(P) /\ Len(P) \in Nat
        BY <1>10
    <2>3. \A i \in DOMAIN P : \A j \in 1..i-1 : j \in DOMAIN P
        BY <2>2
    <2>4. \A i \in DOMAIN P : (P[i].placeholder /\ P[i].name = ch.of) <=> P[i] \in Q
        BY <2>1
    <2> HIDE DEF Q
    <2>5. \A i \in DOMAIN P : ((P[i].placeholder /\ P[i].name = ch.of) /\ \A j \in 1..i-1 : ~(P[j].placeholder /\ P[j].name = ch.of))
                  <=> (P[i] \in Q /\ \A j \in 1..i-1 : ~(P[j] \in Q))
        BY <2>3, <2>4
    <2> QED BY <2>5 DEF FirstWhere, FirstOf
<1>15. FirstOf(P, Q) # {} /\ FirstOf(P, Q) \subseteq Q
    <2> HIDE DEF Q
    <2> QED BY <1>10, <1>11, FirstThere
<1>16. refs # {} /\ \A ref \in refs : \E x \in Q : ref = x.type
    <2> HIDE DEF Q, refs
    <2> QED BY <1>13, <1>14, <1>15
<1>17. \A ref \in refs : NotEnum(m, ref)
    <2>1. \A x \in Q : NotEnum(m, x.type)
        BY <1>12 DEF Sound
    <2> HIDE DEF Q, refs
    <2> QED BY <1>16, <2>1
<1> HIDE DEF refs, Q
<1>18. ChildType(m, refs) = TypeID(m, CHOOSE ref \in refs : TRUE)
    BY <1>16, Zenon DEF ChildType
<1>19. (CHOOSE ref \in refs : TRUE) \in refs
    BY <1>16
<1>20. IdKnown(m, ChildType(m, refs))
    BY <1>17, <1>18, <1>19, TypeIDKnown
<1> QED BY <1>20 DEF refs, S

-------------------------------------------------------------------------------
(* The elements of a bundle.                                                  *)
OwnType(m, ot) == [id |-> ElementID("own", ot.name), source |-> TypeID(m, ot.base), uses |-> SchemaIDs(m, ot)]
Stub(id) == [id |-> id, source |-> IF id = BaseObjectType THEN NoID ELSE BaseObjectType, uses |-> {}]
StubObject(id) == [id |-> id, type |-> StubType(id), parent |-> NoID]
OwnObject(m, inst) ==
    [id |-> ElementID("own", inst.name), type |-> TypeID(m, inst.type), parent |-> ParentID(m, inst.under)]

LEMMA BundleIs ==
    ASSUME NEW m
    PROVE  /\ Bundle(m).types = {OwnType(m, ot) : ot \in ToSet(m.types)} \cup {Stub(id) : id \in StubTypes(m)}
           /\ OwnTypes(m) = {OwnType(m, ot) : ot \in ToSet(m.types)}
           /\ Bundle(m).objects = OwnObjects(m) \cup {StubObject(id) : id \in ExtObjects(m)}
<1> DEFINE a == {"own"} \cup {im.uri : im \in ToSet(m.imports)}
           b == {OwnType(m, ot) : ot \in ToSet(m.types)} \cup {Stub(id) : id \in StubTypes(m)}
           c == OwnObjects(m) \cup {StubObject(id) : id \in ExtObjects(m)}
<1>1. OwnTypes(m) = {OwnType(m, ot) : ot \in ToSet(m.types)}
    BY Zenon DEF OwnTypes, OwnType
<1>2. Bundle(m) = [namespaces |-> a,
                   types |-> OwnTypes(m) \cup {Stub(id) : id \in StubTypes(m)}, objects |-> c]
    BY Zenon DEF Bundle, Stub, StubObject
<1>3. Bundle(m) = [namespaces |-> a, types |-> b, objects |-> c]
    BY <1>1, <1>2, Zenon
<1> HIDE DEF a, b, c
<1>4. Bundle(m).types = b /\ Bundle(m).objects = c
    BY <1>3
<1> QED BY <1>1, <1>4 DEF b, c

LEMMA BundleFields ==
    ASSUME NEW m, NEW x
    PROVE  /\ OwnType(m, x).id = ElementID("own", x.name) /\ OwnType(m, x).source = TypeID(m, x.base)
           /\ OwnType(m, x).uses = SchemaIDs(m, x)
           /\ Stub(x).id = x /\ Stub(x).source \in {NoID, BaseObjectType} /\ Stub(x).uses = {}
           /\ StubObject(x).id = x /\ StubObject(x).type = StubType(x) /\ StubObject(x).parent = NoID
           /\ OwnObject(m, x).id = ElementID("own", x.name) /\ OwnObject(m, x).type = TypeID(m, x.type)
           /\ OwnObject(m, x).parent = ParentID(m, x.under)
<1>1. /\ OwnType(m, x).id = ElementID("own", x.name) /\ OwnType(m, x).source = TypeID(m, x.base)
      /\ OwnType(m, x).uses = SchemaIDs(m, x)
    BY DEF OwnType
<1>2. Stub(x).id = x /\ Stub(x).source \in {NoID, BaseObjectType} /\ Stub(x).uses = {}
    BY DEF Stub
<1>3. StubObject(x).id = x /\ StubObject(x).type = StubType(x) /\ StubObject(x).parent = NoID
    BY DEF StubObject
<1>4. /\ OwnObject(m, x).id = ElementID("own", x.name) /\ OwnObject(m, x).type = TypeID(m, x.type)
      /\ OwnObject(m, x).parent = ParentID(m, x.under)
    BY DEF OwnObject
<1> QED BY <1>1, <1>2, <1>3, <1>4

LEMMA PartIs ==
    ASSUME NEW inst, NEW n, NEW ty
    PROVE  Part(inst, n, ty).type = ty /\ Part(inst, n, ty).parent = ElementID("own", inst.name)
    BY DEF Part

(* The objects of one instance.                                               *)
ObjectSays(m, inst, o) ==
    /\ IdKnown(m, o.type)
    /\ o.parent = ElementID("own", inst.name) \/ o = OwnObject(m, inst)

LEMMA OwnObjectsAre ==
    ASSUME NEW m, GivenLoaded(m)
    PROVE  /\ \A inst \in ToSet(m.instances) : OwnObject(m, inst) \in OwnObjects(m)
           /\ \A o \in OwnObjects(m) : \E inst \in ToSet(m.instances) : ObjectSays(m, inst, o)
<1> DEFINE each(inst) == {OwnObject(m, inst)} \cup Composed(m, inst, LocalMembers(m, inst.type))
<1>1. OwnObjects(m) = UNION {each(inst) : inst \in ToSet(m.instances)}
    BY Zenon DEF OwnObjects, OwnObject
<1>2. Given(m) /\ m \in Models
    BY GivenParts DEF GivenLoaded
<1>3. ASSUME NEW inst \in ToSet(m.instances), NEW o \in each(inst) PROVE ObjectSays(m, inst, o)
    <2> DEFINE S == LocalMembers(m, inst.type)
               a == {Part(inst, mem.name, TypeID(m, mem.type)) : mem \in ObjectMembers(S)}
               b == {Part(inst, ch.name, ChildType(m, StandsFor(S, ch))) : ch \in ToSet(inst.children)}
    <2>1. Composed(m, inst, S) = a \cup b
        BY Zenon DEF Composed
    <2>2. S \in Seq(AllMembers) /\ \A mem \in ToSet(Preorder(S)) : Sound(m, mem)
        BY <1>2, LocalMembersAre, LocalSound
    <2>3. \A ch \in ToSet(inst.children) : IdKnown(m, ChildType(m, StandsFor(S, ch)))
        BY ChildStands
    <2> HIDE DEF S
    <2>4. CASE o = OwnObject(m, inst)
        <3>1. NotEnum(m, inst.type)
            BY <1>2, GivenParts DEF EmittableInstance
        <3>2. IdKnown(m, TypeID(m, inst.type))
            BY <3>1, TypeIDKnown
        <3>3. o.type = TypeID(m, inst.type)
            BY <2>4, BundleFields
        <3> QED BY <2>4, <3>2, <3>3 DEF ObjectSays
    <2>5. CASE o \in a
        <3>1. PICK mem \in ObjectMembers(S) : o = Part(inst, mem.name, TypeID(m, mem.type))
            BY <2>5
        <3>2. mem \in ToSet(S) /\ mem.kind = "object"
            BY <3>1 DEF ObjectMembers
        <3>3. mem \in ToSet(Preorder(S))
            BY <2>2, <3>2, PreorderIs
        <3>4. NotEnum(m, mem.type)
            BY <2>2, <3>2, <3>3 DEF Sound
        <3>5. IdKnown(m, TypeID(m, mem.type))
            BY <3>4, TypeIDKnown
        <3>6. o.type = TypeID(m, mem.type) /\ o.parent = ElementID("own", inst.name)
            BY <3>1, PartIs
        <3> QED BY <3>5, <3>6 DEF ObjectSays
    <2>6. CASE o \in b
        <3>1. PICK ch \in ToSet(inst.children) : o = Part(inst, ch.name, ChildType(m, StandsFor(S, ch)))
            BY <2>6
        <3>2. o.type = ChildType(m, StandsFor(S, ch)) /\ o.parent = ElementID("own", inst.name)
            BY <3>1, PartIs
        <3> QED BY <2>3, <3>2 DEF ObjectSays
    <2>7. o \in {OwnObject(m, inst)} \cup Composed(m, inst, S)
        BY <1>3 DEF S
    <2> HIDE DEF a, b
    <2> QED BY <2>1, <2>4, <2>5, <2>6, <2>7
<1> HIDE DEF each
<1>4. \A inst \in ToSet(m.instances) : OwnObject(m, inst) \in OwnObjects(m)
    BY <1>1 DEF each
<1>5. \A o \in OwnObjects(m) : \E inst \in ToSet(m.instances) : ObjectSays(m, inst, o)
    BY <1>1, <1>3
<1> QED BY <1>4, <1>5

(* What a type of the model refers to.                                        *)
LEMMA OwnTypesSay ==
    ASSUME NEW m, GivenLoaded(m), NEW ot \in ToSet(m.types)
    PROVE  IdKnown(m, TypeID(m, ot.base)) /\ \A id \in SchemaIDs(m, ot) : IdKnown(m, id)
<1>1. Given(m) /\ m \in Models /\ Clean(m) /\ NotEnum(m, NoRef)
    BY GivenParts DEF GivenLoaded
<1>2. CheckBase(m, ot) = {}
    BY <1>1, CleanBase
<1>3. NotEnum(m, ot.base)
    BY <1>1, <1>2, BaseKnown
<1>4. IdKnown(m, TypeID(m, ot.base))
    BY <1>3, TypeIDKnown
<1> DEFINE S == ot.members
           first(mem) == FirstWhere(mem.children, LAMBDA x : x.placeholder)
           each(mem) == {TypeID(m, mem.type)} \cup {TypeID(m, ch.type) : ch \in first(mem)}
<1>5. SchemaIDs(m, ot) = UNION {each(mem) : mem \in ObjectMembers(S)}
    BY Zenon DEF SchemaIDs
<1>6. S \in Seq(AllMembers) /\ \A mem \in ToSet(Preorder(S)) : Sound(m, mem)
    BY <1>1, GivenParts, InsideSound
<1> HIDE DEF S
<1>7. ToSet(Preorder(S)) = ToSet(S) \cup UNION {ToSet(mem.children) : mem \in ToSet(S)}
    BY <1>6, PreorderIs
<1>8. \A mem : \A ch \in first(mem) : ch \in ToSet(mem.children) /\ ch.placeholder
    BY DEF FirstWhere, ToSet
<1> HIDE DEF first
<1>9. ASSUME NEW mem \in ObjectMembers(S), NEW id \in each(mem) PROVE IdKnown(m, id)
    <2>1. mem \in ToSet(S) /\ mem.kind = "object"
        BY <1>9 DEF ObjectMembers
    <2>2. \A c \in ToSet(mem.children) : c \in ToSet(Preorder(S))
        <3>1. \A c \in ToSet(mem.children) : c \in UNION {ToSet(x.children) : x \in ToSet(S)}
            BY <2>1
        <3> QED BY <1>7, <3>1
    <2>3. CASE id = TypeID(m, mem.type)
        <3>1. mem \in ToSet(Preorder(S))
            BY <1>7, <2>1
        <3>2. NotEnum(m, mem.type)
            BY <1>6, <2>1, <3>1 DEF Sound
        <3> QED BY <2>3, <3>2, TypeIDKnown
    <2>4. ASSUME NEW ch \in first(mem), id = TypeID(m, ch.type) PROVE IdKnown(m, id)
        <3>1. ch \in ToSet(mem.children) /\ ch.placeholder
            BY <1>8, <2>4
        <3>2. NotEnum(m, ch.type)
            BY <1>6, <2>2, <3>1 DEF Sound
        <3> QED BY <2>4, <3>2, TypeIDKnown
    <2>5. id = TypeID(m, mem.type) \/ \E ch \in first(mem) : id = TypeID(m, ch.type)
        BY <1>9
    <2> QED BY <2>3, <2>4, <2>5
<1> HIDE DEF each
<1>10. \A id \in SchemaIDs(m, ot) : IdKnown(m, id)
    BY <1>5, <1>9
<1> QED BY <1>4, <1>10

LEMMA BundleIsClosed ==
    ASSUME NEW m, GivenLoaded(m)
    PROVE  BundleCloses(Bundle(m))
<1> DEFINE b == Bundle(m)
           types == {t.id : t \in b.types}
           parents == {p.id : p \in b.objects}
           others == (UNION {{t.source} \cup t.uses : t \in OwnTypes(m)}) \cup {o.type : o \in OwnObjects(m)}
           far == {ParentID(m, u) : u \in {i.under : i \in {x \in ToSet(m.instances) :
                                              Kind(m, x.under) = "importResolved"}}}
<1>1. /\ b.types = {OwnType(m, ot) : ot \in ToSet(m.types)} \cup {Stub(id) : id \in StubTypes(m)}
      /\ OwnTypes(m) = {OwnType(m, ot) : ot \in ToSet(m.types)}
      /\ b.objects = OwnObjects(m) \cup {StubObject(id) : id \in ExtObjects(m)}
    BY BundleIs
<1>2. ExtTypes(m) = {id \in others \cup far : id.ns # "own" /\ id # NoID}
    BY Zenon DEF ExtTypes
<1>3. StubTypes(m) = UNION {{id, BaseObjectType} : id \in ExtTypes(m) \cup {StubType(id) : id \in ExtObjects(m)}}
    BY Zenon DEF StubTypes
<1>4. Given(m) /\ m.types \in Seq(Types) /\ m.instances \in Seq(Instances)
    BY GivenParts DEF GivenLoaded
<1> HIDE DEF b, far
<1>5. \A id \in StubTypes(m) : id \in types
    <2>1. \A id \in StubTypes(m) : Stub(id) \in b.types /\ Stub(id).id = id
        BY <1>1, BundleFields
    <2> QED BY <2>1
<1>6. \A id \in StubTypes(m) : BaseObjectType \in types
    <2>1. \A id \in StubTypes(m) : BaseObjectType \in StubTypes(m)
        BY <1>3
    <2> QED BY <1>5, <2>1
<1>7. \A n \in Names(m.types) : ElementID("own", n) \in types
    <2> TAKE n \in Names(m.types)
    <2>1. FirstNamed(m.types, n) \in ToSet(m.types) /\ FirstNamed(m.types, n).name = n
        BY <1>4, Named
    <2>2. OwnType(m, FirstNamed(m.types, n)) \in b.types
        BY <1>1, <2>1
    <2>3. OwnType(m, FirstNamed(m.types, n)).id = ElementID("own", n)
        BY <2>1, BundleFields
    <2> QED BY <2>2, <2>3
<1>8. ASSUME NEW id \in others, IdKnown(m, id) PROVE id \in types
    <2>1. CASE id.ns = "own"
        BY <1>7, <1>8, <2>1 DEF IdKnown
    <2>2. CASE id.ns # "own"
        <3>1. id \in ExtTypes(m)
            <4> HIDE DEF others
            <4> QED BY <1>2, <1>8, <2>2 DEF IdKnown
        <3>2. id \in StubTypes(m)
            BY <1>3, <3>1
        <3> QED BY <1>5, <3>2
    <2> QED BY <2>1, <2>2
<1>9. ASSUME NEW t \in b.types PROVE t.uses \subseteq types /\ t.source \in types \cup {NoID}
    <2>1. ASSUME NEW ot \in ToSet(m.types), t = OwnType(m, ot) PROVE t.uses \subseteq types /\ t.source \in types
        <3>1. t \in OwnTypes(m)
            BY <1>1, <2>1
        <3>2. {t.source} \cup t.uses \subseteq others
            BY <3>1
        <3>3. t.source = TypeID(m, ot.base) /\ t.uses = SchemaIDs(m, ot)
            BY <2>1, BundleFields
        <3>4. IdKnown(m, t.source) /\ \A id \in t.uses : IdKnown(m, id)
            BY <3>3, OwnTypesSay
        <3> HIDE DEF others, types
        <3> QED BY <1>8, <3>2, <3>4
    <2>2. ASSUME NEW id \in StubTypes(m), t = Stub(id) PROVE t.uses \subseteq types /\ t.source \in types \cup {NoID}
        <3>1. t.source \in {NoID, BaseObjectType} /\ t.uses = {}
            BY <2>2, BundleFields
        <3> HIDE DEF types
        <3> QED BY <1>6, <3>1
    <2> QED BY <1>1, <2>1, <2>2
<1>10. \A inst \in ToSet(m.instances) : ElementID("own", inst.name) \in parents
    <2> TAKE inst \in ToSet(m.instances)
    <2>1. OwnObject(m, inst) \in b.objects
        BY <1>1, OwnObjectsAre
    <2>2. OwnObject(m, inst).id = ElementID("own", inst.name)
        BY BundleFields
    <2> QED BY <2>1, <2>2
<1>11. ASSUME NEW inst \in ToSet(m.instances) PROVE ParentID(m, inst.under) \in parents
    <2>1. \/ Kind(m, inst.under) \in {"import", "importUnknown"}
          \/ Kind(m, inst.under) = "unknownName" /\ inst.under.name \in Names(m.instances)
        BY <1>4, UnderIs
    <2>2. CASE Kind(m, inst.under) \in {"import", "importUnknown"}
        <3> DEFINE id == ParentID(m, inst.under)
        <3>1. id \in ExtObjects(m)
            BY <2>2 DEF ExtObjects
        <3> HIDE DEF id
        <3>2. StubObject(id) \in b.objects /\ StubObject(id).id = id
            BY <1>1, <3>1, BundleFields
        <3>3. id \in parents
            BY <3>2
        <3> QED BY <3>3 DEF id
    <2>3. CASE Kind(m, inst.under) = "unknownName" /\ inst.under.name \in Names(m.instances)
        <3>1. ParentID(m, inst.under) = ElementID("own", inst.under.name)
            <4> DEFINE k == Kind(m, inst.under)
            <4>1. ParentID(m, inst.under)
                  = CASE k \in {"import", "importUnknown"} ->
                            ElementID(EmittedURI(m, inst.under.alias), inst.under.name)
                      [] k = "unknownName" -> ElementID("own", inst.under.name)
                      [] OTHER -> TypeID(m, inst.under)
                BY Zenon DEF ParentID
            <4>2. k = "unknownName"
                BY <2>3
            <4> HIDE DEF k
            <4> QED BY <4>1, <4>2
        <3>2. PICK i2 \in ToSet(m.instances) : i2.name = inst.under.name
            BY <1>4, <2>3, NamesOf
        <3> HIDE DEF parents
        <3> QED BY <1>10, <3>1, <3>2
    <2> QED BY <2>1, <2>2, <2>3
<1>12. ASSUME NEW o \in b.objects PROVE o.type \in types /\ o.parent \in parents \cup {NoID}
    <2>1. CASE o \in OwnObjects(m)
        <3>1. PICK inst \in ToSet(m.instances) : ObjectSays(m, inst, o)
            BY <2>1, OwnObjectsAre
        <3>2. o.type \in others
            BY <2>1
        <3>3. o.type \in types
            <4> HIDE DEF others, types
            <4> QED BY <1>8, <3>1, <3>2 DEF ObjectSays
        <3>4. o = OwnObject(m, inst) => o.parent = ParentID(m, inst.under)
            BY BundleFields
        <3>5. o.parent \in parents
            <4> HIDE DEF parents
            <4> QED BY <1>10, <1>11, <3>1, <3>4 DEF ObjectSays
        <3> QED BY <3>3, <3>5
    <2>2. ASSUME NEW id \in ExtObjects(m), o = StubObject(id) PROVE o.type \in types /\ o.parent = NoID
        <3>1. o.type = StubType(id) /\ o.parent = NoID
            BY <2>2, BundleFields
        <3>2. StubType(id) \in StubTypes(m)
            BY <1>3, <2>2
        <3> HIDE DEF types
        <3> QED BY <1>5, <3>1, <3>2
    <2> QED BY <1>1, <2>1, <2>2
<1> HIDE DEF types, parents
<1> QED BY <1>9, <1>12, Zenon DEF BundleCloses, types, parents, b

(* Every name in what is built from a model the service lets pass is that of  *)
(* a node which is there: in the ModelDesign of modeldesign/emit.go and in    *)
(* the bundle of i3x/emit.go.                                                 *)
THEOREM NamesAreThere == Spec => []OutputsClose
<1>1. TypeOK => OutputsClose
    <2> SUFFICES ASSUME TypeOK, Clean(Judged(draft)), NEW m, m = Built(draft), Emittable(m)
                 PROVE  DesignCloses(m, Design(m)) /\ BundleCloses(Bundle(m))
        BY DEF OutputsClose
    <2>1. draft \in Plain
        BY DEF TypeOK, Plain
    <2>2. m \in Models /\ m.catalog # {}
        BY <2>1, JudgedIsModel, BuiltHas
    <2>3. Clean(m)
        BY <2>1, CleanBuilt
    <2>4. Given(m) /\ GivenLoaded(m)
        BY <2>2, <2>3 DEF Given, GivenLoaded
    <2> QED BY <2>4, DesignIsClosed, BundleIsClosed
<1> QED BY <1>1, ModelTypes, PTL

-------------------------------------------------------------------------------
(* An empty change list, read part by part (semdiff/semdiff.go).              *)
LEMMA DifferNone ==
    ASSUME NEW kind, NEW x, NEW b, NEW d, NEW fields, Differ(kind, x, b, d, fields) = {}
    PROVE  \A f \in fields : b[f] = d[f]
    BY DEF Differ


TwinMember(x, y) ==
    /\ x.kind = y.kind /\ x.type = y.type /\ x.rule = y.rule /\ x.access = y.access /\ x.unit = y.unit
MembersTwin(s, t) ==
    Names(s) = Names(t) /\ \A y \in ToSet(t) : TwinMember(LastNamed(s, y.name), y)

LEMMA MembersUnchanged ==
    ASSUME NEW ty, NEW s, NEW t \in Seq(Members), DiffMembers(ty, s, t) = {}
    PROVE  MembersTwin(s, t)
<1> DEFINE a == {<<"MemberAdded", ty, n>> : n \in Names(t) \ Names(s)}
           c == {<<"MemberRemoved", ty, n>> : n \in Names(s) \ Names(t)}
           F == {"kind", "type", "rule", "access", "unit"}
           each(mem) == Differ("MemberChanged", <<ty, mem.name>>, LastNamed(s, mem.name), mem, F)
           all == {each(mem) : mem \in {x \in ToSet(t) : x.name \in Names(s)}}
<1>1. DiffMembers(ty, s, t) = a \cup (UNION all) \cup c
    BY Zenon DEF DiffMembers
<1>2. a = {} /\ c = {} /\ \A e \in all : e = {}
    <2> HIDE DEF a, c, all
    <2> QED BY <1>1
<1>3. Names(s) = Names(t)
    BY <1>2
<1>4. \A y \in ToSet(t) : y.name \in Names(s)
    BY <1>3, NamesOf
<1> HIDE DEF each
<1>5. \A y \in ToSet(t) : each(y) = {}
    BY <1>2, <1>4
<1>6. \A y \in ToSet(t) : TwinMember(LastNamed(s, y.name), y)
    <2> TAKE y \in ToSet(t)
    <2> DEFINE b == LastNamed(s, y.name)
    <2>1. Differ("MemberChanged", <<ty, y.name>>, b, y, F) = {}
        BY <1>5 DEF each
    <2> HIDE DEF b
    <2>2. \A f \in F : b[f] = y[f]
        BY <2>1, DifferNone
    <2>3. TwinMember(b, y)
        BY <2>2 DEF TwinMember
    <2> QED BY <2>3 DEF b
<1> QED BY <1>3, <1>6 DEF MembersTwin

TwinType(b, ot) == b.base = ot.base /\ b.abstract = ot.abstract /\ MembersTwin(b.members, ot.members)

LEMMA TypesUnchanged ==
    ASSUME NEW m, NEW n, n.types \in Seq(Types), DiffTypes(m, n) = {}
    PROVE  Names(m.types) = Names(n.types) /\ \A ot \in ToSet(n.types) : TwinType(LastNamed(m.types, ot.name), ot)
<1> DEFINE a == {<<"TypeAdded", k>> : k \in Names(n.types) \ Names(m.types)}
           c == {<<"TypeRemoved", k>> : k \in Names(m.types) \ Names(n.types)}
           b(ot) == LastNamed(m.types, ot.name)
           dt(ot) == Differ("TypeChanged", ot.name, b(ot), ot, {"base", "abstract"})
           dm(ot) == DiffMembers(ot.name, b(ot).members, ot.members)
           all == {dt(ot) \cup dm(ot) : ot \in {x \in ToSet(n.types) : x.name \in Names(m.types)}}
<1>1. DiffTypes(m, n) = a \cup (UNION all) \cup c
    BY Zenon DEF DiffTypes
<1>2. a = {} /\ c = {} /\ \A e \in all : e = {}
    <2> HIDE DEF a, c, all
    <2> QED BY <1>1
<1>3. Names(m.types) = Names(n.types)
    BY <1>2
<1>4. \A ot \in ToSet(n.types) : ot.name \in Names(m.types) /\ ot \in Types
    BY <1>3, NamesOf
<1> HIDE DEF dt, dm
<1>5. \A ot \in ToSet(n.types) : dt(ot) = {} /\ dm(ot) = {}
    <2> TAKE ot \in ToSet(n.types)
    <2>1. dt(ot) \cup dm(ot) \in all
        BY <1>4
    <2> HIDE DEF all
    <2>2. dt(ot) \cup dm(ot) = {}
        BY <1>2, <2>1
    <2> QED BY <2>2
<1>6. ASSUME NEW ot \in ToSet(n.types) PROVE TwinType(LastNamed(m.types, ot.name), ot)
    <2> DEFINE t == b(ot)
    <2>1. Differ("TypeChanged", ot.name, t, ot, {"base", "abstract"}) = {}
        BY <1>5 DEF dt
    <2>2. DiffMembers(ot.name, t.members, ot.members) = {}
        BY <1>5 DEF dm
    <2>3. ot.members \in Seq(Members)
        BY <1>4 DEF Types
    <2> HIDE DEF t
    <2>4. \A f \in {"base", "abstract"} : t[f] = ot[f]
        BY <2>1, DifferNone
    <2>5. t.base = ot.base /\ t.abstract = ot.abstract
        BY <2>4
    <2>6. MembersTwin(t.members, ot.members)
        BY <2>2, <2>3, MembersUnchanged
    <2>7. TwinType(t, ot)
        BY <2>5, <2>6 DEF TwinType
    <2> QED BY <2>7 DEF t
<1> QED BY <1>3, <1>6

LEMMA EnumsUnchanged ==
    ASSUME NEW m, NEW n, n.enums \in Seq(Enums), DiffEnums(m, n) = {}
    PROVE  Names(m.enums) = Names(n.enums) /\ \A e \in ToSet(n.enums) : LastNamed(m.enums, e.name).values = e.values
<1> DEFINE a == {<<"EnumAdded", k>> : k \in Names(n.enums) \ Names(m.enums)}
           c == {<<"EnumRemoved", k>> : k \in Names(m.enums) \ Names(n.enums)}
           b(e) == LastNamed(m.enums, e.name)
           de(e) == Differ("EnumChanged", e.name, b(e), e, {"values"})
           all == {de(e) : e \in {x \in ToSet(n.enums) : x.name \in Names(m.enums)}}
<1>1. DiffEnums(m, n) = a \cup (UNION all) \cup c
    BY Zenon DEF DiffEnums
<1>2. a = {} /\ c = {} /\ \A e \in all : e = {}
    <2> HIDE DEF a, c, all
    <2> QED BY <1>1
<1>3. Names(m.enums) = Names(n.enums)
    BY <1>2
<1>4. \A e \in ToSet(n.enums) : e.name \in Names(m.enums)
    BY <1>3, NamesOf
<1> HIDE DEF de
<1>5. \A e \in ToSet(n.enums) : de(e) = {}
    BY <1>2, <1>4
<1>6. ASSUME NEW e \in ToSet(n.enums) PROVE b(e).values = e.values
    <2> DEFINE t == b(e)
    <2>1. Differ("EnumChanged", e.name, t, e, {"values"}) = {}
        BY <1>5 DEF de
    <2> HIDE DEF t
    <2>2. \A f \in {"values"} : t[f] = e[f]
        BY <2>1, DifferNone
    <2>3. t.values = e.values
        BY <2>2
    <2> QED BY <2>3 DEF t
<1> QED BY <1>3, <1>6

ValuesTwin(s, t) == Names(s) \subseteq Names(t) /\ \A v \in ToSet(t) : ValueOf(s, v.name) = v.raw

LEMMA ValuesUnchanged ==
    ASSUME NEW b, NEW d, DiffValues(b, d) = {}
    PROVE  ValuesTwin(b.values, d.values)
<1> DEFINE x == {<<"ValueChanged", d.name, val.name>> :
                    val \in {v \in ToSet(d.values) : ValueOf(b.values, v.name) # v.raw}}
           y == {<<"ValueChanged", d.name, n>> : n \in Names(b.values) \ Names(d.values)}
<1>1. DiffValues(b, d) = x \cup y
    BY Zenon DEF DiffValues
<1>2. x = {} /\ y = {}
    <2> HIDE DEF x, y
    <2> QED BY <1>1
<1> QED BY <1>2 DEF ValuesTwin

LEMMA ChildrenUnchanged ==
    ASSUME NEW b, NEW d, DiffChildren(b, d) = {}
    PROVE  Names(b.children) = Names(d.children)
<1> DEFINE x == {<<"ChildAdded", d.name, n>> : n \in Names(d.children) \ Names(b.children)}
           y == {<<"ChildRemoved", d.name, n>> : n \in Names(b.children) \ Names(d.children)}
<1>1. DiffChildren(b, d) = x \cup y
    BY Zenon DEF DiffChildren
<1>2. x = {} /\ y = {}
    <2> HIDE DEF x, y
    <2> QED BY <1>1
<1> QED BY <1>2

TwinInstance(b, d) ==
    /\ b.type = d.type /\ b.under = d.under
    /\ ValuesTwin(b.values, d.values) /\ Names(b.children) = Names(d.children)

LEMMA InstancesUnchanged ==
    ASSUME NEW m, NEW n, n.instances \in Seq(Instances), DiffInstances(m, n) = {}
    PROVE  /\ Names(m.instances) = Names(n.instances)
           /\ \A inst \in ToSet(n.instances) : TwinInstance(LastNamed(m.instances, inst.name), inst)
<1> DEFINE new(inst) == {<<"InstanceAdded", inst.name>>}
                        \cup {<<"ValueChanged", inst.name, k>> : k \in Names(inst.values)}
                        \cup {<<"ChildAdded", inst.name, k>> : k \in Names(inst.children)}
           added == {new(inst) : inst \in {x \in ToSet(n.instances) : x.name \notin Names(m.instances)}}
           c == {<<"InstanceRemoved", k>> : k \in Names(m.instances) \ Names(n.instances)}
           b(inst) == LastNamed(m.instances, inst.name)
           di(inst) == Differ("InstanceChanged", inst.name, b(inst), inst, {"type", "under"})
           dv(inst) == DiffValues(b(inst), inst)
           dc(inst) == DiffChildren(b(inst), inst)
           all == {di(inst) \cup dv(inst) \cup dc(inst) :
                       inst \in {x \in ToSet(n.instances) : x.name \in Names(m.instances)}}
<1>1. DiffInstances(m, n) = (UNION added) \cup (UNION all) \cup c
    BY Zenon DEF DiffInstances
<1>2. (\A e \in added : e = {}) /\ c = {} /\ \A e \in all : e = {}
    <2> HIDE DEF added, c, all
    <2> QED BY <1>1
<1>3. \A inst \in ToSet(n.instances) : inst.name \in Names(m.instances)
    <2>1. \A inst : new(inst) # {}
        OBVIOUS
    <2> HIDE DEF new
    <2> QED BY <1>2, <2>1
<1>4. Names(m.instances) = Names(n.instances)
    <2>1. Names(m.instances) \subseteq Names(n.instances)
        BY <1>2
    <2>2. Names(n.instances) = {x.name : x \in ToSet(n.instances)}
        BY NamesOf
    <2> QED BY <1>3, <2>1, <2>2
<1> HIDE DEF di, dv, dc
<1>5. \A inst \in ToSet(n.instances) : di(inst) = {} /\ dv(inst) = {} /\ dc(inst) = {}
    <2> TAKE inst \in ToSet(n.instances)
    <2> DEFINE e == di(inst) \cup dv(inst) \cup dc(inst)
    <2>1. e \in all
        BY <1>3
    <2> HIDE DEF all
    <2>2. e = {}
        BY <1>2, <2>1
    <2> QED BY <2>2
<1>6. ASSUME NEW inst \in ToSet(n.instances) PROVE TwinInstance(LastNamed(m.instances, inst.name), inst)
    <2> DEFINE t == b(inst)
    <2>1. Differ("InstanceChanged", inst.name, t, inst, {"type", "under"}) = {}
        BY <1>5 DEF di
    <2>2. DiffValues(t, inst) = {}
        BY <1>5 DEF dv
    <2>3. DiffChildren(t, inst) = {}
        BY <1>5 DEF dc
    <2> HIDE DEF t
    <2>4. \A f \in {"type", "under"} : t[f] = inst[f]
        BY <2>1, DifferNone
    <2>5. t.type = inst.type /\ t.under = inst.under
        BY <2>4
    <2>6. TwinInstance(t, inst)
        BY <2>2, <2>3, <2>5, ValuesUnchanged, ChildrenUnchanged DEF TwinInstance
    <2> QED BY <2>6 DEF t
<1> QED BY <1>4, <1>6

LEMMA HeaderUnchanged ==
    ASSUME NEW m, NEW n, DiffHeader(m, n) = {}
    PROVE  m.header.ns = n.header.ns /\ m.header.version = n.header.version
<1> DEFINE b == m.header
           d == n.header
<1>1. Differ("HeaderChanged", "model", b, d, {"ns", "version"}) = {}
    BY Zenon DEF DiffHeader
<1> HIDE DEF b, d
<1>2. \A f \in {"ns", "version"} : b[f] = d[f]
    BY <1>1, DifferNone
<1>3. b.ns = d.ns /\ b.version = d.version
    BY <1>2
<1> QED BY <1>3 DEF b, d

-------------------------------------------------------------------------------
(* Lists that declare the same names, for members that are alike.             *)
Alike(x, y) == x.name = y.name /\ x.placeholder = y.placeholder /\ x.type = y.type /\ x.children = y.children
AlikeLists(s, t) == Names(s) = Names(t) /\ \A n \in Names(s) : Alike(FirstNamed(s, n), FirstNamed(t, n))

LEMMA AlikeSelf ==
    ASSUME NEW s
    PROVE  AlikeLists(s, s)
    BY DEF AlikeLists, Alike

LEMMA AlikeConcat ==
    ASSUME NEW S, NEW s \in Seq(S), NEW t \in Seq(S), NEW u \in Seq(S), NEW v \in Seq(S),
           AlikeLists(s, u), AlikeLists(t, v)
    PROVE  AlikeLists(s \o t, u \o v)
<1> DEFINE st == s \o t
           uv == u \o v
<1>1. Names(st) = Names(s) \cup Names(t) /\ Names(uv) = Names(u) \cup Names(v)
    BY ConcatIs
<1>2. \A n \in Names(s) \cup Names(t) :
          FirstNamed(st, n) = IF n \in Names(s) THEN FirstNamed(s, n) ELSE FirstNamed(t, n)
    BY ConcatFirst
<1>3. \A n \in Names(u) \cup Names(v) :
          FirstNamed(uv, n) = IF n \in Names(u) THEN FirstNamed(u, n) ELSE FirstNamed(v, n)
    BY ConcatFirst
<1> HIDE DEF st, uv
<1>4. AlikeLists(st, uv)
    BY <1>1, <1>2, <1>3 DEF AlikeLists
<1> QED BY <1>4 DEF st, uv

LEMMA AlikeFlatten ==
    ASSUME NEW S, NEW ss \in Seq(Seq(S)), NEW tt \in Seq(Seq(S)), DOMAIN ss = DOMAIN tt,
           \A i \in DOMAIN ss : AlikeLists(ss[i], tt[i])
    PROVE  AlikeLists(FlattenSeq(ss), FlattenSeq(tt))
<1> DEFINE f == FlattenSeq(ss)
           g == FlattenSeq(tt)
           D == DOMAIN ss
<1>1. D = 1..Len(ss) /\ Len(ss) \in Nat
    OBVIOUS
<1>2. /\ Names(f) = UNION {Names(ss[i]) : i \in D}
      /\ \A n \in Names(f), i \in D : FirstIn(ss, i, n) => FirstNamed(f, n) = FirstNamed(ss[i], n)
    BY FlattenIs
<1>3. /\ Names(g) = UNION {Names(tt[i]) : i \in D}
      /\ \A n \in Names(g), i \in D : FirstIn(tt, i, n) => FirstNamed(g, n) = FirstNamed(tt[i], n)
    BY FlattenIs
<1> HIDE DEF f, g
<1>4. \A i \in D : Names(ss[i]) = Names(tt[i])
    BY DEF AlikeLists
<1>5. Names(f) = Names(g)
    BY <1>2, <1>3, <1>4
<1>6. ASSUME NEW n \in Names(f) PROVE Alike(FirstNamed(f, n), FirstNamed(g, n))
    <2> DEFINE T == {i \in D : n \in Names(ss[i])}
    <2>1. T \subseteq Nat /\ T # {}
        BY <1>1, <1>2
    <2>2. PICK i \in T : \A k \in T : i <= k
        BY <2>1, LeastOf
    <2>3. i \in D /\ n \in Names(ss[i]) /\ \A j \in 1..i-1 : j \in D /\ n \notin Names(ss[j])
        <3>1. i \in D /\ n \in Names(ss[i]) /\ \A k \in D : n \in Names(ss[k]) => i <= k
            BY <2>2
        <3>2. \A j \in 1..i-1 : j \in D /\ ~(i <= j)
            BY <1>1, <3>1
        <3> QED BY <3>1, <3>2
    <2>4. FirstIn(ss, i, n) /\ FirstIn(tt, i, n)
        BY <1>4, <2>3 DEF FirstIn
    <2>5. FirstNamed(f, n) = FirstNamed(ss[i], n) /\ FirstNamed(g, n) = FirstNamed(tt[i], n)
        BY <1>2, <1>3, <1>5, <2>3, <2>4
    <2> QED BY <2>3, <2>5 DEF AlikeLists
<1> QED BY <1>5, <1>6 DEF AlikeLists, f, g

LEMMA AlikeUnrepeated ==
    ASSUME NEW S, NEW s \in Seq(S), NEW t \in Seq(S), AlikeLists(s, t)
    PROVE  AlikeLists(Unrepeated(s), Unrepeated(t))
<1>1. ASSUME NEW r \in Seq(S) PROVE \A n \in Names(r) : FirstNamed(Unrepeated(r), n) = FirstNamed(r, n)
    <2> TAKE n \in Names(r)
    <2> DEFINE q == Unrepeated(r)
    <2>1. q \in Seq(S) /\ Names(q) = Names(r) /\ ToSet(q) = {FirstNamed(r, k) : k \in Names(r)}
        BY UnrepeatedIs
    <2> HIDE DEF q
    <2>2. FirstNamed(q, n) \in ToSet(q) /\ FirstNamed(q, n).name = n
        BY <2>1, Named
    <2>3. \A k \in Names(r) : FirstNamed(r, k).name = k
        BY Named
    <2>4. FirstNamed(q, n) = FirstNamed(r, n)
        BY <2>1, <2>2, <2>3
    <2> QED BY <2>4 DEF q
<1>2. Names(Unrepeated(s)) = Names(s) /\ Names(Unrepeated(t)) = Names(t)
    BY UnrepeatedIs
<1> QED BY <1>1, <1>2 DEF AlikeLists

-------------------------------------------------------------------------------
(* Two models whose declarations lead to the same and are alike inside.       *)
AlikeModels(m, n) ==
    /\ m \in Models /\ n \in Models
    /\ m.catalog = n.catalog /\ m.catalog # {} /\ SameDeclared(m, n)
    /\ \A a \in Names(m.imports) : FirstNamed(m.imports, a) = FirstNamed(n.imports, a)
    /\ \A t \in Names(m.types) :
        /\ FirstNamed(m.types, t).base = FirstNamed(n.types, t).base
        /\ AlikeLists(FirstNamed(m.types, t).members, FirstNamed(n.types, t).members)

LEMMA AlikeResolve ==
    ASSUME NEW m, NEW n, AlikeModels(m, n), NEW ref
    PROVE  ResolveType(m, ref) = ResolveType(n, ref)
<1>1. ImportKnown(m, ref.alias) <=> ImportKnown(n, ref.alias)
    BY DEF AlikeModels, SameDeclared, ImportKnown
<1>2. ImportKnown(m, ref.alias) => ImportURI(m, ref.alias) = ImportURI(n, ref.alias)
    BY DEF AlikeModels, ImportKnown, ImportURI
<1> DEFINE u(k) == IF ref.alias # "" /\ ImportKnown(k, ref.alias) THEN ImportURI(k, ref.alias) ELSE ""
<1>3. u(m) = u(n)
    BY <1>1, <1>2
<1>4. ResolveType(m, ref) = Resolved(m, ref, u(m)) /\ ResolveType(n, ref) = Resolved(n, ref, u(n))
    BY Zenon DEF ResolveType
<1> HIDE DEF u
<1>5. FoundAlike(m, n, ref, u(m))
    BY DEF FoundAlike, InCatalog, AlikeModels
<1>6. SameDeclared(m, n) /\ m.catalog # {} /\ n.catalog # {}
    BY DEF AlikeModels
<1>7. Resolved(m, ref, u(m)) = Resolved(n, ref, u(m))
    BY <1>5, <1>6, ResolvedSame
<1> QED BY <1>3, <1>4, <1>7

LEMMA AlikeNames ==
    ASSUME NEW m, NEW n, AlikeModels(m, n), NEW ref
    PROVE  /\ Kind(m, ref) = Kind(n, ref) /\ FarMembers(m, ref) = FarMembers(n, ref)
           /\ QName(m, ref) = QName(n, ref) /\ InstanceTarget(m, ref) = InstanceTarget(n, ref)
<1>1. Kind(m, ref) = Kind(n, ref) /\ CatalogKey(m, ref) = CatalogKey(n, ref)
    BY AlikeResolve DEF Kind, CatalogKey
<1>2. LoadedBases(m) = LoadedBases(n)
    <2>1. m.catalog = n.catalog
        BY DEF AlikeModels
    <2> QED BY <2>1, Zenon DEF LoadedBases
<1>3. FarMembers(m, ref) = FarMembers(n, ref)
    BY <1>1, <1>2, Zenon DEF FarMembers
<1>4. QName(m, ref) = QName(n, ref)
    <2> DEFINE k == Kind(m, ref)
               p(u) == CASE k = "builtin" -> "ua"
                         [] k \in {"import", "importUnknown"} /\ u = UA -> "ua"
                         [] OTHER -> ref.alias
    <2>1. /\ QName(m, ref) = [name |-> ref.name, prefix |-> p(ImportURI(m, ref.alias))]
          /\ QName(n, ref) = [name |-> ref.name, prefix |-> p(ImportURI(n, ref.alias))]
        BY <1>1, Zenon DEF QName
    <2>2. PICK uri : Means(m, ref, uri, ResolveType(m, ref))
        BY KindMeans
    <2>3. k \in {"import", "importUnknown"} => ImportKnown(m, ref.alias)
        BY <2>2 DEF Means, Imported, Kind
    <2>4. ImportKnown(m, ref.alias) => ImportURI(m, ref.alias) = ImportURI(n, ref.alias)
        BY DEF AlikeModels, ImportKnown, ImportURI
    <2> HIDE DEF k
    <2>5. p(ImportURI(m, ref.alias)) = p(ImportURI(n, ref.alias))
        BY <2>3, <2>4
    <2> HIDE DEF p
    <2> QED BY <2>1, <2>5
<1>5. InstanceTarget(m, ref) = InstanceTarget(n, ref)
    BY <1>1, <1>4, Zenon DEF InstanceTarget
<1> QED BY <1>1, <1>3, <1>4, <1>5

LEMMA AlikeBases ==
    ASSUME NEW m, NEW n, AlikeModels(m, n)
    PROVE  Bases(m) = Bases(n)
<1> DEFINE D(k) == {t \in Names(k.types) : HasLocalBase(k, FirstNamed(k.types, t))}
           b(k, t) == FirstNamed(k.types, t).base.name
<1>1. Names(m.types) = Names(n.types) /\ \A t \in Names(m.types) : FirstNamed(m.types, t).base = FirstNamed(n.types, t).base
    BY DEF AlikeModels, SameDeclared
<1>2. \A ref : Kind(m, ref) = Kind(n, ref)
    BY AlikeNames
<1>3. \A t \in Names(m.types) : HasLocalBase(m, FirstNamed(m.types, t)) <=> HasLocalBase(n, FirstNamed(n.types, t))
    BY <1>1, <1>2 DEF HasLocalBase
<1>4. D(m) = D(n)
    BY <1>1, <1>3
<1>5. \A t \in D(m) : b(m, t) = b(n, t)
    BY <1>1
<1>6. Bases(m) = [t \in D(m) |-> b(m, t)] /\ Bases(n) = [t \in D(n) |-> b(n, t)]
    BY Zenon DEF Bases
<1> HIDE DEF D, b
<1> QED BY <1>4, <1>5, <1>6

LEMMA AlikeMembers ==
    ASSUME NEW m, NEW n, AlikeModels(m, n), NEW t \in Names(m.types)
    PROVE  AlikeLists(ResolveMembers(m, t), ResolveMembers(n, t))
<1> DEFINE w == Walk(Bases(m), t)
<1>1. m \in Models /\ n \in Models /\ Names(n.types) = Names(m.types)
    BY DEF AlikeModels, SameDeclared
<1>2. w \in Seq(Names(m.types)) /\ Len(w) > 0
    BY <1>1, BasesWalk
<1>3. ResolveMembers(m, t) = Unrepeated(Gathered(m, w)) /\ ResolveMembers(n, t) = Unrepeated(Gathered(n, w))
    <2>1. Bases(n) = Bases(m)
        BY AlikeBases
    <2>2. \A k : ResolveMembers(k, t) = Unrepeated(Gathered(k, Walk(Bases(k), t)))
        BY Zenon DEF ResolveMembers, MembersAlong, Gathered, Along
    <2> QED BY <2>1, <2>2
<1> HIDE DEF w
<1> DEFINE s == Along(m, w)
           u == Along(n, w)
           fs == FarMembers(m, FirstNamed(m.types, Last(w)).base)
           fu == FarMembers(n, FirstNamed(n.types, Last(w)).base)
<1>4. s \in Seq(Seq(AllMembers)) /\ fs \in Seq(AllMembers) /\ Gathered(m, w) \in Seq(AllMembers)
    BY <1>1, <1>2, GatheredIs
<1>5. u \in Seq(Seq(AllMembers)) /\ fu \in Seq(AllMembers) /\ Gathered(n, w) \in Seq(AllMembers)
    BY <1>1, <1>2, GatheredIs
<1>6. Last(w) \in Names(m.types) /\ \A i \in DOMAIN w : w[i] \in Names(m.types)
    BY <1>2 DEF Last
<1>7. DOMAIN s = DOMAIN u /\ \A i \in DOMAIN s : AlikeLists(s[i], u[i])
    <2>1. DOMAIN s = DOMAIN w /\ DOMAIN u = DOMAIN w
        BY DEF Along
    <2>2. \A i \in DOMAIN w : s[i] = FirstNamed(m.types, w[i]).members /\ u[i] = FirstNamed(n.types, w[i]).members
        BY DEF Along
    <2>3. \A k \in Names(m.types) : AlikeLists(FirstNamed(m.types, k).members, FirstNamed(n.types, k).members)
        BY DEF AlikeModels
    <2> HIDE DEF s, u
    <2> QED BY <1>6, <2>1, <2>2, <2>3
<1>8. fs = fu
    <2>1. FirstNamed(m.types, Last(w)).base = FirstNamed(n.types, Last(w)).base
        BY <1>6 DEF AlikeModels
    <2> QED BY <2>1, AlikeNames
<1>9. Gathered(m, w) = FlattenSeq(s) \o fs /\ Gathered(n, w) = FlattenSeq(u) \o fu
    BY Zenon DEF Gathered
<1> HIDE DEF s, u, fs, fu
<1>10. AlikeLists(FlattenSeq(s), FlattenSeq(u))
    BY <1>4, <1>5, <1>7, AlikeFlatten
<1>11. FlattenSeq(s) \in Seq(AllMembers) /\ FlattenSeq(u) \in Seq(AllMembers)
    BY <1>4, <1>5, FlattenIs
<1>12. AlikeLists(fs, fu)
    BY <1>8, AlikeSelf
<1>13. AlikeLists(FlattenSeq(s) \o fs, FlattenSeq(u) \o fu)
    BY <1>4, <1>5, <1>10, <1>11, <1>12, AlikeConcat
<1>14. AlikeLists(Gathered(m, w), Gathered(n, w))
    BY <1>9, <1>13
<1> QED BY <1>3, <1>4, <1>5, <1>14, AlikeUnrepeated

LEMMA AlikeLocal ==
    ASSUME NEW m, NEW n, AlikeModels(m, n), NEW ref
    PROVE  AlikeLists(LocalMembers(m, ref), LocalMembers(n, ref))
<1>1. Kind(m, ref) = Kind(n, ref) /\ FarMembers(m, ref) = FarMembers(n, ref) /\ Names(m.types) = Names(n.types)
    BY AlikeNames DEF AlikeModels, SameDeclared
<1>2. CASE Kind(m, ref) = "local" /\ ref.name \in Names(m.types)
    <2>1. LocalMembers(m, ref) = ResolveMembers(m, ref.name) /\ LocalMembers(n, ref) = ResolveMembers(n, ref.name)
        BY <1>1, <1>2, Zenon DEF LocalMembers, MembersOf
    <2> QED BY <1>2, <2>1, AlikeMembers
<1>3. CASE ~(Kind(m, ref) = "local" /\ ref.name \in Names(m.types))
    <2>1. LocalMembers(m, ref) = LocalMembers(n, ref)
        BY <1>1, <1>3, Zenon DEF LocalMembers, MembersOf
    <2> QED BY <2>1, AlikeSelf
<1> QED BY <1>2, <1>3

LEMMA LocalUnique ==
    ASSUME NEW m \in Models, NEW ref
    PROVE  LET s == LocalMembers(m, ref) IN \A x \in ToSet(s) : x.name \in Names(s) /\ FirstNamed(s, x.name) = x
<1> DEFINE s == LocalMembers(m, ref)
<1>1. s \in Seq(AllMembers)
    BY LocalMembersAre
<1>2. Repeated(s) = {}
    <2>1. Repeated(<<>>) = {}
        BY DEF Repeated
    <2>2. CASE Kind(m, ref) # "local"
        BY <2>1, <2>2, LocalMembersAre
    <2>3. CASE Kind(m, ref) = "local" /\ ref.name \in Names(m.types)
        <3> DEFINE g == Gathered(m, Walk(Bases(m), ref.name))
        <3>1. s = ResolveMembers(m, ref.name)
            BY <2>3, Zenon DEF LocalMembers, MembersOf
        <3>2. ResolveMembers(m, ref.name) = Unrepeated(g)
            BY Zenon DEF ResolveMembers, MembersAlong, Gathered, Along
        <3>3. Walk(Bases(m), ref.name) \in Seq(Names(m.types))
            BY <2>3, BasesWalk
        <3>4. g \in Seq(AllMembers)
            BY <3>3, GatheredIs
        <3> HIDE DEF g
        <3>5. Repeated(Unrepeated(g)) = {}
            BY <3>4, UnrepeatedIs
        <3> QED BY <3>1, <3>2, <3>5
    <2>4. CASE Kind(m, ref) = "local" /\ ref.name \notin Names(m.types)
        <3>1. s = FarMembers(m, ref) /\ FarMembers(m, ref) = <<>>
            BY <2>4, Zenon DEF LocalMembers, MembersOf, FarMembers
        <3> QED BY <2>1, <3>1
    <2> QED BY <2>2, <2>3, <2>4
<1> HIDE DEF s
<1>3. \A x \in ToSet(s) : x.name \in Names(s) /\ FirstNamed(s, x.name) = x
    BY <1>1, <1>2, NamesOf, UniqueNamed
<1> QED BY <1>3 DEF s

-------------------------------------------------------------------------------
(* The part of a design that is reviewed, by its pieces.                      *)
Shown(mem) == [mem EXCEPT !.children = <<>>, !.args = {}]
Pairs(overrides) ==
    {<<o.name, o.value>> : o \in {p \in overrides : p.name # "EquipmentLevel" /\ p.value # ""}}
RevType(t) ==
    [name |-> t.name, base |-> t.base, abstract |-> t.abstract, members |-> {Shown(mem) : mem \in ToSet(t.members)}]
RevInst(x) ==
    [name |-> x.name, type |-> x.type, under |-> x.under,
     children |-> {c.name : c \in x.children}, values |-> Pairs(x.overrides)]

LEMMA ShownSame ==
    ASSUME NEW x \in Members, NEW y \in Members, TwinMember(x, y),
           x.name = y.name, x.placeholder = y.placeholder
    PROVE  Shown(x) = Shown(y)
<1> DEFINE F == {"name", "kind", "rule", "placeholder", "access", "type", "unit", "args", "children"}
<1>1. DOMAIN x = F /\ DOMAIN y = F
    BY DEF Members, MembersWith
<1>2. \A k \in F : k # "args" /\ k # "children" => x[k] = y[k]
    BY DEF TwinMember
<1> HIDE DEF F
<1> QED BY <1>1, <1>2 DEF Shown

AlikeIns(s, t) ==
    \A x \in ToSet(s), y \in ToSet(t) : x.name = y.name => x.placeholder = y.placeholder /\ x.children = y.children

LEMMA MembersAlike ==
    ASSUME NEW s \in Seq(Members), NEW t \in Seq(Members), Repeated(s) = {}, Repeated(t) = {},
           MembersTwin(s, t), AlikeIns(s, t)
    PROVE  AlikeLists(s, t) /\ {Shown(x) : x \in ToSet(s)} = {Shown(x) : x \in ToSet(t)}
<1>1. Names(s) = Names(t)
    BY DEF MembersTwin
<1> DEFINE x(n) == FirstNamed(s, n)
           y(n) == FirstNamed(t, n)
<1>2. \A n \in Names(s) : x(n) \in ToSet(s) /\ x(n) \in Members /\ x(n).name = n /\ LastNamed(s, n) = x(n)
    BY Named, UniqueNamed
<1>3. \A n \in Names(t) : y(n) \in ToSet(t) /\ y(n) \in Members /\ y(n).name = n
    BY Named
<1>4. ToSet(s) = {x(n) : n \in Names(s)}
    <2>1. \A e \in ToSet(s) : e.name \in Names(s) /\ x(e.name) = e
        BY NamesOf, UniqueNamed
    <2> HIDE DEF x
    <2> QED BY <1>2, <2>1
<1>5. ToSet(t) = {y(n) : n \in Names(s)}
    <2>1. \A e \in ToSet(t) : e.name \in Names(t) /\ y(e.name) = e
        BY NamesOf, UniqueNamed
    <2> HIDE DEF y
    <2> QED BY <1>1, <1>3, <2>1
<1> HIDE DEF x, y
<1>6. \A n \in Names(s) : TwinMember(x(n), y(n)) /\ x(n).placeholder = y(n).placeholder /\ x(n).children = y(n).children
    <2> TAKE n \in Names(s)
    <2>1. TwinMember(LastNamed(s, y(n).name), y(n))
        BY <1>1, <1>3 DEF MembersTwin
    <2> QED BY <1>1, <1>2, <1>3, <2>1 DEF AlikeIns
<1>7. \A n \in Names(s) : Shown(x(n)) = Shown(y(n))
    BY <1>1, <1>2, <1>3, <1>6, ShownSame
<1>8. \A n \in Names(s) : Alike(x(n), y(n))
    BY <1>1, <1>2, <1>3, <1>6 DEF Alike, TwinMember
<1>9. AlikeLists(s, t)
    BY <1>1, <1>8 DEF AlikeLists, x, y
<1>10. {Shown(e) : e \in ToSet(s)} = {Shown(e) : e \in ToSet(t)}
    BY <1>4, <1>5, <1>7
<1> QED BY <1>9, <1>10

(* Values that are set to something.                                          *)
GivenValues(s) == {v \in ToSet(s) : v.raw # ""}
ValueRows == [name : STRING, raw : STRING]

LEMMA ValuesAlike ==
    ASSUME NEW s \in Seq(ValueRows), NEW t \in Seq(ValueRows), Repeated(s) = {}, Repeated(t) = {}, ValuesTwin(s, t)
    PROVE  GivenValues(s) = GivenValues(t)
<1>1. \A r \in ToSet(s) \cup ToSet(t) : r = [name |-> r.name, raw |-> r.raw]
    <2>1. ToSet(s) \subseteq ValueRows /\ ToSet(t) \subseteq ValueRows
        BY NamesOf
    <2> QED BY <2>1 DEF ValueRows
<1>2. \A v \in ToSet(s) : v.name \in Names(s) /\ LastNamed(s, v.name) = v
    BY NamesOf, UniqueNamed
<1>3. \A n \in Names(s) : LastNamed(s, n) \in ToSet(s) /\ LastNamed(s, n).name = n
    BY Named
<1>4. \A v \in ToSet(t) : v.raw = IF v.name \in Names(s) THEN LastNamed(s, v.name).raw ELSE ""
    BY DEF ValuesTwin, ValueOf
<1>5. \A n \in Names(t) : \E w \in ToSet(t) : w.name = n
    BY NamesOf
<1>6. ASSUME NEW v \in GivenValues(t) PROVE v \in GivenValues(s)
    <2>1. v \in ToSet(t) /\ v.raw # ""
        BY <1>6 DEF GivenValues
    <2>2. v.name \in Names(s) /\ v.raw = LastNamed(s, v.name).raw
        BY <1>4, <2>1
    <2>3. LastNamed(s, v.name) \in ToSet(s) /\ LastNamed(s, v.name).name = v.name
        BY <1>3, <2>2
    <2>4. LastNamed(s, v.name) = v
        BY <1>1, <2>1, <2>2, <2>3
    <2> QED BY <2>1, <2>3, <2>4 DEF GivenValues
<1>7. ASSUME NEW v \in GivenValues(s) PROVE v \in GivenValues(t)
    <2>1. v \in ToSet(s) /\ v.raw # ""
        BY <1>7 DEF GivenValues
    <2>2. v.name \in Names(s) /\ LastNamed(s, v.name) = v
        BY <1>2, <2>1
    <2>3. PICK w \in ToSet(t) : w.name = v.name
        BY <1>5, <2>2 DEF ValuesTwin
    <2>4. w.raw = v.raw
        BY <1>4, <2>2, <2>3
    <2>5. w = v
        BY <1>1, <2>1, <2>3, <2>4
    <2> QED BY <2>1, <2>3, <2>5 DEF GivenValues
<1> QED BY <1>6, <1>7

LEMMA PairsAre ==
    ASSUME NEW m, NEW inst, NEW S
    PROVE  Pairs(LevelOverride(m, inst) \cup ValueOverrides(m, inst, S))
           = {<<v.name, v.raw>> : v \in {v \in GivenValues(inst.values) : v.name \in Names(S) /\ v.name # "EquipmentLevel"}}
<1> DEFINE lev == LevelOverride(m, inst)
           ty(v) == QName(m, FirstNamed(S, v.name).type)
           one(v) == [name |-> v.name, value |-> v.raw, type |-> ty(v)]
           val == {one(v) : v \in {v \in ToSet(inst.values) : v.name \in Names(S)}}
           alias == [name |-> "ISA95EquipmentElementLevelEnum", prefix |-> LevelAlias(m)]
           own == [name |-> "EquipmentLevel", value |-> inst.level, type |-> alias]
<1>1. ValueOverrides(m, inst, S) = val
    BY Zenon DEF ValueOverrides
<1>2. lev = IF TypeHasMember(m, inst.type, "EquipmentLevel") /\ inst.level \in DOMAIN Tier \cup Tierless
            THEN {own} ELSE {}
    BY Zenon DEF LevelOverride
<1> HIDE DEF alias, ty
<1>3. own.name = "EquipmentLevel" /\ \A v : one(v).name = v.name /\ one(v).value = v.raw
    OBVIOUS
<1> HIDE DEF own, one
<1>4. \A p \in lev : p.name = "EquipmentLevel"
    BY <1>2, <1>3
<1> HIDE DEF lev
<1> DEFINE A == {p \in lev \cup val : p.name # "EquipmentLevel" /\ p.value # ""}
           C == {v \in GivenValues(inst.values) : v.name \in Names(S) /\ v.name # "EquipmentLevel"}
<1>5. A = {one(v) : v \in C}
    BY <1>3, <1>4 DEF GivenValues
<1>6. Pairs(lev \cup val) = {<<o.name, o.value>> : o \in A}
    BY Zenon DEF Pairs
<1> HIDE DEF A, C, val
<1>7. {<<o.name, o.value>> : o \in A} = {<<v.name, v.raw>> : v \in C}
    BY <1>3, <1>5
<1> QED BY <1>1, <1>6, <1>7 DEF lev, C

(* The placeholders that a child gets its type from.                          *)
Typed(S) == {x \in ToSet(Preorder(S)) : x.placeholder /\ x.type # NoRef}
Fillable(S) == {x.name : x \in Typed(S)}

LEMMA ChildNames ==
    ASSUME NEW m, NEW inst, NEW S \in Seq(AllMembers)
    PROVE  {c.name : c \in DesignChildren(m, inst, S)}
           = {ch.name : ch \in {ch \in ToSet(inst.children) : ch.of \in Fillable(S)}}
<1> DEFINE P == Preorder(S)
           typed(of) == FirstWhere(P, LAMBDA x : x.placeholder /\ x.type # NoRef /\ x.name = of)
           Q(of) == {x \in Typed(S) : x.name = of}
           one(ch, mem) == [name |-> ch.name, type |-> QName(m, mem.type)]
           each(ch) == {one(ch, mem) : mem \in typed(ch.of)}
<1>1. DesignChildren(m, inst, S) = UNION {each(ch) : ch \in ToSet(inst.children)}
    BY Zenon DEF DesignChildren
<1>2. P \in Seq(AllMembers)
    BY PreorderIs
<1>3. ASSUME NEW of PROVE typed(of) # {} <=> of \in Fillable(S)
    <2>1. \A i \in DOMAIN P : P[i] \in ToSet(P)
        BY DEF ToSet
    <2>2. \A i \in DOMAIN P : (P[i].placeholder /\ P[i].type # NoRef /\ P[i].name = of) <=> P[i] \in Q(of)
        BY <2>1 DEF Typed
    <2> HIDE DEF P
    <2>3. typed(of) \subseteq {P[i] : i \in {i \in DOMAIN P : P[i].placeholder /\ P[i].type # NoRef /\ P[i].name = of}}
        BY DEF FirstWhere
    <2>4. typed(of) # {} => Q(of) # {}
        <3> HIDE DEF typed, Q
        <3> QED BY <2>2, <2>3
    <2>5. ASSUME Q(of) # {} PROVE typed(of) # {}
        <3>1. PICK x \in Q(of) : TRUE
            BY <2>5
        <3>2. x \in ToSet(P)
            BY <3>1 DEF Typed, P
        <3>3. \E i \in DOMAIN P : P[i] \in Q(of)
            BY <3>1, <3>2 DEF ToSet
        <3> DEFINE R == Q(of)
        <3> HIDE DEF Q
        <3>4. \E i \in DOMAIN P : P[i] \in R
            BY <3>3
        <3> HIDE DEF R
        <3>5. FirstOf(P, R) # {}
            BY <1>2, <3>4, FirstThere DEF P
        <3>6. DOMAIN P = 1..Len(P) /\ Len(P) \in Nat
            BY <1>2 DEF P
        <3>7. \A i \in DOMAIN P : \A j \in 1..i-1 : j \in DOMAIN P
            BY <3>6
        <3>8. \A i \in DOMAIN P : (P[i].placeholder /\ P[i].type # NoRef /\ P[i].name = of) <=> P[i] \in R
            BY <2>2 DEF R
        <3>9. \A i \in DOMAIN P :
                ((P[i].placeholder /\ P[i].type # NoRef /\ P[i].name = of)
                 /\ \A j \in 1..i-1 : ~(P[j].placeholder /\ P[j].type # NoRef /\ P[j].name = of))
                <=> (P[i] \in R /\ \A j \in 1..i-1 : ~(P[j] \in R))
            BY <3>7, <3>8
        <3>10. typed(of) = FirstOf(P, R)
            BY <3>9 DEF FirstWhere, FirstOf
        <3> QED BY <3>5, <3>10
    <2>6. Q(of) # {} <=> of \in Fillable(S)
        BY DEF Fillable
    <2> QED BY <2>4, <2>5, <2>6
<1> HIDE DEF typed
<1>4. \A ch, mem : one(ch, mem).name = ch.name
    OBVIOUS
<1> HIDE DEF one, Q, P
<1> DEFINE U == UNION {each(ch) : ch \in ToSet(inst.children)}
<1>5. ASSUME NEW n
      PROVE  n \in {c.name : c \in U} <=> \E ch \in ToSet(inst.children) : ch.name = n /\ ch.of \in Fillable(S)
    <2>1. n \in {c.name : c \in U} <=> \E ch \in ToSet(inst.children) : \E mem \in typed(ch.of) : one(ch, mem).name = n
        OBVIOUS
    <2> QED BY <1>3, <1>4, <2>1
<1> HIDE DEF U
<1>6. {c.name : c \in U} = {ch.name : ch \in {ch \in ToSet(inst.children) : ch.of \in Fillable(S)}}
    BY <1>5
<1> QED BY <1>1, <1>6 DEF U

LEMMA FillableSame ==
    ASSUME NEW S \in Seq(AllMembers), NEW T \in Seq(AllMembers), AlikeLists(S, T),
           \A x \in ToSet(S) : x.name \in Names(S) /\ FirstNamed(S, x.name) = x
    PROVE  Fillable(S) \subseteq Fillable(T)
<1>1. ToSet(Preorder(S)) = ToSet(S) \cup UNION {ToSet(x.children) : x \in ToSet(S)}
    BY PreorderIs
<1>2. ToSet(Preorder(T)) = ToSet(T) \cup UNION {ToSet(x.children) : x \in ToSet(T)}
    BY PreorderIs
<1>3. \A x \in ToSet(S) : \E y \in ToSet(T) : Alike(x, y)
    <2> TAKE x \in ToSet(S)
    <2>1. Alike(FirstNamed(S, x.name), FirstNamed(T, x.name)) /\ x.name \in Names(T) /\ FirstNamed(S, x.name) = x
        BY DEF AlikeLists
    <2>2. FirstNamed(T, x.name) \in ToSet(T)
        BY <2>1, Named
    <2> QED BY <2>1, <2>2
<1>4. ASSUME NEW x \in Typed(S) PROVE x.name \in Fillable(T)
    <2>1. x \in ToSet(Preorder(S)) /\ x.placeholder /\ x.type # NoRef
        BY <1>4 DEF Typed
    <2>2. PICK z \in ToSet(S) : x = z \/ x \in ToSet(z.children)
        BY <1>1, <2>1
    <2>3. PICK y \in ToSet(T) : Alike(z, y)
        BY <1>3
    <2>4. CASE x = z
        <3>1. y \in ToSet(Preorder(T)) /\ y.placeholder /\ y.type # NoRef /\ y.name = x.name
            BY <1>2, <2>1, <2>3, <2>4 DEF Alike
        <3> QED BY <3>1 DEF Fillable, Typed
    <2>5. CASE x \in ToSet(z.children)
        <3>1. x \in ToSet(y.children)
            BY <2>3, <2>5 DEF Alike
        <3>2. x \in ToSet(Preorder(T))
            BY <1>2, <3>1
        <3> QED BY <2>1, <3>2 DEF Fillable, Typed
    <2> QED BY <2>2, <2>4, <2>5
<1> QED BY <1>4 DEF Fillable

-------------------------------------------------------------------------------
(* A base and a draft without changes to review.                              *)
Reviewable(m, n) ==
    /\ m \in Plain /\ n \in Plain /\ Unique(m) /\ Unique(n)
    /\ ToSet(m.imports) = ToSet(n.imports) /\ AlikeInside(m, n) /\ Diff(m, n) = {}

LEMMA ReviewableSays ==
    ASSUME NEW m, NEW n, Reviewable(m, n)
    PROVE  /\ m.header.ns = n.header.ns /\ m.header.version = n.header.version
           /\ Names(m.types) = Names(n.types) /\ Names(m.enums) = Names(n.enums)
           /\ Names(m.instances) = Names(n.instances)
           /\ \A ot \in ToSet(n.types) : TwinType(LastNamed(m.types, ot.name), ot)
           /\ \A e \in ToSet(n.enums) : LastNamed(m.enums, e.name).values = e.values
           /\ \A inst \in ToSet(n.instances) : TwinInstance(LastNamed(m.instances, inst.name), inst)
<1> DEFINE h == DiffHeader(m, n)
           i == DiffImports(m, n)
           t == DiffTypes(m, n)
           e == DiffEnums(m, n)
           x == DiffInstances(m, n)
<1>1. h \cup i \cup t \cup e \cup x = {}
    BY Zenon DEF Reviewable, Diff
<1>2. h = {} /\ t = {} /\ e = {} /\ x = {}
    <2> HIDE DEF h, i, t, e, x
    <2> QED BY <1>1
<1>3. n \in Plain
    BY DEF Reviewable
<1>4. n.types \in Seq(Types) /\ n.enums \in Seq(Enums) /\ n.instances \in Seq(Instances)
    BY <1>3, PlainEdits
<1> HIDE DEF h, i, t, e, x
<1>5. m.header.ns = n.header.ns /\ m.header.version = n.header.version
    BY <1>2, HeaderUnchanged DEF h
<1>6. Names(m.types) = Names(n.types) /\ \A ot \in ToSet(n.types) : TwinType(LastNamed(m.types, ot.name), ot)
    BY <1>2, <1>4, TypesUnchanged DEF t
<1>7. Names(m.enums) = Names(n.enums) /\ \A en \in ToSet(n.enums) : LastNamed(m.enums, en.name).values = en.values
    BY <1>2, <1>4, EnumsUnchanged DEF e
<1>8. /\ Names(m.instances) = Names(n.instances)
      /\ \A inst \in ToSet(n.instances) : TwinInstance(LastNamed(m.instances, inst.name), inst)
    BY <1>2, <1>4, InstancesUnchanged DEF x
<1> QED BY <1>5, <1>6, <1>7, <1>8

(* The two declarations of a type's name.                                     *)
TypePair(ot, ou) ==
    /\ ot.name = ou.name /\ ot.base = ou.base /\ ot.abstract = ou.abstract
    /\ AlikeLists(ot.members, ou.members)
    /\ {Shown(mem) : mem \in ToSet(ot.members)} = {Shown(mem) : mem \in ToSet(ou.members)}

LEMMA TypesPaired ==
    ASSUME NEW m, NEW n, Reviewable(m, n), NEW k \in Names(m.types)
    PROVE  TypePair(FirstNamed(m.types, k), FirstNamed(n.types, k))
<1> DEFINE ot == FirstNamed(m.types, k)
           ou == FirstNamed(n.types, k)
<1>1. m \in Plain /\ n \in Plain /\ Unique(m) /\ Unique(n) /\ AlikeInside(m, n)
    BY DEF Reviewable
<1>2. m.types \in Seq(Types) /\ n.types \in Seq(Types)
    BY <1>1, PlainEdits
<1>3. k \in Names(n.types)
    BY ReviewableSays
<1>4. ot \in ToSet(m.types) /\ ot \in Types /\ ot.name = k
    BY <1>2, Named
<1>5. ou \in ToSet(n.types) /\ ou \in Types /\ ou.name = k
    BY <1>2, <1>3, Named
<1>6. LastNamed(m.types, k) = ot
    BY <1>1, <1>2, UniqueNamed DEF Unique
<1> HIDE DEF ot, ou
<1>7. TwinType(ot, ou)
    BY <1>5, <1>6, ReviewableSays
<1>8. ot.members \in Seq(Members) /\ ou.members \in Seq(Members)
    BY <1>4, <1>5 DEF Types
<1>9. Repeated(ot.members) = {} /\ Repeated(ou.members) = {}
    BY <1>1, <1>4, <1>5 DEF Unique
<1>10. AlikeIns(ot.members, ou.members)
    BY <1>1, <1>4, <1>5 DEF AlikeInside, AlikeIns
<1> DEFINE s == ot.members
           t == ou.members
<1>11. MembersTwin(s, t)
    BY <1>7 DEF TwinType
<1>12. s \in Seq(Members) /\ t \in Seq(Members) /\ Repeated(s) = {} /\ Repeated(t) = {} /\ AlikeIns(s, t)
    BY <1>8, <1>9, <1>10
<1>13. AlikeLists(s, t) /\ {Shown(mem) : mem \in ToSet(s)} = {Shown(mem) : mem \in ToSet(t)}
    <2> HIDE DEF s, t
    <2> QED BY <1>11, <1>12, MembersAlike
<1>14. TypePair(ot, ou)
    BY <1>4, <1>5, <1>7, <1>13 DEF TwinType, TypePair
<1> QED BY <1>14 DEF ot, ou

LEMMA BuiltParts ==
    ASSUME NEW m \in Plain
    PROVE  /\ Built(m).catalog = Loaded({im.uri : im \in ToSet(m.imports)})
           /\ SameFile(m, Built(m)) /\ Built(m) \in Models /\ Built(m).catalog # {}
<1>1. \A cat : [m EXCEPT !.catalog = cat].catalog = cat
    BY DEF Plain, Models
<1>2. Built(m).catalog = Loaded({im.uri : im \in ToSet(m.imports)})
    BY <1>1 DEF Built, WithCatalog
<1> QED BY <1>2, BuiltHas, JudgedIsModel

LEMMA BuiltAlike ==
    ASSUME NEW m, NEW n, Reviewable(m, n)
    PROVE  AlikeModels(Built(m), Built(n))
<1> DEFINE B == Built(m)
           D == Built(n)
<1>1. m \in Plain /\ n \in Plain /\ Unique(m) /\ Unique(n) /\ ToSet(m.imports) = ToSet(n.imports)
    BY DEF Reviewable
<1>2. B \in Models /\ D \in Models /\ B.catalog # {} /\ SameFile(m, B) /\ SameFile(n, D)
    BY <1>1, BuiltParts
<1>3. B.catalog = D.catalog
    BY <1>1, BuiltParts
<1> HIDE DEF B, D
<1>4. m.imports \in Seq(Imports) /\ n.imports \in Seq(Imports)
    BY <1>1, PlainEdits
<1>5. Names(m.imports) = Names(n.imports)
    BY <1>1, <1>4, NamesOf
<1>6. \A a \in Names(m.imports) : FirstNamed(m.imports, a) = FirstNamed(n.imports, a)
    <2> TAKE a \in Names(m.imports)
    <2> DEFINE im == FirstNamed(m.imports, a)
    <2>1. im \in ToSet(n.imports) /\ im.name = a
        BY <1>1, <1>4, Named
    <2> HIDE DEF im
    <2>2. FirstNamed(n.imports, im.name) = im
        BY <1>1, <1>4, <2>1, UniqueNamed DEF Unique
    <2> QED BY <2>1, <2>2 DEF im
<1>7. Names(m.types) = Names(n.types) /\ Names(m.enums) = Names(n.enums)
    BY ReviewableSays
<1>8. \A k \in Names(m.types) :
        /\ FirstNamed(m.types, k).base = FirstNamed(n.types, k).base
        /\ AlikeLists(FirstNamed(m.types, k).members, FirstNamed(n.types, k).members)
    BY TypesPaired DEF TypePair
<1>9. /\ m.types = B.types /\ m.enums = B.enums /\ m.imports = B.imports
      /\ n.types = D.types /\ n.enums = D.enums /\ n.imports = D.imports
    BY <1>2 DEF SameFile
<1>10. AlikeModels(B, D)
    BY <1>2, <1>3, <1>5, <1>6, <1>7, <1>8, <1>9 DEF AlikeModels, SameDeclared
<1> QED BY <1>10 DEF B, D

(* The two declarations of an instance's name.                                *)
InstPair(i, j) ==
    /\ i.name = j.name /\ i.type = j.type /\ i.under = j.under
    /\ GivenValues(i.values) = GivenValues(j.values)
    /\ \A c \in ToSet(i.children) : \E e \in ToSet(j.children) : e.name = c.name /\ e.of = c.of
    /\ \A e \in ToSet(j.children) : \E c \in ToSet(i.children) : e.name = c.name /\ e.of = c.of

LEMMA InstancesPaired ==
    ASSUME NEW m, NEW n, Reviewable(m, n), NEW k \in Names(m.instances)
    PROVE  InstPair(FirstNamed(m.instances, k), FirstNamed(n.instances, k))
<1> DEFINE i == FirstNamed(m.instances, k)
           j == FirstNamed(n.instances, k)
           Rows == [name : STRING, of : STRING]
<1>1. m \in Plain /\ n \in Plain /\ Unique(m) /\ Unique(n) /\ AlikeInside(m, n)
    BY DEF Reviewable
<1>2. m.instances \in Seq(Instances) /\ n.instances \in Seq(Instances)
    BY <1>1, PlainEdits
<1>3. k \in Names(n.instances)
    BY ReviewableSays
<1>4. i \in ToSet(m.instances) /\ i \in Instances /\ i.name = k
    BY <1>2, Named
<1>5. j \in ToSet(n.instances) /\ j \in Instances /\ j.name = k
    BY <1>2, <1>3, Named
<1>6. LastNamed(m.instances, k) = i
    BY <1>1, <1>2, UniqueNamed DEF Unique
<1> HIDE DEF i, j
<1>7. TwinInstance(i, j)
    BY <1>5, <1>6, ReviewableSays
<1>8. i.values \in Seq(ValueRows) /\ j.values \in Seq(ValueRows)
    BY <1>4, <1>5 DEF Instances, ValueRows
<1>9. i.children \in Seq(Rows) /\ j.children \in Seq(Rows)
    BY <1>4, <1>5 DEF Instances
<1>10. Repeated(i.values) = {} /\ Repeated(j.values) = {}
    BY <1>1, <1>4, <1>5 DEF Unique
<1>11. \A c \in ToSet(i.children), e \in ToSet(j.children) : c.name = e.name => c.of = e.of
    BY <1>1, <1>4, <1>5 DEF AlikeInside
<1>12. GivenValues(i.values) = GivenValues(j.values)
    <2> DEFINE s == i.values
               t == j.values
    <2>1. ValuesTwin(s, t) /\ s \in Seq(ValueRows) /\ t \in Seq(ValueRows) /\ Repeated(s) = {} /\ Repeated(t) = {}
        BY <1>7, <1>8, <1>10 DEF TwinInstance
    <2> HIDE DEF s, t
    <2>2. GivenValues(s) = GivenValues(t)
        BY <2>1, ValuesAlike
    <2> QED BY <2>2 DEF s, t
<1>13. Names(i.children) = Names(j.children)
    BY <1>7 DEF TwinInstance
<1>14. /\ Names(i.children) = {c.name : c \in ToSet(i.children)}
       /\ Names(j.children) = {c.name : c \in ToSet(j.children)}
    BY <1>9, NamesOf
<1> DEFINE C == ToSet(i.children)
           E == ToSet(j.children)
<1>15. {c.name : c \in C} = {e.name : e \in E}
    BY <1>13, <1>14
<1>16. \A c \in C, e \in E : c.name = e.name => c.of = e.of
    BY <1>11
<1> HIDE DEF C, E
<1>17. ASSUME NEW c \in C PROVE \E e \in E : e.name = c.name /\ e.of = c.of
    <2>1. c.name \in {e.name : e \in E}
        BY <1>15
    <2>2. PICK e \in E : c.name = e.name
        BY <2>1
    <2> QED BY <1>16, <2>2
<1>18. ASSUME NEW e \in E PROVE \E c \in C : e.name = c.name /\ e.of = c.of
    <2>1. e.name \in {c.name : c \in C}
        BY <1>15
    <2>2. PICK c \in C : e.name = c.name
        BY <2>1
    <2> QED BY <1>16, <2>2
<1>19. \A c \in ToSet(i.children) : \E e \in ToSet(j.children) : e.name = c.name /\ e.of = c.of
    BY <1>17 DEF C, E
<1>20. \A e \in ToSet(j.children) : \E c \in ToSet(i.children) : e.name = c.name /\ e.of = c.of
    BY <1>18 DEF C, E
<1>21. i.name = j.name /\ i.type = j.type /\ i.under = j.under
    BY <1>4, <1>5, <1>7 DEF TwinInstance
<1>22. InstPair(i, j)
    BY <1>12, <1>19, <1>20, <1>21 DEF InstPair
<1> QED BY <1>22 DEF i, j

LEMMA TypeReviewed ==
    ASSUME NEW B, NEW D, AlikeModels(B, D), NEW ot, NEW ou, TypePair(ot, ou)
    PROVE  RevType(TypeOf(B, ot)) = RevType(TypeOf(D, ou))
<1> DEFINE t == TypeOf(B, ot)
           u == TypeOf(D, ou)
<1>1. t.name = ot.name /\ t.base = QName(B, ot.base) /\ t.abstract = ot.abstract /\ t.members = ot.members
    BY DesignRest
<1>2. u.name = ou.name /\ u.base = QName(D, ou.base) /\ u.abstract = ou.abstract /\ u.members = ou.members
    BY DesignRest
<1> HIDE DEF t, u
<1>3. QName(B, ot.base) = QName(D, ou.base)
    BY AlikeNames DEF TypePair
<1>4. {Shown(mem) : mem \in ToSet(t.members)} = {Shown(mem) : mem \in ToSet(u.members)}
    BY <1>1, <1>2 DEF TypePair
<1>5. t.name = u.name /\ t.base = u.base /\ t.abstract = u.abstract
    BY <1>1, <1>2, <1>3 DEF TypePair
<1>6. RevType(t) = RevType(u)
    BY <1>4, <1>5, Zenon DEF RevType
<1> QED BY <1>6 DEF t, u

NamesIn(rows) == {c.name : c \in rows}
Filled(inst, S) == {ch \in ToSet(inst.children) : ch.of \in Fillable(S)}

LEMMA FilledNames ==
    ASSUME NEW m, NEW inst, NEW S \in Seq(AllMembers)
    PROVE  NamesIn(DesignChildren(m, inst, S)) = NamesIn(Filled(inst, S))
<1>1. NamesIn(DesignChildren(m, inst, S)) = {c.name : c \in DesignChildren(m, inst, S)}
    BY Zenon DEF NamesIn
<1>2. NamesIn(Filled(inst, S)) = {ch.name : ch \in {ch \in ToSet(inst.children) : ch.of \in Fillable(S)}}
    BY Zenon DEF NamesIn, Filled
<1>3. {c.name : c \in DesignChildren(m, inst, S)}
      = {ch.name : ch \in {ch \in ToSet(inst.children) : ch.of \in Fillable(S)}}
    BY ChildNames
<1> QED BY <1>1, <1>2, <1>3, Zenon

LEMMA InstReviewed ==
    ASSUME NEW B, NEW D, AlikeModels(B, D), NEW i, NEW j, InstPair(i, j)
    PROVE  RevInst(NodeOf(B, i)) = RevInst(NodeOf(D, j))
<1> DEFINE S == LocalMembers(B, i.type)
           T == LocalMembers(D, j.type)
           x == NodeOf(B, i)
           y == NodeOf(D, j)
<1>1. /\ x.name = i.name /\ x.type = QName(B, i.type) /\ x.under = InstanceTarget(B, i.under)
      /\ x.overrides = LevelOverride(B, i) \cup ValueOverrides(B, i, S)
      /\ x.children = DesignChildren(B, i, S)
    BY DesignInstances
<1>2. /\ y.name = j.name /\ y.type = QName(D, j.type) /\ y.under = InstanceTarget(D, j.under)
      /\ y.overrides = LevelOverride(D, j) \cup ValueOverrides(D, j, T)
      /\ y.children = DesignChildren(D, j, T)
    BY DesignInstances
<1>3. B \in Models /\ D \in Models
    BY DEF AlikeModels
<1>4. i.name = j.name /\ i.type = j.type /\ i.under = j.under
    BY DEF InstPair
<1>5. AlikeLists(S, T)
    BY <1>4, AlikeLocal
<1>6. S \in Seq(AllMembers) /\ T \in Seq(AllMembers)
    BY <1>3, LocalMembersAre
<1>7. /\ \A e \in ToSet(S) : e.name \in Names(S) /\ FirstNamed(S, e.name) = e
      /\ \A e \in ToSet(T) : e.name \in Names(T) /\ FirstNamed(T, e.name) = e
    BY <1>3, LocalUnique
<1> HIDE DEF S, T, x, y
<1>8. AlikeLists(T, S)
    BY <1>5 DEF AlikeLists, Alike
<1>9. Fillable(S) = Fillable(T)
    BY <1>5, <1>6, <1>7, <1>8, FillableSame
<1>10. NamesIn(x.children) = NamesIn(y.children)
    <2>1. NamesIn(DesignChildren(B, i, S)) = NamesIn(Filled(i, S))
        BY <1>6, FilledNames
    <2>2. NamesIn(DesignChildren(D, j, T)) = NamesIn(Filled(j, T))
        BY <1>6, FilledNames
    <2> DEFINE P == Filled(i, S)
               Q == Filled(j, T)
    <2>3. (\A c \in P : \E e \in Q : e.name = c.name) /\ \A e \in Q : \E c \in P : e.name = c.name
        BY <1>9 DEF InstPair, Filled
    <2> HIDE DEF P, Q
    <2>4. NamesIn(P) = NamesIn(Q)
        BY <2>3 DEF NamesIn
    <2> QED BY <1>1, <1>2, <2>1, <2>2, <2>4 DEF P, Q
<1>11. Pairs(x.overrides) = Pairs(y.overrides)
    <2> DEFINE P(r, R) == {v \in GivenValues(r.values) : v.name \in Names(R) /\ v.name # "EquipmentLevel"}
    <2>1. Pairs(x.overrides) = {<<v.name, v.raw>> : v \in P(i, S)}
        BY <1>1, PairsAre
    <2>2. Pairs(y.overrides) = {<<v.name, v.raw>> : v \in P(j, T)}
        BY <1>2, PairsAre
    <2>3. P(i, S) = P(j, T)
        BY <1>5 DEF InstPair, AlikeLists
    <2> HIDE DEF P
    <2> QED BY <2>1, <2>2, <2>3
<1>12. x.name = y.name /\ x.type = y.type /\ x.under = y.under
    BY <1>1, <1>2, <1>4, AlikeNames
<1>13. RevInst(x) = RevInst(y)
    BY <1>10, <1>11, <1>12, Zenon DEF RevInst, NamesIn
<1> QED BY <1>13 DEF x, y

LEMMA ReviewedIs ==
    ASSUME NEW d
    PROVE  Reviewed(d) = [header |-> <<d.header.ns, d.header.version>>, enums |-> d.enums,
                          types |-> {RevType(t) : t \in d.types}, instances |-> {RevInst(x) : x \in d.instances}]
    BY Zenon DEF Reviewed, RevType, RevInst, Shown, Pairs

LEMMA DesignsAlike ==
    ASSUME NEW m, NEW n, Reviewable(m, n)
    PROVE  Reviewed(Design(Built(m))) = Reviewed(Design(Built(n)))
<1> DEFINE B == Built(m)
           D == Built(n)
           b == Design(B)
           d == Design(D)
<1>1. m \in Plain /\ n \in Plain /\ Unique(m) /\ Unique(n)
    BY DEF Reviewable
<1>2. AlikeModels(B, D)
    BY BuiltAlike
<1>3. SameFile(m, B) /\ SameFile(n, D)
    BY <1>1, BuiltParts
<1> HIDE DEF B, D
<1>4. /\ m.types \in Seq(Types) /\ m.enums \in Seq(Enums) /\ m.instances \in Seq(Instances)
      /\ n.types \in Seq(Types) /\ n.enums \in Seq(Enums) /\ n.instances \in Seq(Instances)
    BY <1>1, PlainEdits
<1>5. b.header = m.header /\ d.header = n.header
    BY <1>3, DesignRest DEF SameFile
<1>6. /\ b.enums = {[name |-> e.name, values |-> e.values] : e \in ToSet(m.enums)}
      /\ d.enums = {[name |-> e.name, values |-> e.values] : e \in ToSet(n.enums)}
      /\ b.types = {TypeOf(B, ot) : ot \in ToSet(m.types)}
      /\ d.types = {TypeOf(D, ot) : ot \in ToSet(n.types)}
    BY <1>3, DesignRest DEF SameFile
<1>7. /\ b.instances = {NodeOf(B, inst) : inst \in ToSet(m.instances)}
      /\ d.instances = {NodeOf(D, inst) : inst \in ToSet(n.instances)}
    BY <1>3, DesignInstances DEF SameFile
<1> HIDE DEF b, d
<1>8. ASSUME NEW S, NEW s \in Seq(S), Repeated(s) = {} PROVE ToSet(s) = {FirstNamed(s, k) : k \in Names(s)}
    <2>1. \A x \in ToSet(s) : x.name \in Names(s) /\ FirstNamed(s, x.name) = x
        BY <1>8, NamesOf, UniqueNamed
    <2>2. \A k \in Names(s) : FirstNamed(s, k) \in ToSet(s)
        BY Named
    <2> QED BY <2>1, <2>2
<1>9. /\ Names(m.types) = Names(n.types) /\ Names(m.enums) = Names(n.enums)
      /\ Names(m.instances) = Names(n.instances)
    BY ReviewableSays
<1>10. b.enums = d.enums
    <2> DEFINE x(k) == FirstNamed(m.enums, k)
               y(k) == FirstNamed(n.enums, k)
               N == Names(m.enums)
               row(e) == [name |-> e.name, values |-> e.values]
    <2>1. ToSet(m.enums) = {x(k) : k \in N} /\ ToSet(n.enums) = {y(k) : k \in N}
        BY <1>1, <1>4, <1>8, <1>9 DEF Unique
    <2>2. \A k \in N : x(k).name = k
        BY <1>4, Named
    <2>3. \A k \in N : y(k).name = k /\ y(k) \in ToSet(n.enums)
        BY <1>4, <1>9, Named
    <2>4. Repeated(m.enums) = {}
        BY <1>1 DEF Unique
    <2>5. \A k \in N : LastNamed(m.enums, k) = x(k)
        BY <1>4, <2>4, UniqueNamed
    <2>6. \A k \in N : x(k).name = k /\ y(k).name = k /\ y(k) \in ToSet(n.enums) /\ LastNamed(m.enums, k) = x(k)
        BY <2>2, <2>3, <2>5
    <2> HIDE DEF x, y
    <2>7. \A k \in N : x(k).values = y(k).values
        BY <2>6, ReviewableSays
    <2>8. \A k \in N : row(x(k)) = row(y(k))
        BY <2>6, <2>7
    <2> HIDE DEF row, N
    <2>9. {row(e) : e \in ToSet(m.enums)} = {row(e) : e \in ToSet(n.enums)}
        BY <2>1, <2>8
    <2> QED BY <1>6, <2>9 DEF row
<1>11. {RevType(t) : t \in b.types} = {RevType(t) : t \in d.types}
    <2> DEFINE x(k) == FirstNamed(m.types, k)
               y(k) == FirstNamed(n.types, k)
               N == Names(m.types)
    <2>1. ToSet(m.types) = {x(k) : k \in N} /\ ToSet(n.types) = {y(k) : k \in N}
        BY <1>1, <1>4, <1>8, <1>9 DEF Unique
    <2>2. \A k \in N : TypePair(x(k), y(k))
        BY TypesPaired
    <2> HIDE DEF x, y, N
    <2>3. \A k \in N : RevType(TypeOf(B, x(k))) = RevType(TypeOf(D, y(k)))
        BY <1>2, <2>2, TypeReviewed
    <2> DEFINE p(k) == TypeOf(B, x(k))
               q(k) == TypeOf(D, y(k))
    <2>4. b.types = {p(k) : k \in N} /\ d.types = {q(k) : k \in N}
        BY <1>6, <2>1
    <2>5. \A k \in N : RevType(p(k)) = RevType(q(k))
        BY <2>3
    <2> HIDE DEF p, q
    <2> QED BY <2>4, <2>5
<1>12. {RevInst(t) : t \in b.instances} = {RevInst(t) : t \in d.instances}
    <2> DEFINE x(k) == FirstNamed(m.instances, k)
               y(k) == FirstNamed(n.instances, k)
               N == Names(m.instances)
    <2>1. ToSet(m.instances) = {x(k) : k \in N} /\ ToSet(n.instances) = {y(k) : k \in N}
        BY <1>1, <1>4, <1>8, <1>9 DEF Unique
    <2>2. \A k \in N : InstPair(x(k), y(k))
        BY InstancesPaired
    <2> HIDE DEF x, y, N
    <2>3. \A k \in N : RevInst(NodeOf(B, x(k))) = RevInst(NodeOf(D, y(k)))
        BY <1>2, <2>2, InstReviewed
    <2> DEFINE p(k) == NodeOf(B, x(k))
               q(k) == NodeOf(D, y(k))
    <2>4. b.instances = {p(k) : k \in N} /\ d.instances = {q(k) : k \in N}
        BY <1>7, <2>1
    <2>5. \A k \in N : RevInst(p(k)) = RevInst(q(k))
        BY <2>3
    <2> HIDE DEF p, q
    <2> QED BY <2>4, <2>5
<1>13. <<b.header.ns, b.header.version>> = <<d.header.ns, d.header.version>>
    BY <1>5, ReviewableSays
<1>14. Reviewed(b) = Reviewed(d)
    BY <1>10, <1>11, <1>12, <1>13, ReviewedIs, Zenon
<1> QED BY <1>14 DEF b, d, B, D

(* A draft without changes to review builds what the base builds              *)
(* (semdiff/semdiff.go against modeldesign/emit.go).                          *)
THEOREM NothingIsHidden == Spec => []DiffHonest
<1>1. TypeOK => DiffHonest
    <2> SUFFICES ASSUME TypeOK, Unique(base), Unique(draft), ToSet(base.imports) = ToSet(draft.imports),
                        AlikeInside(base, draft), Diff(base, draft) = {}
                 PROVE  Reviewed(Design(Built(base))) = Reviewed(Design(Built(draft)))
        BY DEF DiffHonest
    <2>1. base \in Plain /\ draft \in Plain
        BY DEF TypeOK, Plain
    <2>2. Reviewable(base, draft)
        BY <2>1 DEF Reviewable
    <2> QED BY <2>2, DesignsAlike
<1> QED BY <1>1, ModelTypes, PTL

===============================================================================
