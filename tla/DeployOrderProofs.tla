--------------------------- MODULE DeployOrderProofs ---------------------------
(***************************************************************************)
(* What is proved of DEPLOY.sql and of the plan a deploy walks, for any     *)
(* builds, exported trees and number of hand edits: the types, every safety *)
(* invariant and every action property of DeployOrder.  The folder's own    *)
(* invariant is little more than its types; the argument is in what the     *)
(* operators return:                                                        *)
(*   - a finite set ranked by a strict total order is a sequence of that    *)
(*     set in that order (RankedInOrder: the default order, the kept lines  *)
(*     and the places of a plan),                                           *)
(*   - an invariant of the merge's walk (MergeInv, EmitStep, MergeStep),    *)
(*     carried along the walk as the set of steps it holds at (Reaches),    *)
(*   - a plan is its places in order (PlanOrdered), and Place puts an       *)
(*     import right behind its application's last opener (ImportBetween).   *)
(***************************************************************************)
EXTENDS DeployOrder, FiniteSetTheorems, WellFoundedInduction, SequenceTheorems, TLAPS

-----------------------------------------------------------------------------
(* A set of natural numbers that has 0 and the successor of each of its
   elements below n has every number up to n.                                 *)
LEMMA Reaches ==
    ASSUME NEW n \in Nat, NEW P \in SUBSET (0..n), 0 \in P,
           \A i \in P : i < n => i + 1 \in P
    PROVE  P = 0..n
<1>1. SUFFICES ASSUME (0..n) \ P # {} PROVE FALSE
  OBVIOUS
<1>2. PICK x \in (0..n) \ P : \A y \in (0..n) \ P : ~(<<y, x>> \in OpToRel(<, Nat))
  <2>1. (0..n) \ P \subseteq Nat
    OBVIOUS
  <2>2. QED
    BY <1>1, <2>1, WFMin, NatLessThanWellFounded, Zenon
<1>3. x # 0 /\ x - 1 \in 0..n /\ x - 1 < x /\ x \in Nat /\ x - 1 \in Nat
  OBVIOUS
<1>4. x - 1 \in P
  BY <1>2, <1>3 DEF OpToRel
<1>5. QED
  BY <1>3, <1>4

(* A walk over 0..n: its first value, and each later one from the one before.  *)
IsWalk(w, n, V, x0, F) ==
    w \in [0..n -> V] /\ w[0] = x0 /\ \A i \in 1..n : w[i] = F[<<i, w[i - 1]>>]
StepOf(F, n, V) == F \in [(1..n) \X V -> V]

(* What a recursive function over 0..n takes for granted: there is one.        *)
LEMMA WalkExists ==
    ASSUME NEW n \in Nat, NEW V, NEW x0 \in V, NEW F, StepOf(F, n, V)
    PROVE  \E w : IsWalk(w, n, V, x0, F)
<1> USE DEF IsWalk, StepOf
<1> DEFINE P == {m \in 0..n : \E w \in [0..m -> V] :
                     w[0] = x0 /\ \A i \in 1..m : w[i] = F[<<i, w[i - 1]>>]}
<1>1. 0 \in P
  <2> DEFINE v == [k \in 0..0 |-> x0]
  <2>1. v \in [0..0 -> V] /\ v[0] = x0
    OBVIOUS
  <2>2. \A i \in 1..0 : v[i] = F[<<i, v[i - 1]>>]
    OBVIOUS
  <2> HIDE DEF v
  <2>3. QED
    BY <2>1, <2>2
<1>2. ASSUME NEW m \in P, m < n PROVE m + 1 \in P
  <2>1. PICK w \in [0..m -> V] : w[0] = x0 /\ \A i \in 1..m : w[i] = F[<<i, w[i - 1]>>]
    OBVIOUS
  <2> DEFINE v == [k \in 0..(m + 1) |-> IF k = m + 1 THEN F[<<m + 1, w[m]>>] ELSE w[k]]
  <2>2. w[m] \in V /\ m + 1 \in 1..n /\ m + 1 \in 0..n
    BY <1>2
  <2>3. <<m + 1, w[m]>> \in (1..n) \X V
    BY <2>2
  <2>4. F[<<m + 1, w[m]>>] \in V
    BY <2>3
  <2>5. v \in [0..(m + 1) -> V]
    BY <2>4
  <2>6. v[0] = x0
    BY <2>1, <1>2
  <2>7. ASSUME NEW i \in 1..(m + 1) PROVE v[i] = F[<<i, v[i - 1]>>]
    <3>1. CASE i = m + 1
      <4>1. m + 1 \in 0..(m + 1) /\ m \in 0..(m + 1) /\ m # m + 1 /\ (m + 1) - 1 = m
        BY <1>2
      <4>2. v[m + 1] = F[<<m + 1, w[m]>>] /\ v[m] = w[m]
        BY <4>1
      <4>3. QED
        BY <3>1, <4>1, <4>2
    <3>2. CASE i # m + 1
      <4>1. i \in 1..m /\ i \in 0..(m + 1) /\ i - 1 \in 0..m /\ i - 1 \in 0..(m + 1) /\ i - 1 # m + 1
        BY <3>2, <1>2
      <4>2. v[i] = w[i] /\ v[i - 1] = w[i - 1]
        BY <4>1, <3>2
      <4>3. QED
        BY <4>1, <4>2, <2>1
    <3>3. QED
      BY <3>1, <3>2
  <2>8. QED
    BY <2>2, <2>5, <2>6, <2>7
<1>3. P = 0..n
  <2>1. P \in SUBSET (0..n)
    OBVIOUS
  <2> HIDE DEF P
  <2>2. QED
    BY <1>1, <1>2, <2>1, Reaches
<1>4. n \in P
  BY <1>3
<1>5. QED
  BY <1>4

(* A nonempty finite set of numbers has a last one: what Max chooses.         *)
LEMMA MaxOf ==
    ASSUME NEW n \in Nat, NEW S \in SUBSET (0..n), S # {}
    PROVE  Max(S) \in S /\ \A y \in S : Max(S) >= y
<1> DEFINE P == {m \in 0..n : \A y \in S : n - m >= y}
<1>1. SUFFICES \E x \in S : \A y \in S : x >= y
  BY DEF Max
<1>2. SUFFICES ASSUME \A x \in S : \E y \in S : ~(x >= y) PROVE FALSE
  OBVIOUS
<1>3. 0 \in P
  OBVIOUS
<1>4. ASSUME NEW m \in P, m < n PROVE m + 1 \in P
  <2>1. n - m \notin S
    BY <1>2
  <2>2. m \in Nat /\ n - m \in Nat /\ m + 1 \in 0..n
    BY <1>4
  <2>3. ASSUME NEW y \in S PROVE n - (m + 1) >= y
    <3>1. y \in Nat /\ n - m >= y /\ y # n - m
      BY <2>1, <2>2, <1>4
    <3>2. QED
      BY <3>1, <2>2
  <2>4. QED
    BY <2>2, <2>3
<1>5. P = 0..n
  <2>1. P \in SUBSET (0..n)
    OBVIOUS
  <2> HIDE DEF P
  <2>2. QED
    BY <1>3, <1>4, <2>1, Reaches
<1>6. \A y \in S : 0 >= y
  <2>1. n \in P
    BY <1>5
  <2>2. QED
    BY <2>1
<1>7. \A y \in S : y = 0
  BY <1>6
<1>8. PICK x \in S : TRUE
  OBVIOUS
<1>9. QED
  BY <1>2, <1>6, <1>7, <1>8

-----------------------------------------------------------------------------
(* Ranked: a finite set numbered by how many of it are ahead of each, under a
   strict total order, is a sequence of that set in that order.               *)
LEMMA RankedInOrder ==
    ASSUME NEW S, IsFiniteSet(S), NEW ahead \in [S -> SUBSET S],
           \A s \in S : s \notin ahead[s],
           \A s, t \in S : s \in ahead[t] => ahead[s] \subseteq ahead[t],
           \A s, t \in S : s # t => s \in ahead[t] \/ t \in ahead[s],
           NEW N, \A p : p \in N <=> \E s \in S : p = <<s, Cardinality(ahead[s])>>,
           NEW seq, seq = Ranked(N)
    PROVE  /\ Cardinality(S) \in Nat
           /\ seq \in [1..Cardinality(S) -> S]
           /\ \A s \in S : \E k \in 1..Cardinality(S) : seq[k] = s
           /\ \A i, j \in 1..Cardinality(S) : i < j <=> seq[i] \in ahead[seq[j]]
<1> DEFINE n == Cardinality(S)
           r == [s \in S |-> Cardinality(ahead[s])]
           T == 0..(n - 1)
<1>1. n \in Nat
  BY FS_CardinalityType
<1>2. ASSUME NEW s \in S PROVE r[s] \in T /\ IsFiniteSet(ahead[s])
  <2>1. ahead[s] \in SUBSET S /\ ahead[s] # S
    OBVIOUS
  <2>2. /\ IsFiniteSet(ahead[s]) /\ Cardinality(ahead[s]) <= n
        /\ n = Cardinality(ahead[s]) => S = ahead[s]
    BY <2>1, FS_Subset
  <2>3. Cardinality(ahead[s]) \in Nat
    BY <2>2, FS_CardinalityType
  <2>4. QED
    BY <2>1, <2>2, <2>3, <1>1
<1>3. ASSUME NEW s \in S, NEW t \in S, s \in ahead[t] PROVE r[s] < r[t]
  <2>1. ahead[s] \in SUBSET ahead[t] /\ ahead[s] # ahead[t]
    BY <1>3
  <2>2. /\ Cardinality(ahead[s]) <= Cardinality(ahead[t])
        /\ Cardinality(ahead[t]) = Cardinality(ahead[s]) => ahead[t] = ahead[s]
    BY <2>1, <1>2, FS_Subset
  <2>3. r[s] \in Int /\ r[t] \in Int
    BY <1>1, <1>2
  <2>4. QED
    BY <2>1, <2>2, <2>3
<1>4. \A s, t \in S : r[s] = r[t] => s = t
  <2>1. SUFFICES ASSUME NEW s \in S, NEW t \in S, r[s] = r[t], s # t PROVE FALSE
    OBVIOUS
  <2>2. r[s] \in Int /\ r[t] \in Int
    BY <1>1, <1>2
  <2>3. r[s] < r[t] \/ r[t] < r[s]
    BY <2>1, <1>3
  <2>4. QED
    BY <2>1, <2>2, <2>3
<1>5. r \in Injection(S, T)
  <2>1. r \in [S -> T]
    BY <1>2
  <2> HIDE DEF r
  <2>2. QED
    BY <2>1, <1>4 DEF Injection, IsInjective
<1>6. r \in Surjection(S, T)
  <2>1. IsFiniteSet(T) /\ Cardinality(T) = n
    <3> HIDE DEF n
    <3>1. n - 1 \in Int /\ 0 \in Int
      BY <1>1
    <3>2. IsFiniteSet(0..(n - 1)) /\ Cardinality(0..(n - 1)) = IF 0 > n - 1 THEN 0 ELSE (n - 1) - 0 + 1
      BY <3>1, FS_Interval
    <3>3. QED
      BY <1>1, <3>2
  <2>2. QED
    BY <2>1, <1>5, FS_Injection, Zenon
<1>7. Cardinality(N) = n
  <2> DEFINE f == [s \in S |-> <<s, Cardinality(ahead[s])>>]
  <2>1. f \in [S -> N]
    OBVIOUS
  <2>2. \A s, t \in S : f[s] = f[t] => s = t
    OBVIOUS
  <2>3. \A p \in N : \E s \in S : f[s] = p
    OBVIOUS
  <2> HIDE DEF f
  <2>4. f \in Bijection(S, N)
    BY <2>1, <2>2, <2>3 DEF Bijection, Injection, Surjection, IsInjective
  <2>5. QED
    BY <2>4, FS_Bijection DEF ExistsBijection
<1>8. seq = [k \in 1..n |-> (CHOOSE p \in N : p[2] = k - 1)[1]]
  BY <1>7 DEF Ranked
<1>9. ASSUME NEW k \in 1..n PROVE seq[k] \in S /\ r[seq[k]] = k - 1
  <2>1. k - 1 \in T
    BY <1>1
  <2>2. PICK s \in S : r[s] = k - 1
    BY <2>1, <1>6 DEF Surjection
  <2>3. <<s, Cardinality(ahead[s])>> \in N /\ <<s, Cardinality(ahead[s])>>[2] = k - 1
    BY <2>2
  <2>4. PICK p : p = (CHOOSE q \in N : q[2] = k - 1)
    OBVIOUS
  <2>5. p \in N /\ p[2] = k - 1
    BY <2>3, <2>4
  <2>6. PICK t \in S : p = <<t, Cardinality(ahead[t])>>
    BY <2>5
  <2>7. seq[k] = t
    BY <1>8, <2>4, <2>6
  <2>8. QED
    BY <2>5, <2>6, <2>7
<1>10. ASSUME NEW s \in S PROVE \E k \in 1..n : seq[k] = s
  <2>1. r[s] + 1 \in 1..n /\ (r[s] + 1) - 1 = r[s]
    BY <1>1, <1>2
  <2>2. seq[r[s] + 1] \in S /\ r[seq[r[s] + 1]] = r[s]
    BY <2>1, <1>9
  <2>3. QED
    BY <2>1, <2>2, <1>4
<1>11. ASSUME NEW i \in 1..n, NEW j \in 1..n PROVE i < j <=> seq[i] \in ahead[seq[j]]
  <2>1. /\ seq[i] \in S /\ seq[j] \in S
        /\ r[seq[i]] = i - 1 /\ r[seq[j]] = j - 1
    BY <1>9
  <2>2. i \in Int /\ j \in Int
    OBVIOUS
  <2>3. ASSUME seq[i] \in ahead[seq[j]] PROVE i < j
    BY <2>1, <2>2, <2>3, <1>3
  <2>4. ASSUME i < j PROVE seq[i] \in ahead[seq[j]]
    <3>1. seq[i] # seq[j]
      BY <2>1, <2>2, <2>4
    <3>2. ~(seq[j] \in ahead[seq[i]])
      BY <2>1, <2>2, <2>4, <1>3
    <3>3. QED
      BY <2>1, <3>1, <3>2
  <2>5. QED
    BY <2>3, <2>4
<1>12. seq \in [1..n -> S]
  <2>1. DOMAIN seq = 1..n /\ seq = [k \in 1..n |-> seq[k]]
    BY <1>8
  <2>2. QED
    BY <2>1, <1>9
<1>13. QED
  BY <1>1, <1>10, <1>11, <1>12

-----------------------------------------------------------------------------
(* The default order.  A key is four numbers, compared one after the other.   *)
LEMMA KeyParts ==
    ASSUME NEW s \in InstallScripts
    PROVE  /\ Key(s)[1] = (IF s.app = Schema THEN 0 ELSE 1) /\ Key(s)[2] = s.schema
           /\ Key(s)[3] = s.app /\ Key(s)[4] = StageRank[s.stage]
           /\ \A i \in 1..4 : Key(s)[i] \in Nat
<1>1. s.schema \in Nat /\ s.app \in Nat /\ s.stage \in Stages
  BY DEF InstallScripts
<1>2. StageRank[s.stage] \in Nat
  BY <1>1 DEF Stages, StageRank
<1>3. /\ Key(s)[1] = (IF s.app = Schema THEN 0 ELSE 1) /\ Key(s)[2] = s.schema
      /\ Key(s)[3] = s.app /\ Key(s)[4] = StageRank[s.stage]
  BY DEF Key
<1>4. 1..4 = {1, 2, 3, 4}
  OBVIOUS
<1>5. QED
  BY <1>1, <1>2, <1>3, <1>4

(* One key comes before another: the first number they differ in is smaller.   *)
LEMMA BeforeIs ==
    ASSUME NEW s \in InstallScripts, NEW t \in InstallScripts
    PROVE  RunsBefore(s, t) <=>
              \/ Key(s)[1] < Key(t)[1]
              \/ Key(s)[1] = Key(t)[1] /\ Key(s)[2] < Key(t)[2]
              \/ Key(s)[1] = Key(t)[1] /\ Key(s)[2] = Key(t)[2] /\ Key(s)[3] < Key(t)[3]
              \/ Key(s)[1] = Key(t)[1] /\ Key(s)[2] = Key(t)[2] /\ Key(s)[3] = Key(t)[3]
                 /\ Key(s)[4] < Key(t)[4]
<1> DEFINE At(i) == Key(s)[i] < Key(t)[i] /\ \A j \in 1..(i - 1) : Key(s)[j] = Key(t)[j]
<1>1. 1..4 = {1, 2, 3, 4}
  OBVIOUS
<1>2. RunsBefore(s, t) <=> At(1) \/ At(2) \/ At(3) \/ At(4)
  BY <1>1 DEF RunsBefore
<1>3. At(1) <=> Key(s)[1] < Key(t)[1]
  <2>1. 1..(1 - 1) = {}
    OBVIOUS
  <2>2. QED
    BY <2>1
<1>4. At(2) <=> Key(s)[1] = Key(t)[1] /\ Key(s)[2] < Key(t)[2]
  <2>1. 1..(2 - 1) = {1}
    OBVIOUS
  <2>2. QED
    BY <2>1
<1>5. At(3) <=> Key(s)[1] = Key(t)[1] /\ Key(s)[2] = Key(t)[2] /\ Key(s)[3] < Key(t)[3]
  <2>1. 1..(3 - 1) = {1, 2}
    OBVIOUS
  <2>2. QED
    BY <2>1
<1>6. At(4) <=> /\ Key(s)[1] = Key(t)[1] /\ Key(s)[2] = Key(t)[2] /\ Key(s)[3] = Key(t)[3]
                /\ Key(s)[4] < Key(t)[4]
  <2>1. 1..(4 - 1) = {1, 2, 3}
    OBVIOUS
  <2>2. QED
    BY <2>1
<1> HIDE DEF At
<1>7. QED
  BY <1>2, <1>3, <1>4, <1>5, <1>6

(* It is a strict order, and total: no two scripts share a key.               *)
LEMMA BeforeIsTotal ==
    /\ \A s \in InstallScripts : ~RunsBefore(s, s)
    /\ \A s, t, u \in InstallScripts : RunsBefore(s, t) /\ RunsBefore(t, u) => RunsBefore(s, u)
    /\ \A s, t \in InstallScripts : s # t => RunsBefore(s, t) \/ RunsBefore(t, s)
<1> DEFINE Num(s) == /\ Key(s)[1] \in Nat /\ Key(s)[2] \in Nat
                     /\ Key(s)[3] \in Nat /\ Key(s)[4] \in Nat
<1>1. \A s \in InstallScripts : Num(s)
  BY KeyParts
<1>2. ASSUME NEW s \in InstallScripts PROVE ~RunsBefore(s, s)
  BY <1>1, <1>2, BeforeIs
<1>3. ASSUME NEW s \in InstallScripts, NEW t \in InstallScripts, NEW u \in InstallScripts,
             RunsBefore(s, t), RunsBefore(t, u)
      PROVE  RunsBefore(s, u)
  <2>1. Num(s) /\ Num(t) /\ Num(u)
    BY <1>1
  <2>2. QED
    BY <2>1, <1>3, BeforeIs
<1>4. ASSUME NEW s \in InstallScripts, NEW t \in InstallScripts, s # t
      PROVE  RunsBefore(s, t) \/ RunsBefore(t, s)
  <2>1. Num(s) /\ Num(t)
    BY <1>1
  <2>2. SUFFICES ASSUME \A i \in 1..4 : Key(s)[i] = Key(t)[i] PROVE FALSE
    BY <2>1, BeforeIs
  <2>3. s.schema = t.schema /\ s.app = t.app /\ StageRank[s.stage] = StageRank[t.stage]
    <3>1. 2 \in 1..4 /\ 3 \in 1..4 /\ 4 \in 1..4
      OBVIOUS
    <3>2. QED
      BY <2>2, <3>1, KeyParts
  <2>4. s.stage = t.stage
    <3>1. s.stage \in Stages /\ t.stage \in Stages
      BY DEF InstallScripts
    <3>2. QED
      BY <2>3, <3>1 DEF Stages, StageRank
  <2>5. QED
    BY <2>3, <2>4, <1>4 DEF InstallScripts
<1>5. QED
  BY <1>2, <1>3, <1>4

(* The default order names every script of the set once, in that order.       *)
LEMMA DefaultOrdered ==
    ASSUME NEW S \in SUBSET InstallScripts, IsFiniteSet(S)
    PROVE  /\ DefaultOrder(S) \in Seq(S) /\ Len(DefaultOrder(S)) = Cardinality(S)
           /\ DOMAIN DefaultOrder(S) = 1..Cardinality(S) /\ Cardinality(S) \in Nat
           /\ \A s \in S : \E k \in DOMAIN DefaultOrder(S) : DefaultOrder(S)[k] = s
           /\ \A i, j \in DOMAIN DefaultOrder(S) :
                 i < j <=> RunsBefore(DefaultOrder(S)[i], DefaultOrder(S)[j])
<1> DEFINE ahead == [s \in S |-> {t \in S : RunsBefore(t, s)}]
           N == {<<s, Cardinality({t \in S : RunsBefore(t, s)})>> : s \in S}
           seq == DefaultOrder(S)
           n == Cardinality(S)
<1>1. \A p : p \in N <=> \E s \in S : p = <<s, Cardinality(ahead[s])>>
  OBVIOUS
<1>2. seq = Ranked(N)
  BY DEF DefaultOrder
<1>3. ahead \in [S -> SUBSET S]
  OBVIOUS
<1>4. \A s, t \in S : s \in ahead[t] <=> RunsBefore(s, t)
  OBVIOUS
<1> HIDE DEF ahead, seq, N
<1>5. \A s \in S : s \notin ahead[s]
  BY <1>4, BeforeIsTotal
<1>6. \A s, t \in S : s \in ahead[t] => ahead[s] \subseteq ahead[t]
  BY <1>3, <1>4, BeforeIsTotal
<1>7. \A s, t \in S : s # t => s \in ahead[t] \/ t \in ahead[s]
  BY <1>4, BeforeIsTotal
<1>8. /\ n \in Nat /\ seq \in [1..n -> S]
      /\ \A s \in S : \E k \in 1..n : seq[k] = s
      /\ \A i, j \in 1..n : i < j <=> seq[i] \in ahead[seq[j]]
  BY <1>1, <1>2, <1>3, <1>5, <1>6, <1>7, RankedInOrder
<1>9. seq \in Seq(S) /\ Len(seq) = n /\ DOMAIN seq = 1..n
  BY <1>8
<1>10. QED
  BY <1>4, <1>8, <1>9 DEF seq

-----------------------------------------------------------------------------
(* A nonempty set of numbers has a first one: what Min chooses.               *)
LEMMA MinOf ==
    ASSUME NEW S \in SUBSET Nat, S # {}
    PROVE  Min(S) \in S /\ \A y \in S : Min(S) <= y
<1>1. PICK x \in S : \A y \in S : ~(<<y, x>> \in OpToRel(<, Nat))
  BY WFMin, NatLessThanWellFounded, Zenon
<1>2. \A y \in S : x <= y
  <2>1. ASSUME NEW y \in S PROVE x <= y
    <3>1. <<y, x>> \notin OpToRel(<, Nat) /\ x \in Nat /\ y \in Nat
      BY <1>1
    <3>2. QED
      BY <3>1 DEF OpToRel
  <2>2. QED
    BY <2>1
<1>3. QED
  BY <1>2 DEF Min

(* A sequence in that order names no script twice.                            *)
LEMMA Distinct ==
    ASSUME NEW S \in SUBSET InstallScripts, NEW D \in Seq(S),
           \A i, j \in DOMAIN D : i < j <=> RunsBefore(D[i], D[j])
    PROVE  \A i, j \in DOMAIN D : D[i] = D[j] => i = j
<1>1. SUFFICES ASSUME NEW i \in DOMAIN D, NEW j \in DOMAIN D, D[i] = D[j] PROVE i = j
  OBVIOUS
<1>2. D[i] \in InstallScripts /\ i \in Nat /\ j \in Nat
  OBVIOUS
<1>3. ~(i < j) /\ ~(j < i)
  BY <1>1, <1>2, BeforeIsTotal
<1>4. QED
  BY <1>2, <1>3

(* What a re-create keeps of the lines of DEPLOY.sql: each line of a script
   still generated once, in the order of their first lines.                   *)
LEMMA KeptOrdered ==
    ASSUME NEW L, NEW lines \in Seq(L), NEW S
    PROVE  /\ Kept(lines, S) \in Seq(S) /\ DOMAIN Kept(lines, S) = 1..Len(Kept(lines, S))
           /\ Len(Kept(lines, S)) \in Nat
           /\ \A i, j \in DOMAIN Kept(lines, S) : Kept(lines, S)[i] = Kept(lines, S)[j] => i = j
           /\ \A s \in S : s \in ToSet(Kept(lines, S)) <=> s \in ToSet(lines)
           /\ \A i, j \in DOMAIN Kept(lines, S) : i < j =>
                 \E a, b \in Firsts(lines, S) :
                     a < b /\ lines[a] = Kept(lines, S)[i] /\ lines[b] = Kept(lines, S)[j]
<1> DEFINE P == Firsts(lines, S)
           ahead == [i \in P |-> {j \in P : j < i}]
           N == {<<i, Cardinality({j \in P : j < i})>> : i \in P}
           inOrder == Ranked(N)
           n == Cardinality(P)
           kept == Kept(lines, S)
<1>1. P \in SUBSET (1..Len(lines)) /\ Len(lines) \in Nat /\ DOMAIN lines = 1..Len(lines)
  BY DEF Firsts
<1>2. IsFiniteSet(P)
  <2>1. IsFiniteSet(1..Len(lines))
    BY <1>1, FS_Interval
  <2>2. QED
    BY <1>1, <2>1, FS_Subset
<1>3. \A p : p \in N <=> \E i \in P : p = <<i, Cardinality(ahead[i])>>
  OBVIOUS
<1>4. ahead \in [P -> SUBSET P] /\ \A i, j \in P : j \in ahead[i] <=> j < i
  OBVIOUS
<1>5. kept = [k \in DOMAIN inOrder |-> lines[inOrder[k]]]
  BY DEF Kept
<1>6. \A i \in P : lines[i] \in S /\ \A j \in 1..(i - 1) : lines[j] # lines[i]
  BY DEF Firsts
<1>7. \A i \in DOMAIN lines :
          lines[i] \in S /\ (\A j \in 1..(i - 1) : lines[j] # lines[i]) => i \in P
  BY DEF Firsts
<1> HIDE DEF P, ahead, N
<1>8. /\ \A i \in P : i \notin ahead[i]
      /\ \A i, j \in P : i \in ahead[j] => ahead[i] \subseteq ahead[j]
      /\ \A i, j \in P : i # j => i \in ahead[j] \/ j \in ahead[i]
  BY <1>1, <1>4
<1>9. /\ n \in Nat /\ inOrder \in [1..n -> P]
      /\ \A i \in P : \E k \in 1..n : inOrder[k] = i
      /\ \A i, j \in 1..n : i < j <=> inOrder[i] \in ahead[inOrder[j]]
  <2> HIDE DEF inOrder
  <2>1. inOrder = Ranked(N)
    BY DEF inOrder
  <2>2. QED
    BY <1>2, <1>3, <1>4, <1>8, <2>1, RankedInOrder
<1> HIDE DEF inOrder, n, kept
<1>10. kept = [k \in 1..n |-> lines[inOrder[k]]]
  BY <1>5, <1>9
<1>11. \A k \in 1..n : inOrder[k] \in P /\ kept[k] = lines[inOrder[k]] /\ kept[k] \in S
  BY <1>6, <1>9, <1>10
<1>12. kept \in Seq(S) /\ Len(kept) = n /\ DOMAIN kept = 1..n
  BY <1>9, <1>10, <1>11
<1>13. ASSUME NEW i \in 1..n, NEW j \in 1..n, i < j
       PROVE  inOrder[i] < inOrder[j]
  BY <1>13, <1>4, <1>9
<1>14. ASSUME NEW i \in 1..n, NEW j \in 1..n, kept[i] = kept[j] PROVE i = j
  <2>1. inOrder[i] \in 1..Len(lines) /\ inOrder[j] \in 1..Len(lines)
    BY <1>1, <1>11
  <2>2. ~(inOrder[i] < inOrder[j]) /\ ~(inOrder[j] < inOrder[i])
    <3>1. inOrder[i] < inOrder[j] => inOrder[i] \in 1..(inOrder[j] - 1)
      BY <2>1
    <3>2. inOrder[j] < inOrder[i] => inOrder[j] \in 1..(inOrder[i] - 1)
      BY <2>1
    <3>3. QED
      BY <3>1, <3>2, <1>6, <1>11, <1>14
  <2>3. ~(i < j) /\ ~(j < i)
    BY <2>2, <1>13
  <2>4. QED
    BY <2>3, <1>9
<1>15. ASSUME NEW s \in S PROVE s \in ToSet(kept) <=> s \in ToSet(lines)
  <2>1. ASSUME s \in ToSet(kept) PROVE s \in ToSet(lines)
    <3>1. PICK k \in 1..n : kept[k] = s
      BY <2>1, <1>12 DEF ToSet
    <3>2. QED
      BY <3>1, <1>1, <1>11 DEF ToSet
  <2>2. ASSUME s \in ToSet(lines) PROVE s \in ToSet(kept)
    <3> DEFINE X == {i \in 1..Len(lines) : lines[i] = s}
    <3>1. X \in SUBSET Nat /\ X # {}
      BY <2>2, <1>1 DEF ToSet
    <3>2. Min(X) \in X /\ \A y \in X : Min(X) <= y
      BY <3>1, MinOf
    <3>3. Min(X) \in 1..Len(lines) /\ lines[Min(X)] = s
      BY <3>2
    <3>4. \A j \in 1..(Min(X) - 1) : lines[j] # lines[Min(X)]
      BY <1>1, <3>2, <3>3
    <3> HIDE DEF X
    <3>5. Min(X) \in P
      BY <3>3, <3>4, <1>1, <1>7
    <3>6. PICK k \in 1..n : inOrder[k] = Min(X)
      BY <3>5, <1>9
    <3>7. QED
      BY <3>3, <3>6, <1>11, <1>12 DEF ToSet
  <2>3. QED
    BY <2>1, <2>2
<1>16. ASSUME NEW i \in 1..n, NEW j \in 1..n, i < j
       PROVE  \E a, b \in P : a < b /\ lines[a] = kept[i] /\ lines[b] = kept[j]
  BY <1>16, <1>11, <1>13
<1>17. kept = Kept(lines, S) /\ P = Firsts(lines, S)
  BY DEF kept, P
<1>18. /\ Len(kept) \in Nat
       /\ \A i, j \in DOMAIN kept : kept[i] = kept[j] => i = j
       /\ \A i, j \in DOMAIN kept : i < j =>
             \E a, b \in P : a < b /\ lines[a] = kept[i] /\ lines[b] = kept[j]
  <2>1. Len(kept) \in Nat /\ DOMAIN kept = 1..n
    BY <1>9, <1>12
  <2>2. QED
    BY <2>1, <1>14, <1>16
<1>19. QED
  BY <1>12, <1>15, <1>17, <1>18

(* Nothing is kept of nothing.                                                *)
LEMMA NothingKept == \A S : DOMAIN Kept(<<>>, S) = {}
<1> SUFFICES ASSUME NEW S PROVE DOMAIN Kept(<<>>, S) = {}
  OBVIOUS
<1>1. <<>> \in Seq({}) /\ ToSet(<<>>) = {}
  BY DEF ToSet
<1> DEFINE K == Kept(<<>>, S)
<1>2. /\ K \in Seq(S) /\ DOMAIN K = 1..Len(K)
      /\ \A s \in S : s \in ToSet(K) <=> s \in ToSet(<<>>)
  BY <1>1, KeptOrdered
<1> HIDE DEF K
<1>3. \A i \in DOMAIN K : K[i] \in S /\ K[i] \in ToSet(K)
  BY <1>2 DEF ToSet
<1>4. DOMAIN K = {}
  BY <1>1, <1>2, <1>3
<1>5. QED
  BY <1>4 DEF K

-----------------------------------------------------------------------------
(* The merge.  After i scripts of the default order D the first c kept lines
   are emitted, with every new script of those i: once each, the kept lines in
   their order, and no kept line before it is due, itself or through one kept
   behind it.                                                                 *)
MergeInv(D, K, i, G, c) ==
    /\ c \in 0..Len(K)
    /\ \A p, q \in DOMAIN G : G[p] = G[q] => p = q
    /\ \A p \in DOMAIN G : \/ \E a \in 1..c : K[a] = G[p]
                           \/ ~Contains(K, G[p]) /\ \E q \in 1..i : D[q] = G[p]
    /\ \A q \in 1..i : \E p \in DOMAIN G : G[p] = D[q]
    /\ \A a \in 1..c : \E p \in DOMAIN G : G[p] = K[a]
    /\ \A a, b \in 1..c : a < b => Ahead(G, K[a], K[b])
    /\ \A a \in 1..c : \E b \in a..c, q \in 1..i : K[b] = D[q]

(* What Emit may add: a new script, the pending lines up to the script it
   emits, or nothing for a script emitted with a kept one behind it.          *)
Emits(K, c, s, X, d) ==
    \/ ~Contains(K, s) /\ d = c /\ X = <<s>>
    \/ d \in (c + 1)..Len(K) /\ K[d] = s /\ X = SubSeq(K, c + 1, d)
    \/ d = c /\ X = <<>> /\ \E a \in 1..c : K[a] = s
Merging(K, G, c) == [merged |-> G, pending |-> SubSeq(K, c + 1, Len(K))]

(* A slice of a tail is a slice of the whole.                                 *)
LEMMA SliceOfSlice ==
    ASSUME NEW S, NEW K \in Seq(S), NEW c \in 0..Len(K), NEW l \in 1..(Len(K) - c + 1),
           NEW m \in 0..(Len(K) - c), NEW Q \in Seq(S), Len(Q) = Len(K) - c,
           \A i \in 1..(Len(K) - c) : Q[i] = K[c + i]
    PROVE  SubSeq(Q, l, m) = SubSeq(K, c + l, c + m) /\ SubSeq(Q, l, m) \in Seq(S)
<1> DEFINE n == Len(K)
           len == IF l <= m THEN m - l + 1 ELSE 0
<1>1. n \in Nat /\ c \in Nat /\ c <= n /\ l \in Int /\ m \in Int /\ c + l \in Int /\ c + m \in Int
  OBVIOUS
<1>2. /\ SubSeq(Q, l, m) \in Seq(S) /\ Len(SubSeq(Q, l, m)) = len
      /\ \A i \in 1..(m - l + 1) : SubSeq(Q, l, m)[i] = Q[l + i - 1]
  <2>1. \A i \in l..m : Q[i] \in S
    OBVIOUS
  <2>2. QED
    BY <1>1, <2>1, SubSeqProperties
<1>3. /\ SubSeq(K, c + l, c + m) \in Seq(S) /\ Len(SubSeq(K, c + l, c + m)) = len
      /\ \A i \in 1..(m - l + 1) : SubSeq(K, c + l, c + m)[i] = K[(c + l) + i - 1]
  <2>1. \A i \in (c + l)..(c + m) : K[i] \in S
    OBVIOUS
  <2>2. /\ SubSeq(K, c + l, c + m) \in Seq(S)
        /\ Len(SubSeq(K, c + l, c + m)) =
              IF c + l <= c + m THEN (c + m) - (c + l) + 1 ELSE 0
        /\ \A i \in 1..((c + m) - (c + l) + 1) : SubSeq(K, c + l, c + m)[i] = K[(c + l) + i - 1]
    BY <1>1, <2>1, SubSeqProperties
  <2>3. (c + m) - (c + l) + 1 = m - l + 1 /\ (c + l <= c + m <=> l <= m)
    BY <1>1
  <2>4. QED
    BY <2>2, <2>3
<1>4. \A i \in 1..len : SubSeq(Q, l, m)[i] = SubSeq(K, c + l, c + m)[i]
  <2>1. ASSUME NEW i \in 1..len
        PROVE  SubSeq(Q, l, m)[i] = SubSeq(K, c + l, c + m)[i]
    <3>1. /\ i \in 1..(m - l + 1) /\ l + i - 1 \in 1..(Len(K) - c)
          /\ c + (l + i - 1) = (c + l) + i - 1
      BY <1>1
    <3>2. QED
      BY <1>2, <1>3, <3>1
  <2>2. QED
    BY <2>1
<1>5. QED
  BY <1>2, <1>3, <1>4, SeqEqual

(* One step of the walk is one of the three.                                  *)
LEMMA EmitStep ==
    ASSUME NEW S, NEW K \in Seq(S), NEW G \in Seq(S), NEW c \in 0..Len(K), NEW s \in S
    PROVE  \E d \in c..Len(K), X \in Seq(S) :
               Emit(K, Merging(K, G, c), s) = Merging(K, G \o X, d) /\ Emits(K, c, s, X, d)
<1> DEFINE Q == SubSeq(K, c + 1, Len(K))
           n == Len(K)
           st == Merging(K, G, c)
<1>1. n \in Nat /\ DOMAIN K = 1..n /\ c \in Nat /\ c <= n /\ \A i \in 1..n : K[i] \in S
  OBVIOUS
<1>2. Q \in Seq(S) /\ Len(Q) = n - c /\ \A i \in 1..(n - c) : Q[i] = K[c + i]
  <2>1. \A i \in (c + 1)..n : K[i] \in S
    BY <1>1
  <2>2. c + 1 \in Int /\ n \in Int
    BY <1>1
  <2>3. /\ Q \in Seq(S) /\ Len(Q) = IF c + 1 <= n THEN n - (c + 1) + 1 ELSE 0
        /\ \A i \in 1..(n - (c + 1) + 1) : Q[i] = K[(c + 1) + i - 1]
    BY <2>1, <2>2, SubSeqProperties
  <2>4. n - (c + 1) + 1 = n - c /\ \A i \in 1..(n - c) : (c + 1) + i - 1 = c + i
    BY <1>1
  <2> HIDE DEF Q, n
  <2>5. Len(Q) = n - c
    BY <1>1, <2>3
  <2>6. \A i \in 1..(n - c) : Q[i] = K[c + i]
    BY <2>3, <2>4
  <2>7. QED
    BY <2>3, <2>5, <2>6 DEF n
<1>3. st.merged = G /\ st.pending = Q
  BY DEF Merging
<1>4. CASE ~Contains(K, s)
  <2>1. Emit(K, st, s) = [st EXCEPT !.merged = Append(@, s)]
    BY <1>4 DEF Emit
  <2>2. Append(G, s) = G \o <<s>> /\ <<s>> \in Seq(S)
    OBVIOUS
  <2>3. Emit(K, st, s) = Merging(K, G \o <<s>>, c)
    BY <2>1, <2>2 DEF Merging
  <2>4. Emits(K, c, s, <<s>>, c) /\ c \in c..n
    BY <1>1, <1>4 DEF Emits
  <2>5. QED
    BY <2>2, <2>3, <2>4
<1>5. CASE Contains(K, s) /\ Contains(Q, s)
  <2> DEFINE I == {i \in 1..Len(Q) : Q[i] = s}
             u == Min(I)
  <2>1. I # {} /\ I \in SUBSET Nat
    BY <1>5, <1>2 DEF Contains
  <2>2. u \in 1..(n - c) /\ Q[u] = s
    BY <2>1, MinOf, <1>2
  <2>3. SelectInSeq(Q, LAMBDA t : t = s) = u
    BY <2>1 DEF SelectInSeq
  <2> HIDE DEF u, I
  <2>4. Emit(K, st, s) = [merged |-> G \o SubSeq(Q, 1, u), pending |-> SubSeq(Q, u + 1, Len(Q))]
    BY <1>5, <1>3, <2>3 DEF Emit
  <2>5. c + u \in (c + 1)..n /\ K[c + u] = s /\ c + u \in c..n
    BY <2>2, <1>1, <1>2
  <2> HIDE DEF Q
  <2>6. SubSeq(Q, 1, u) = SubSeq(K, c + 1, c + u) /\ SubSeq(Q, 1, u) \in Seq(S)
    <3>1. 1 \in 1..(n - c + 1) /\ u \in 0..(n - c)
      BY <1>1, <2>2
    <3>2. QED
      BY <1>2, <3>1, SliceOfSlice
  <2>7. SubSeq(Q, u + 1, Len(Q)) = SubSeq(K, (c + u) + 1, n)
    <3>1. c + (u + 1) = (c + u) + 1 /\ c + (n - c) = n
      BY <1>1, <2>2
    <3>2. SubSeq(Q, u + 1, n - c) = SubSeq(K, c + (u + 1), c + (n - c))
      <4> DEFINE l == u + 1
                 m == n - c
      <4>1. l \in 1..(n - c + 1) /\ m \in 0..(n - c)
        BY <1>1, <2>2
      <4> HIDE DEF l, m
      <4>2. SubSeq(Q, l, m) = SubSeq(K, c + l, c + m)
        BY <1>2, <4>1, SliceOfSlice
      <4>3. QED
        BY <4>2 DEF l, m
    <3>3. QED
      BY <1>2, <3>1, <3>2
  <2>8. Emit(K, st, s) = Merging(K, G \o SubSeq(Q, 1, u), c + u)
    BY <2>4, <2>7 DEF Merging
  <2>9. Emits(K, c, s, SubSeq(Q, 1, u), c + u)
    BY <2>5, <2>6 DEF Emits
  <2>10. QED
    BY <2>5, <2>6, <2>8, <2>9
<1>6. CASE Contains(K, s) /\ ~Contains(Q, s)
  <2>1. Emit(K, st, s) = st
    BY <1>6, <1>3 DEF Emit
  <2>2. PICK a \in 1..n : K[a] = s
    BY <1>6 DEF Contains
  <2>3. a \in 1..c
    <3>1. SUFFICES ASSUME a > c PROVE FALSE
      BY <1>1
    <3>2. a - c \in 1..(n - c) /\ c + (a - c) = a
      BY <3>1, <1>1
    <3>3. Q[a - c] = s
      BY <3>2, <1>2, <2>2
    <3>4. QED
      BY <3>2, <3>3, <1>2, <1>6 DEF Contains
  <2>4. G \o <<>> = G /\ <<>> \in Seq(S) /\ c \in c..n
    BY <1>1
  <2>5. Emits(K, c, s, <<>>, c)
    BY <2>2, <2>3 DEF Emits
  <2>6. Emit(K, st, s) = Merging(K, G \o <<>>, c)
    BY <2>1, <2>4
  <2>7. QED
    BY <2>4, <2>5, <2>6
<1>7. QED
  BY <1>4, <1>5, <1>6

(* Each of the three keeps the invariant.                                     *)
LEMMA MergeStep ==
    ASSUME NEW S, NEW D \in Seq(S), NEW K \in Seq(S), NEW G \in Seq(S), NEW X \in Seq(S),
           \A p, q \in DOMAIN D : D[p] = D[q] => p = q,
           \A p, q \in DOMAIN K : K[p] = K[q] => p = q,
           NEW i \in 0..Len(D), i < Len(D), NEW c, MergeInv(D, K, i, G, c),
           NEW d \in c..Len(K), Emits(K, c, D[i + 1], X, d)
    PROVE  MergeInv(D, K, i + 1, G \o X, d)
<1> DEFINE s == D[i + 1]
           H == G \o X
           g == Len(G)
           x == Len(X)
           n == Len(K)
<1>1. /\ g \in Nat /\ x \in Nat /\ n \in Nat /\ i \in Nat /\ i + 1 \in DOMAIN D
      /\ DOMAIN G = 1..g /\ DOMAIN X = 1..x /\ DOMAIN K = 1..n /\ DOMAIN D = 1..Len(D)
      /\ Len(D) \in Nat
  OBVIOUS
<1>2. c \in 0..n /\ d \in Nat /\ d <= n /\ c <= d /\ c \in Nat
  BY <1>1 DEF MergeInv
<1>3. /\ H \in Seq(S) /\ DOMAIN H = 1..(g + x)
      /\ \A p \in 1..g : p \in DOMAIN H /\ H[p] = G[p]
      /\ \A y \in 1..x : g + y \in DOMAIN H /\ H[g + y] = X[y]
  BY <1>1
<1>4. \A p \in DOMAIN H : p \in 1..g \/ (p - g \in 1..x /\ g + (p - g) = p)
  BY <1>1, <1>3
<1>5. \A y \in 1..x : \/ ~Contains(K, s) /\ X[y] = s /\ x = 1
                      \/ c + y \in (c + 1)..d /\ X[y] = K[c + y]
  <2>1. CASE ~Contains(K, s) /\ d = c /\ X = <<s>>
    <3>1. x = 1 /\ X[1] = s
      BY <2>1
    <3>2. QED
      BY <2>1, <3>1
  <2>2. CASE d \in (c + 1)..n /\ K[d] = s /\ X = SubSeq(K, c + 1, d)
    <3>1. \A j \in (c + 1)..d : K[j] \in S
      BY <1>1, <1>2
    <3>2. x = d - c /\ \A y \in 1..(d - c) : X[y] = K[c + y]
      <4>1. /\ Len(SubSeq(K, c + 1, d)) = IF c + 1 <= d THEN d - (c + 1) + 1 ELSE 0
            /\ \A y \in 1..(d - (c + 1) + 1) : SubSeq(K, c + 1, d)[y] = K[(c + 1) + y - 1]
        BY <3>1, <1>2, SubSeqProperties
      <4>2. c + 1 <= d /\ d - (c + 1) + 1 = d - c /\ \A y \in 1..(d - c) : (c + 1) + y - 1 = c + y
        BY <2>2, <1>1, <1>2
      <4>3. QED
        BY <4>1, <4>2, <2>2
    <3>3. \A y \in 1..(d - c) : c + y \in (c + 1)..d
      BY <1>2
    <3> HIDE DEF x
    <3>4. QED
      BY <3>2, <3>3
  <2>3. CASE d = c /\ X = <<>>
    BY <2>3
  <2>4. QED
    BY <2>1, <2>2, <2>3 DEF Emits
<1>6. \A a \in (c + 1)..d : a - c \in 1..x /\ X[a - c] = K[a]
  <2>1. SUFFICES ASSUME NEW a \in (c + 1)..d PROVE a - c \in 1..x /\ X[a - c] = K[a]
    OBVIOUS
  <2>2. d \in (c + 1)..n /\ X = SubSeq(K, c + 1, d)
    BY <2>1, <1>2 DEF Emits
  <2>3. \A j \in (c + 1)..d : K[j] \in S
    BY <1>1, <1>2
  <2>4. /\ Len(SubSeq(K, c + 1, d)) = IF c + 1 <= d THEN d - (c + 1) + 1 ELSE 0
        /\ \A y \in 1..(d - (c + 1) + 1) : SubSeq(K, c + 1, d)[y] = K[(c + 1) + y - 1]
    BY <2>3, <1>2, SubSeqProperties
  <2>5. /\ c + 1 <= d /\ d - (c + 1) + 1 = d - c /\ a - c \in 1..(d - c)
        /\ (c + 1) + (a - c) - 1 = a
    BY <2>1, <2>2, <1>1, <1>2
  <2>6. QED
    BY <2>2, <2>4, <2>5
<1> HIDE DEF s, H, g, x, n
<1>7. \A y \in 1..x : \A p \in 1..g : X[y] # G[p]
  <2>1. SUFFICES ASSUME NEW y \in 1..x, NEW p \in 1..g, X[y] = G[p] PROVE FALSE
    OBVIOUS
  <2>2. \/ \E a \in 1..c : K[a] = G[p]
        \/ ~Contains(K, G[p]) /\ \E q \in 1..i : D[q] = G[p]
    BY <1>1 DEF MergeInv
  <2>3. CASE ~Contains(K, s) /\ X[y] = s
    <3>1. ASSUME NEW a \in 1..c, K[a] = G[p] PROVE FALSE
      BY <3>1, <2>1, <2>3, <1>2 DEF Contains, n
    <3>2. ASSUME NEW q \in 1..i, D[q] = G[p] PROVE FALSE
      <4>1. q \in DOMAIN D /\ q # i + 1
        BY <1>1
      <4>2. QED
        BY <4>1, <3>2, <2>1, <2>3, <1>1 DEF s
    <3>3. QED
      BY <2>2, <3>1, <3>2
  <2>4. CASE c + y \in (c + 1)..d /\ X[y] = K[c + y]
    <3>1. c + y \in 1..n
      BY <2>4, <1>1, <1>2
    <3>2. Contains(K, G[p])
      BY <3>1, <2>1, <2>4 DEF Contains, n
    <3>3. PICK a \in 1..c : K[a] = G[p]
      BY <2>2, <3>2
    <3>4. a = c + y
      <4>1. a \in DOMAIN K /\ c + y \in DOMAIN K
        BY <3>1, <1>1, <1>2
      <4>2. K[a] = K[c + y]
        BY <3>3, <2>1, <2>4, Zenon
      <4>3. QED
        BY <4>1, <4>2
    <3>5. QED
      BY <3>4, <1>2
  <2>5. QED
    BY <2>3, <2>4, <1>5
<1>8. \A y, z \in 1..x : X[y] = X[z] => y = z
  <2>1. SUFFICES ASSUME NEW y \in 1..x, NEW z \in 1..x, X[y] = X[z] PROVE y = z
    OBVIOUS
  <2>2. CASE x = 1
    BY <2>2
  <2>3. CASE /\ c + y \in (c + 1)..d /\ X[y] = K[c + y]
             /\ c + z \in (c + 1)..d /\ X[z] = K[c + z]
    <3>1. c + y \in 1..n /\ c + z \in 1..n
      BY <2>3, <1>1, <1>2
    <3>2. c + y = c + z
      <4>1. c + y \in DOMAIN K /\ c + z \in DOMAIN K
        BY <3>1, <1>1
      <4>2. K[c + y] = K[c + z]
        BY <2>1, <2>3, Zenon
      <4>3. QED
        BY <4>1, <4>2
    <3>3. QED
      BY <3>2, <1>2
  <2>4. QED
    BY <2>2, <2>3, <1>5
<1>9. \A p, q \in DOMAIN H : H[p] = H[q] => p = q
  <2>1. SUFFICES ASSUME NEW p \in DOMAIN H, NEW q \in DOMAIN H, H[p] = H[q] PROVE p = q
    OBVIOUS
  <2>2. CASE p \in 1..g /\ q \in 1..g
    BY <2>1, <2>2, <1>1, <1>3 DEF MergeInv
  <2>3. CASE p \in 1..g /\ q - g \in 1..x /\ g + (q - g) = q
    BY <2>1, <2>3, <1>3, <1>7
  <2>4. CASE q \in 1..g /\ p - g \in 1..x /\ g + (p - g) = p
    BY <2>1, <2>4, <1>3, <1>7
  <2>5. CASE p - g \in 1..x /\ g + (p - g) = p /\ q - g \in 1..x /\ g + (q - g) = q
    <3>1. p - g = q - g
      BY <2>1, <2>5, <1>3, <1>8
    <3>2. QED
      BY <3>1, <2>5
  <2>6. QED
    BY <1>4, <2>2, <2>3, <2>4, <2>5
<1>10. \A p \in DOMAIN H : \/ \E a \in 1..d : K[a] = H[p]
                           \/ ~Contains(K, H[p]) /\ \E q \in 1..(i + 1) : D[q] = H[p]
  <2>1. SUFFICES ASSUME NEW p \in DOMAIN H
                 PROVE  \/ \E a \in 1..d : K[a] = H[p]
                        \/ ~Contains(K, H[p]) /\ \E q \in 1..(i + 1) : D[q] = H[p]
    OBVIOUS
  <2>2. CASE p \in 1..g
    <3>1. \/ \E a \in 1..c : K[a] = H[p]
          \/ ~Contains(K, H[p]) /\ \E q \in 1..i : D[q] = H[p]
      <4>1. p \in DOMAIN G /\ H[p] = G[p]
        BY <2>2, <1>1, <1>3
      <4>2. \/ \E a \in 1..c : K[a] = G[p]
            \/ ~Contains(K, G[p]) /\ \E q \in 1..i : D[q] = G[p]
        BY <4>1 DEF MergeInv
      <4>3. QED
        BY <4>1, <4>2
    <3>2. 1..c \subseteq 1..d /\ 1..i \subseteq 1..(i + 1)
      BY <1>1, <1>2
    <3>3. QED
      BY <3>1, <3>2
  <2>3. CASE p - g \in 1..x /\ g + (p - g) = p
    <3>1. H[p] = X[p - g]
      BY <2>3, <1>3
    <3>2. i + 1 \in 1..(i + 1)
      BY <1>1
    <3>3. (c + 1)..d \subseteq 1..d
      BY <1>2
    <3>4. QED
      BY <2>3, <3>1, <3>2, <3>3, <1>5 DEF s
  <2>4. QED
    BY <2>2, <2>3, <1>4
<1>11. \A a \in 1..c : \E p \in 1..g : G[p] = K[a]
  BY <1>1 DEF MergeInv
<1>12. \A a \in 1..d : a \in 1..c \/ a \in (c + 1)..d
  BY <1>2
<1>13. \A a \in 1..d : \E p \in DOMAIN H : H[p] = K[a]
  <2>1. SUFFICES ASSUME NEW a \in 1..d PROVE \E p \in DOMAIN H : H[p] = K[a]
    OBVIOUS
  <2>2. CASE a \in 1..c
    <3>1. PICK p \in 1..g : G[p] = K[a]
      BY <2>2, <1>11
    <3>2. QED
      BY <3>1, <1>3
  <2>3. CASE a \in (c + 1)..d
    BY <2>3, <1>3, <1>6
  <2>4. QED
    BY <2>2, <2>3, <1>12
<1>14. \A q \in 1..(i + 1) : \E p \in DOMAIN H : H[p] = D[q]
  <2>1. SUFFICES ASSUME NEW q \in 1..(i + 1) PROVE \E p \in DOMAIN H : H[p] = D[q]
    OBVIOUS
  <2>2. CASE q \in 1..i
    <3>1. PICK p \in DOMAIN G : G[p] = D[q]
      BY <2>2 DEF MergeInv
    <3>2. QED
      BY <3>1, <1>1, <1>3
  <2>3. CASE q = i + 1
    <3>1. CASE ~Contains(K, s) /\ X = <<s>>
      <4>1. x = 1 /\ X[1] = s
        BY <3>1 DEF x
      <4>2. 1 \in 1..x
        BY <4>1
      <4>3. g + 1 \in DOMAIN H /\ H[g + 1] = s
        BY <4>1, <4>2, <1>3
      <4>4. QED
        BY <4>3, <2>3 DEF s
    <3>2. CASE \E a \in 1..d : K[a] = s
      BY <3>2, <2>3, <1>13 DEF s
    <3>3. QED
      BY <3>1, <3>2, <1>1, <1>2 DEF Emits, s, n
  <2>4. QED
    BY <2>2, <2>3, <1>1
<1>15. \A a, b \in 1..d : a < b => Ahead(H, K[a], K[b])
  <2>1. SUFFICES ASSUME NEW a \in 1..d, NEW b \in 1..d, a < b
                 PROVE  \E p, q \in DOMAIN H : p < q /\ H[p] = K[a] /\ H[q] = K[b]
    BY DEF Ahead
  <2>2. CASE a \in 1..c /\ b \in 1..c
    <3>1. Ahead(G, K[a], K[b])
      BY <2>1, <2>2 DEF MergeInv
    <3>2. QED
      BY <3>1, <1>1, <1>3 DEF Ahead
  <2>3. CASE a \in 1..c /\ b \in (c + 1)..d
    <3>1. PICK p \in 1..g : G[p] = K[a]
      BY <2>3, <1>11
    <3>2. b - c \in 1..x /\ X[b - c] = K[b]
      BY <2>3, <1>6
    <3>3. p < g + (b - c)
      BY <3>2, <1>1, <1>2
    <3>4. p \in DOMAIN H /\ H[p] = K[a]
      BY <3>1, <1>3
    <3>5. g + (b - c) \in DOMAIN H /\ H[g + (b - c)] = K[b]
      BY <3>2, <1>3
    <3>6. QED
      BY <3>3, <3>4, <3>5, Zenon
  <2>4. CASE a \in (c + 1)..d /\ b \in (c + 1)..d
    <3>1. a - c \in 1..x /\ X[a - c] = K[a] /\ b - c \in 1..x /\ X[b - c] = K[b]
      BY <2>4, <1>6
    <3>2. g + (a - c) < g + (b - c)
      BY <2>1, <1>1, <1>2
    <3>3. g + (a - c) \in DOMAIN H /\ H[g + (a - c)] = K[a]
      BY <3>1, <1>3
    <3>4. g + (b - c) \in DOMAIN H /\ H[g + (b - c)] = K[b]
      BY <3>1, <1>3
    <3>5. QED
      BY <3>2, <3>3, <3>4, Zenon
  <2>5. QED
    BY <2>1, <2>2, <2>3, <2>4, <1>2
<1>16. \A a \in 1..d : \E b \in a..d, q \in 1..(i + 1) : K[b] = D[q]
  <2>1. SUFFICES ASSUME NEW a \in 1..d PROVE \E b \in a..d, q \in 1..(i + 1) : K[b] = D[q]
    OBVIOUS
  <2>2. CASE a \in 1..c
    <3>1. PICK b \in a..c, q \in 1..i : K[b] = D[q]
      BY <2>2 DEF MergeInv
    <3>2. b \in a..d /\ q \in 1..(i + 1)
      BY <1>1, <1>2
    <3>3. QED
      BY <3>1, <3>2
  <2>3. CASE a \in (c + 1)..d
    <3>1. K[d] = D[i + 1] /\ d \in a..d /\ i + 1 \in 1..(i + 1)
      BY <2>3, <1>1, <1>2 DEF Emits
    <3>2. QED
      BY <3>1
  <2>4. QED
    BY <2>2, <2>3, <1>12
<1>17. d \in 0..Len(K)
  BY <1>1, <1>2 DEF n
<1>18. QED
  BY <1>9, <1>10, <1>13, <1>14, <1>15, <1>16, <1>17 DEF MergeInv, H

(* What is merged only grows, and the invariant holds all along the walk.      *)
Grows(M, S, n) ==
    M \in [0..n -> Seq(S)] /\ \A i \in 1..n : \E X \in Seq(S) : M[i] = M[i - 1] \o X
Merges(M, S, D, K) ==
    /\ Grows(M, S, Len(D)) /\ MergedOrder(D, K) = M[Len(D)]
    /\ \A i \in 0..Len(D) : \E c : MergeInv(D, K, i, M[i], c)
    /\ \A i \in 1..Len(D) : ~Contains(K, D[i]) => M[i] = M[i - 1] \o <<D[i]>>

(* There is such a walk, and the merged order is where it ends.                *)
LEMMA MergeWalk ==
    ASSUME NEW S, NEW D \in Seq(S), NEW K \in Seq(S),
           \A p, q \in DOMAIN D : D[p] = D[q] => p = q,
           \A p, q \in DOMAIN K : K[p] = K[q] => p = q
    PROVE  \E M : Merges(M, S, D, K)
<1> DEFINE n == Len(D)
           first == [merged |-> <<>>, pending |-> K]
           V == {Merging(K, p[1], p[2]) : p \in Seq(S) \X (0..Len(K))}
           F == [p \in (1..n) \X V |-> Emit(K, p[2], D[p[1]])]
           Walk(f) == [m \in 0..n |-> IF m = 0 THEN first ELSE Emit(K, f[m - 1], D[m])]
           walk == CHOOSE f : f = Walk(f)
<1>1. n \in Nat /\ Len(K) \in Nat /\ \A i \in 1..n : D[i] \in S
  OBVIOUS
<1>2. MergedOrder(D, K) = walk[n].merged
  BY DEF MergedOrder
<1>3. \A v : v \in V <=> \E G \in Seq(S), c \in 0..Len(K) : v = Merging(K, G, c)
  <2>1. ASSUME NEW v \in V PROVE \E G \in Seq(S), c \in 0..Len(K) : v = Merging(K, G, c)
    <3>1. PICK p \in Seq(S) \X (0..Len(K)) : v = Merging(K, p[1], p[2])
      OBVIOUS
    <3>2. p[1] \in Seq(S) /\ p[2] \in 0..Len(K)
      OBVIOUS
    <3>3. QED
      BY <3>1, <3>2
  <2>2. ASSUME NEW G \in Seq(S), NEW c \in 0..Len(K) PROVE Merging(K, G, c) \in V
    <3>1. <<G, c>> \in Seq(S) \X (0..Len(K)) /\ <<G, c>>[1] = G /\ <<G, c>>[2] = c
      OBVIOUS
    <3>2. Merging(K, <<G, c>>[1], <<G, c>>[2]) \in V
      BY <3>1
    <3>3. QED
      BY <3>1, <3>2
  <2>3. QED
    BY <2>1, <2>2
<1>4. first = Merging(K, <<>>, 0)
  <2>1. SubSeq(K, 0 + 1, Len(K)) = K
    BY SubSeqFull
  <2>2. QED
    BY <2>1 DEF Merging
<1> HIDE DEF V
<1>5. first \in V
  <2>1. <<>> \in Seq(S) /\ 0 \in 0..Len(K)
    BY <1>1
  <2>2. QED
    BY <2>1, <1>3, <1>4
<1>6. \A i \in 1..n : \A v \in V : Emit(K, v, D[i]) \in V
  <2>1. SUFFICES ASSUME NEW i \in 1..n, NEW v \in V PROVE Emit(K, v, D[i]) \in V
    OBVIOUS
  <2>2. PICK G \in Seq(S), c \in 0..Len(K) : v = Merging(K, G, c)
    BY <1>3
  <2>3. PICK d \in c..Len(K), X \in Seq(S) : Emit(K, v, D[i]) = Merging(K, G \o X, d)
    <3>1. D[i] \in S
      BY <1>1
    <3>2. \E d \in c..Len(K), X \in Seq(S) :
              Emit(K, v, D[i]) = Merging(K, G \o X, d) /\ Emits(K, c, D[i], X, d)
      BY <2>2, <3>1, EmitStep
    <3>3. QED
      BY <3>2
  <2>4. d \in 0..Len(K) /\ G \o X \in Seq(S)
    BY <1>1
  <2>5. QED
    BY <2>3, <2>4, <1>3
<1>7. F \in [(1..n) \X V -> V]
  BY <1>6
<1>8. PICK w \in [0..n -> V] : w[0] = first /\ \A i \in 1..n : w[i] = F[<<i, w[i - 1]>>]
  <2> HIDE DEF F, first, n
  <2>1. n \in Nat
    BY <1>1
  <2>2. \E w : IsWalk(w, n, V, first, F)
    <3>1. StepOf(F, n, V)
      BY <1>7 DEF StepOf
    <3>2. QED
      BY <2>1, <3>1, <1>5, WalkExists
  <2>3. QED
    BY <2>2 DEF IsWalk
<1>9. w = Walk(w)
  <2>1. ASSUME NEW i \in 1..n PROVE w[i] = Emit(K, w[i - 1], D[i])
    <3>1. w[i - 1] \in V
      BY <1>1
    <3>2. QED
      BY <3>1, <1>8
  <2>2. \A i \in 0..n : w[i] = IF i = 0 THEN first ELSE Emit(K, w[i - 1], D[i])
    <3>1. \A i \in 0..n : i = 0 \/ i \in 1..n
      BY <1>1
    <3> HIDE DEF first
    <3>2. QED
      BY <3>1, <2>1, <1>8
  <2> HIDE DEF first, n
  <2>3. QED
    BY <2>2
<1>10. walk = Walk(walk)
  <2> HIDE DEF Walk
  <2>1. QED
    BY <1>9
<1> HIDE DEF walk
<1>11. walk[0] = first
  BY <1>1, <1>10
<1>12. \A i \in 1..n : walk[i] = Emit(K, walk[i - 1], D[i])
  <2>1. SUFFICES ASSUME NEW i \in 1..n PROVE walk[i] = Emit(K, walk[i - 1], D[i])
    OBVIOUS
  <2>2. i \in 0..n /\ i # 0
    BY <1>1
  <2>3. QED
    BY <2>2, <1>10
<1> DEFINE Inv(i) == \E G \in Seq(S), c \in 0..Len(K) :
                         walk[i] = Merging(K, G, c) /\ MergeInv(D, K, i, G, c)
           P == {i \in 0..n : Inv(i)}
<1>13. 0 \in P
  <2>1. MergeInv(D, K, 0, <<>>, 0)
    BY <1>1 DEF MergeInv
  <2>2. QED
    BY <2>1, <1>1, <1>4, <1>11
<1>14. ASSUME NEW i \in 0..n, i < n, Inv(i)
       PROVE  /\ Inv(i + 1)
              /\ \E X \in Seq(S) : /\ walk[i + 1].merged = walk[i].merged \o X
                                   /\ ~Contains(K, D[i + 1]) => X = <<D[i + 1]>>
  <2>1. PICK G \in Seq(S), c \in 0..Len(K) :
            walk[i] = Merging(K, G, c) /\ MergeInv(D, K, i, G, c)
    BY <1>14
  <2>2. i + 1 \in 1..n /\ (i + 1) - 1 = i /\ D[i + 1] \in S
    BY <1>1, <1>14
  <2>3. walk[i + 1] = Emit(K, Merging(K, G, c), D[i + 1])
    BY <2>1, <2>2, <1>12
  <2>4. PICK d \in c..Len(K), X \in Seq(S) :
            walk[i + 1] = Merging(K, G \o X, d) /\ Emits(K, c, D[i + 1], X, d)
    BY <2>2, <2>3, EmitStep
  <2>5. MergeInv(D, K, i + 1, G \o X, d)
    BY <2>1, <2>4, <1>14, MergeStep
  <2>6. d \in 0..Len(K) /\ G \o X \in Seq(S)
    BY <1>1
  <2>7. Inv(i + 1)
    BY <2>4, <2>5, <2>6
  <2>8. walk[i].merged = G /\ walk[i + 1].merged = G \o X
    BY <2>1, <2>4 DEF Merging
  <2>9. ~Contains(K, D[i + 1]) => X = <<D[i + 1]>>
    <3>1. \A a \in 1..Len(K) : K[a] = D[i + 1] => Contains(K, D[i + 1])
      BY DEF Contains
    <3>2. QED
      BY <3>1, <2>4, <1>1 DEF Emits
  <2>10. QED
    BY <2>7, <2>8, <2>9
<1>15. P = 0..n
  <2>1. P \in SUBSET (0..n)
    OBVIOUS
  <2>2. \A i \in P : i < n => i + 1 \in P
    <3>1. \A i \in 0..n : i < n => i + 1 \in 0..n
      BY <1>1
    <3> HIDE DEF Inv
    <3>2. QED
      BY <3>1, <1>14
  <2> HIDE DEF P
  <2>3. QED
    BY <1>1, <1>13, <2>1, <2>2, Reaches
<1>16. \A i \in 0..n : Inv(i)
  BY <1>15
<1> DEFINE M == [i \in 0..n |-> walk[i].merged]
<1>17. \A i \in 0..n : M[i] \in Seq(S) /\ \E c : MergeInv(D, K, i, M[i], c)
  <2>1. SUFFICES ASSUME NEW i \in 0..n
                 PROVE  M[i] \in Seq(S) /\ \E c : MergeInv(D, K, i, M[i], c)
    OBVIOUS
  <2>2. PICK G \in Seq(S), c \in 0..Len(K) :
            walk[i] = Merging(K, G, c) /\ MergeInv(D, K, i, G, c)
    BY <1>16
  <2>3. M[i] = G
    BY <2>2 DEF Merging
  <2>4. QED
    BY <2>2, <2>3
<1>18. \A i \in 1..n : \E X \in Seq(S) :
           M[i] = M[i - 1] \o X /\ (~Contains(K, D[i]) => X = <<D[i]>>)
  <2>1. SUFFICES ASSUME NEW i \in 1..n
                 PROVE  \E X \in Seq(S) : M[i] = M[i - 1] \o X /\ (~Contains(K, D[i]) => X = <<D[i]>>)
    OBVIOUS
  <2>2. i - 1 \in 0..n /\ i - 1 < n /\ (i - 1) + 1 = i /\ i \in 0..n
    BY <1>1
  <2> HIDE DEF Inv
  <2>3. PICK X \in Seq(S) : /\ walk[(i - 1) + 1].merged = walk[i - 1].merged \o X
                            /\ ~Contains(K, D[(i - 1) + 1]) => X = <<D[(i - 1) + 1]>>
    BY <2>2, <1>14, <1>16
  <2>4. QED
    BY <2>2, <2>3
<1>19. M \in [0..n -> Seq(S)] /\ MergedOrder(D, K) = M[n]
  BY <1>1, <1>2, <1>17
<1> HIDE DEF M
<1>20. Grows(M, S, n)
  BY <1>18, <1>19 DEF Grows
<1>21. \A i \in 1..n : ~Contains(K, D[i]) => M[i] = M[i - 1] \o <<D[i]>>
  BY <1>18
<1>22. Merges(M, S, D, K)
  BY <1>17, <1>19, <1>20, <1>21 DEF Merges
<1>23. QED
  BY <1>22

(* What stands in the merged order after a step stands there after any later.  *)
Extends(H, G) == \A p \in DOMAIN G : p \in DOMAIN H /\ H[p] = G[p]
LEMMA MergeGrows ==
    ASSUME NEW S, NEW n \in Nat, NEW M, Grows(M, S, n)
    PROVE  \A j \in 0..n : \A i \in 0..j : Extends(M[j], M[i])
<1> USE DEF Grows
<1> DEFINE P == {j \in 0..n : \A i \in 0..j : Extends(M[j], M[i])}
<1>1. 0 \in P
  BY DEF Extends
<1>2. ASSUME NEW j \in P, j < n PROVE j + 1 \in P
  <2>1. j + 1 \in 1..n /\ (j + 1) - 1 = j /\ j + 1 \in 0..n /\ j \in 0..n
    BY <1>2
  <2>2. PICK X \in Seq(S) : M[j + 1] = M[j] \o X
    BY <2>1
  <2>3. M[j] \in Seq(S)
    BY <2>1
  <2>4. Extends(M[j + 1], M[j])
    BY <2>2, <2>3 DEF Extends
  <2>5. ASSUME NEW i \in 0..(j + 1) PROVE Extends(M[j + 1], M[i])
    <3>1. CASE i = j + 1
      BY <3>1 DEF Extends
    <3>2. CASE i # j + 1
      <4>1. i \in 0..j
        BY <3>2, <2>1
      <4>2. Extends(M[j], M[i])
        BY <4>1
      <4>3. QED
        BY <4>2, <2>4 DEF Extends
    <3>3. QED
      BY <3>1, <3>2
  <2>6. QED
    BY <2>1, <2>5
<1>3. P = 0..n
  <2>1. P \in SUBSET (0..n)
    OBVIOUS
  <2> HIDE DEF P
  <2>2. QED
    BY <1>1, <1>2, <2>1, Reaches
<1>4. QED
  BY <1>3

(* The merged order: every script once, the kept ones in their order, and a
   new one ahead of every kept one ranked behind it that is not held ahead by
   a kept one ranked before it.                                               *)
LEMMA MergedOrdered ==
    ASSUME NEW S \in SUBSET InstallScripts, IsFiniteSet(S), NEW K \in Seq(S),
           \A p, q \in DOMAIN K : K[p] = K[q] => p = q,
           NEW M, M = MergedOrder(DefaultOrder(S), K)
    PROVE  /\ M \in Seq(S)
           /\ \A p, q \in DOMAIN M : M[p] = M[q] => p = q
           /\ \A s \in S : \E p \in DOMAIN M : M[p] = s
           /\ \A s, t : Ahead(K, s, t) => Ahead(M, s, t)
           /\ \A s \in S \ ToSet(K), k \in ToSet(K) :
                 RunsBefore(s, k) /\ (\A m \in ToSet(K) : RunsBefore(m, s) => Ahead(K, m, k))
                    => Ahead(M, s, k)
<1> DEFINE D == DefaultOrder(S)
           n == Len(D)
           l == Len(K)
<1>1. /\ D \in Seq(S) /\ n \in Nat /\ DOMAIN D = 1..n
      /\ \A s \in S : \E k \in 1..n : D[k] = s
      /\ \A i, j \in 1..n : i < j <=> RunsBefore(D[i], D[j])
  BY DefaultOrdered
<1>2. \A i, j \in 1..n : D[i] = D[j] => i = j
  BY <1>1, Distinct
<1> HIDE DEF D
<1>3. M = MergedOrder(D, K)
  BY DEF D
<1>4. PICK W : Merges(W, S, D, K)
  BY <1>1, <1>2, MergeWalk
<1>5. /\ W \in [0..n -> Seq(S)] /\ MergedOrder(D, K) = W[n]
      /\ \A i \in 0..n : \E c : MergeInv(D, K, i, W[i], c)
      /\ \A i \in 1..n : ~Contains(K, D[i]) => W[i] = W[i - 1] \o <<D[i]>>
  BY <1>4 DEF Merges, Grows
<1>6. M = W[n] /\ n \in 0..n /\ l \in Nat /\ DOMAIN K = 1..l
  BY <1>1, <1>3, <1>5
<1>7. PICK c : MergeInv(D, K, n, M, c)
  <2>1. \E c : MergeInv(D, K, n, W[n], c)
    BY <1>5, <1>6, Zenon
  <2>2. QED
    BY <2>1, <1>6, Zenon
<1>8. M \in Seq(S)
  <2>1. n \in 0..n
    BY <1>6
  <2>2. W[n] \in Seq(S)
    BY <1>5, <2>1, Zenon
  <2>3. QED
    BY <2>2, <1>6, Zenon
<1>9. \A p, q \in DOMAIN M : M[p] = M[q] => p = q
  BY <1>7 DEF MergeInv
<1>10. \A s \in S : \E p \in DOMAIN M : M[p] = s
  BY <1>1, <1>7 DEF MergeInv
<1>11. c \in 0..l
  BY <1>7 DEF MergeInv
<1>12. \A a \in 1..l : a \in 1..c
  <2>1. SUFFICES ASSUME NEW a \in 1..l PROVE a \in 1..c
    OBVIOUS
  <2>2. K[a] \in S
    OBVIOUS
  <2>3. PICK p \in DOMAIN M : M[p] = K[a]
    BY <2>2, <1>10
  <2>4. Contains(K, M[p])
    BY <2>3 DEF Contains
  <2>5. PICK b \in 1..c : K[b] = M[p]
    BY <2>4, <1>7 DEF MergeInv
  <2>6. b \in 1..l
    BY <1>6, <1>11
  <2>7. QED
    BY <2>3, <2>5, <2>6, <1>6
<1>13. ASSUME NEW s, NEW t, Ahead(K, s, t) PROVE Ahead(M, s, t)
  <2>1. PICK a \in 1..l, b \in 1..l : a < b /\ K[a] = s /\ K[b] = t
    BY <1>13, <1>6 DEF Ahead
  <2>2. QED
    BY <2>1, <1>7, <1>12 DEF MergeInv
<1>14. ASSUME NEW s \in S \ ToSet(K), NEW k \in ToSet(K), RunsBefore(s, k),
              \A m \in ToSet(K) : RunsBefore(m, s) => Ahead(K, m, k)
       PROVE  Ahead(M, s, k)
  <2>1. PICK r \in 1..n : D[r] = s
    BY <1>1
  <2>2. r - 1 \in 0..n /\ r \in 0..n /\ r \in 0..n
    BY <1>1
  <2>3. PICK e : MergeInv(D, K, r - 1, W[r - 1], e)
    BY <2>2, <1>5
  <2>4. ~Contains(K, s)
    BY <1>14, <1>6 DEF Contains, ToSet
  <2>6. W[r] = W[r - 1] \o <<s>>
    BY <2>1, <2>4, <1>5
  <2> DEFINE G == W[r - 1]
             g == Len(G)
  <2>7. G \in Seq(S) /\ g \in Nat /\ DOMAIN G = 1..g
    BY <2>2, <1>5
  <2>8. PICK a \in 1..l : K[a] = k
    BY <1>6 DEF ToSet
  <2>9. \A p \in 1..g : G[p] # k
    <3>1. SUFFICES ASSUME NEW p \in 1..g, G[p] = k PROVE FALSE
      OBVIOUS
    <3>2. Contains(K, G[p])
      BY <2>8, <3>1 DEF Contains
    <3>3. PICK a2 \in 1..e : K[a2] = k
      BY <3>1, <3>2, <2>3, <2>7 DEF MergeInv
    <3>4. e \in 0..l
      BY <2>3 DEF MergeInv
    <3>5. PICK b \in a2..e, q \in 1..(r - 1) : K[b] = D[q]
      BY <3>3, <2>3 DEF MergeInv
    <3>6. b \in 1..l /\ a2 \in 1..l /\ q \in 1..n /\ q < r /\ a2 <= b
      <4>1. e \in Nat /\ e <= l /\ r <= n /\ r \in Nat
        BY <3>4, <1>1, <1>6
      <4> HIDE DEF l, n
      <4>2. QED
        BY <4>1, <1>1, <1>6
    <3>7. RunsBefore(K[b], s) /\ K[b] \in ToSet(K)
      BY <3>5, <3>6, <2>1, <1>1, <1>6 DEF ToSet
    <3>8. Ahead(K, K[b], k)
      BY <3>7, <1>14
    <3>9. PICK x \in 1..l, y \in 1..l : x < y /\ K[x] = K[b] /\ K[y] = k
      BY <3>8, <1>6 DEF Ahead
    <3>10. x = b /\ y = a2
      BY <3>3, <3>6, <3>9, <1>6
    <3>11. QED
      BY <3>6, <3>9, <3>10
  <2>10. W[r] \in Seq(S) /\ DOMAIN W[r] = 1..(g + 1) /\ W[r][g + 1] = s
         /\ \A p \in 1..g : W[r][p] = G[p]
    BY <2>1, <2>6, <2>7, <1>1
  <2>11. Extends(M, W[r])
    <3>1. Grows(W, S, n)
      BY <1>4 DEF Merges
    <3>2. \A j \in 0..n : \A i \in 0..j : Extends(W[j], W[i])
      BY <3>1, <1>1, MergeGrows
    <3>3. QED
      BY <3>2, <2>2, <1>6
  <2>12. g + 1 \in DOMAIN M /\ M[g + 1] = s /\ \A p \in 1..g : M[p] = G[p]
    <3>1. g + 1 \in 1..(g + 1) /\ \A p \in 1..g : p \in 1..(g + 1)
      BY <2>7
    <3>2. QED
      BY <3>1, <2>10, <2>11 DEF Extends
  <2>13. k \in S /\ k # s
    BY <2>8, <2>4, <1>6 DEF Contains
  <2>14. PICK p \in DOMAIN M : M[p] = k
    BY <2>13, <1>10
  <2>15. p \in Nat /\ p > 0 /\ p \notin 1..g /\ p # g + 1
    <3>1. DOMAIN M = 1..Len(M) /\ Len(M) \in Nat
      BY <1>8
    <3>2. p \in Nat /\ p > 0
      BY <3>1
    <3> HIDE DEF g, G
    <3>3. p \notin 1..g
      BY <2>9, <2>12, <2>14
    <3>4. p # g + 1
      BY <2>12, <2>13, <2>14
    <3>5. QED
      BY <3>2, <3>3, <3>4
  <2>16. g + 1 < p
    BY <2>15, <2>7
  <2>17. QED
    BY <2>12, <2>14, <2>16 DEF Ahead
<1>15. QED
  BY <1>8, <1>9, <1>10, <1>13, <1>14

-----------------------------------------------------------------------------
(* The places of the rows.  The slot of an application is its last opener.    *)
LEMMA SlotOf ==
    ASSUME NEW O \in Seq(InstallScripts), NEW a
    PROVE  LET openers == {i \in DOMAIN O : O[i].app = a /\ O[i].stage # "end"}
           IN  \/ openers = {} /\ Slot(O, a) = 0 /\ Place(O, a) = Len(O) + 1
               \/ /\ Slot(O, a) \in openers /\ Place(O, a) = Slot(O, a)
                  /\ \A i \in openers : i <= Slot(O, a)
<1> DEFINE openers == {i \in DOMAIN O : O[i].app = a /\ O[i].stage # "end"}
<1>1. DOMAIN O = 1..Len(O) /\ Len(O) \in Nat
  OBVIOUS
<1>2. Slot(O, a) = IF openers = {} THEN 0 ELSE Max(openers)
  BY DEF Slot
<1>3. CASE openers = {}
  BY <1>2, <1>3 DEF Place
<1>4. CASE openers # {}
  <2>1. openers \in SUBSET (0..Len(O))
    BY <1>1
  <2>2. Max(openers) \in openers /\ \A i \in openers : Max(openers) >= i
    <3> HIDE DEF openers
    <3>1. QED
      BY <1>1, <1>4, <2>1, MaxOf
  <2>3. Slot(O, a) \in openers /\ Slot(O, a) # 0
    BY <1>1, <1>2, <1>4, <2>2
  <2>4. \A i \in openers : i <= Slot(O, a)
    BY <1>1, <1>2, <1>4, <2>2
  <2>5. QED
    BY <2>3, <2>4 DEF Place
<1>5. QED
  BY <1>3, <1>4

(* The two kinds of places.                                                    *)
ScriptPlaces(O) == {<<i, Schema>> : i \in DOMAIN O}
ImportPlaces(O, T) == {<<Place(O, a), a>> : a \in {O[i].app : i \in DOMAIN O} \cap T}

(* A place is a pair of numbers, and there are finitely many.                  *)
LEMMA PlacesAre ==
    ASSUME NEW O \in Seq(InstallScripts), NEW T \in SUBSET (Nat \ {Schema})
    PROVE  /\ Places(O, T) = ScriptPlaces(O) \cup ImportPlaces(O, T)
           /\ IsFiniteSet(Places(O, T)) /\ Places(O, T) \subseteq Nat \X Nat
           /\ \A p \in ImportPlaces(O, T) : p[2] \in T
<1> DEFINE A == ScriptPlaces(O)
           B == ImportPlaces(O, T)
           apps == {O[i].app : i \in DOMAIN O}
<1>1. DOMAIN O = 1..Len(O) /\ Len(O) \in Nat
  OBVIOUS
<1>2. IsFiniteSet(DOMAIN O)
  BY <1>1, FS_Interval
<1>3. IsFiniteSet(apps)
  <2> DEFINE f == [i \in DOMAIN O |-> O[i].app]
  <2>1. f \in Surjection(DOMAIN O, apps)
    BY DEF Surjection
  <2>2. QED
    BY <2>1, <1>2, FS_Surjection
<1>4. IsFiniteSet(A)
  <2> DEFINE f == [i \in DOMAIN O |-> <<i, Schema>>]
  <2>1. f \in Surjection(DOMAIN O, A)
    BY DEF Surjection, ScriptPlaces
  <2>2. QED
    BY <2>1, <1>2, FS_Surjection
<1>5. IsFiniteSet(B)
  <2> DEFINE f == [a \in apps \cap T |-> <<Place(O, a), a>>]
  <2>1. f \in Surjection(apps \cap T, B)
    BY DEF Surjection, ImportPlaces
  <2>2. IsFiniteSet(apps \cap T)
    BY <1>3, FS_Intersection
  <2>3. QED
    BY <2>1, <2>2, FS_Surjection
<1>6. Places(O, T) = A \cup B
  BY DEF Places, ScriptPlaces, ImportPlaces
<1>7. IsFiniteSet(A \cup B)
  BY <1>4, <1>5, FS_Union
<1>8. A \subseteq Nat \X Nat
  BY <1>1 DEF ScriptPlaces, Schema
<1>9. \A a : Place(O, a) \in Nat
  <2>1. SUFFICES ASSUME NEW a PROVE Place(O, a) \in Nat
    OBVIOUS
  <2>2. Place(O, a) = Len(O) + 1 \/ Place(O, a) \in DOMAIN O
    BY SlotOf
  <2>3. QED
    BY <2>2, <1>1
<1>10. B \subseteq Nat \X Nat /\ \A p \in B : p[2] \in T
  <2>1. SUFFICES ASSUME NEW p \in B PROVE p \in Nat \X Nat /\ p[2] \in T
    OBVIOUS
  <2>2. PICK a \in apps \cap T : p = <<Place(O, a), a>>
    BY DEF ImportPlaces
  <2>3. a \in T /\ a \in Nat /\ Place(O, a) \in Nat
    BY <1>9
  <2>4. QED
    BY <2>2, <2>3
<1>11. QED
  BY <1>6, <1>7, <1>8, <1>10

(* Earlier is a strict total order on the pairs of numbers.                    *)
LEMMA EarlierIsTotal ==
    /\ \A p \in Nat \X Nat : ~Earlier(p, p)
    /\ \A p, q, r \in Nat \X Nat : Earlier(p, q) /\ Earlier(q, r) => Earlier(p, r)
    /\ \A p, q \in Nat \X Nat : p # q => Earlier(p, q) \/ Earlier(q, p)
<1>1. \A p \in Nat \X Nat : p[1] \in Nat /\ p[2] \in Nat /\ p = <<p[1], p[2]>>
  OBVIOUS
<1>2. \A p \in Nat \X Nat : ~Earlier(p, p)
  BY <1>1 DEF Earlier
<1>3. \A p, q, r \in Nat \X Nat : Earlier(p, q) /\ Earlier(q, r) => Earlier(p, r)
  BY <1>1 DEF Earlier
<1>4. \A p, q \in Nat \X Nat : p # q => Earlier(p, q) \/ Earlier(q, p)
  BY <1>1 DEF Earlier
<1>5. QED
  BY <1>2, <1>3, <1>4

(* The rows of a plan are those at its n places, the places in their order.    *)
PlanShape(O, T, n, at) ==
    /\ n \in Nat /\ at \in [1..n -> Places(O, T)]
    /\ \A p \in Places(O, T) : \E k \in 1..n : at[k] = p
    /\ \A i, j \in 1..n : i < j <=> Earlier(at[i], at[j])
    /\ \A i, j \in 1..n : at[i] = at[j] => i = j
    /\ DOMAIN DeploymentSequence(O, T) = 1..n
    /\ \A k \in 1..n : DeploymentSequence(O, T)[k] = RowAt(O, at[k])

(* Every plan has that shape.                                                  *)
LEMMA PlanOrdered ==
    ASSUME NEW O \in Seq(InstallScripts), NEW T \in SUBSET (Nat \ {Schema})
    PROVE  \E n, at : PlanShape(O, T, n, at)
<1> DEFINE P == Places(O, T)
           N == {<<p, Cardinality({q \in P : Earlier(q, p)})>> : p \in P}
           ahead == [p \in P |-> {q \in P : Earlier(q, p)}]
           n == Cardinality(P)
           at == Ranked(N)
<1>1. IsFiniteSet(P) /\ P \subseteq Nat \X Nat
  BY PlacesAre
<1>2. DeploymentSequence(O, T) = [k \in DOMAIN at |-> RowAt(O, at[k])]
  BY DEF DeploymentSequence, InPlace
<1>3. \A x : x \in N <=> \E p \in P : x = <<p, Cardinality(ahead[p])>>
  OBVIOUS
<1>4. ahead \in [P -> SUBSET P] /\ \A p, q \in P : q \in ahead[p] <=> Earlier(q, p)
  OBVIOUS
<1> HIDE DEF P, ahead, N, at, n
<1>5. /\ \A p \in P : p \notin ahead[p]
      /\ \A p, q \in P : p \in ahead[q] => ahead[p] \subseteq ahead[q]
      /\ \A p, q \in P : p # q => p \in ahead[q] \/ q \in ahead[p]
  <2>1. \A p \in P : p \in Nat \X Nat
    BY <1>1
  <2>2. QED
    BY <2>1, <1>4, EarlierIsTotal
<1>6. /\ n \in Nat /\ at \in [1..n -> P]
      /\ \A p \in P : \E k \in 1..n : at[k] = p
      /\ \A i, j \in 1..n : i < j <=> at[i] \in ahead[at[j]]
  BY <1>1, <1>3, <1>4, <1>5, RankedInOrder DEF at, n
<1>7. \A i, j \in 1..n : i < j <=> Earlier(at[i], at[j])
  BY <1>4, <1>6
<1>8. \A i, j \in 1..n : at[i] = at[j] => i = j
  <2>1. SUFFICES ASSUME NEW i \in 1..n, NEW j \in 1..n, at[i] = at[j] PROVE i = j
    OBVIOUS
  <2>2. at[i] \in Nat \X Nat
    BY <1>1, <1>6
  <2>3. ~(i < j) /\ ~(j < i)
    BY <2>1, <2>2, <1>7, EarlierIsTotal
  <2>4. QED
    BY <2>3
<1>9. DOMAIN at = 1..n
  BY <1>6
<1>10. PlanShape(O, T, n, at)
  BY <1>2, <1>6, <1>7, <1>8, <1>9 DEF PlanShape, P
<1>11. QED
  BY <1>10

(* A row of the plan is a script's or the import of an application.            *)
LEMMA RowIs ==
    ASSUME NEW O \in Seq(InstallScripts), NEW T \in SUBSET (Nat \ {Schema}),
           NEW n, NEW at, PlanShape(O, T, n, at), NEW k \in 1..n
    PROVE  \/ \E i \in DOMAIN O : /\ at[k] = <<i, Schema>> /\ at[k][1] = i
                                  /\ DeploymentSequence(O, T)[k] = Row(O[i])
           \/ \E a \in {O[i].app : i \in DOMAIN O} \cap T :
                 /\ at[k] = <<Place(O, a), a>> /\ a # Schema
                 /\ DeploymentSequence(O, T)[k] = ImportRow(a)
<1>1. at[k] \in Places(O, T) /\ DeploymentSequence(O, T)[k] = RowAt(O, at[k])
  BY DEF PlanShape
<1>2. at[k] \in ScriptPlaces(O) \/ at[k] \in ImportPlaces(O, T)
  BY <1>1, PlacesAre
<1>3. CASE at[k] \in ScriptPlaces(O)
  <2>1. PICK i \in DOMAIN O : at[k] = <<i, Schema>>
    BY <1>3 DEF ScriptPlaces
  <2>2. at[k][1] = i /\ at[k][2] = Schema
    BY <2>1
  <2>3. RowAt(O, at[k]) = Row(O[i])
    BY <2>2 DEF RowAt
  <2>4. QED
    BY <2>1, <2>2, <2>3, <1>1
<1>4. CASE at[k] \in ImportPlaces(O, T)
  <2>1. PICK a \in {O[i].app : i \in DOMAIN O} \cap T : at[k] = <<Place(O, a), a>>
    BY <1>4 DEF ImportPlaces
  <2>2. a # Schema /\ at[k][2] = a
    <3>1. a \in T
      OBVIOUS
    <3>2. QED
      BY <2>1, <3>1
  <2>3. RowAt(O, at[k]) = ImportRow(a)
    BY <2>2 DEF RowAt
  <2>4. QED
    BY <2>1, <2>2, <2>3, <1>1
<1>5. QED
  BY <1>2, <1>3, <1>4

(* A row tells its kind, its application and, of an import, nothing else.      *)
LEMMA KindsDiffer ==
    /\ \A s : Row(s).kind = "script" /\ Row(s).app = s.app
              /\ Row(s).ends = (s.stage # "init" /\ s.app # Schema)
    /\ \A a : ImportRow(a).kind = "import" /\ ImportRow(a).app = a
    /\ \A s, a : Row(s) # ImportRow(a)
    /\ \A a, b : ImportRow(a) = ImportRow(b) => a = b
<1>1. \A s : Row(s).kind = "script" /\ Row(s).app = s.app
             /\ Row(s).ends = (s.stage # "init" /\ s.app # Schema)
  BY DEF Row
<1>2. \A a : ImportRow(a).kind = "import" /\ ImportRow(a).app = a
  BY DEF ImportRow
<1>3. "script" # "import"
  OBVIOUS
<1>4. QED
  BY <1>1, <1>2, <1>3

(* Each script of the order stands in it once, and the plan has as many script
   rows as there are scripts.                                                 *)
LEMMA ScriptsOnce ==
    ASSUME NEW O \in Seq(InstallScripts), NEW T \in SUBSET (Nat \ {Schema}), NEW S, ToSet(O) = S,
           \A p, q \in DOMAIN O : O[p] = O[q] => p = q
    PROVE  /\ \A s \in S : Cardinality({i \in DOMAIN O : O[i] = s}) = 1
           /\ Cardinality({i \in DOMAIN DeploymentSequence(O, T) :
                              DeploymentSequence(O, T)[i].kind = "script"}) = Cardinality(S)
<1> DEFINE steps == DeploymentSequence(O, T)
           X == {k \in DOMAIN steps : steps[k].kind = "script"}
<1>1. PICK n, at : PlanShape(O, T, n, at)
  BY PlanOrdered
<1>2. /\ n \in Nat /\ \A p \in Places(O, T) : \E k \in 1..n : at[k] = p
      /\ \A i, j \in 1..n : at[i] = at[j] => i = j
      /\ DOMAIN steps = 1..n
  BY <1>1 DEF PlanShape
<1>3. ASSUME NEW s \in S PROVE Cardinality({i \in DOMAIN O : O[i] = s}) = 1
  <2>1. PICK i \in DOMAIN O : O[i] = s
    BY DEF ToSet
  <2>2. {j \in DOMAIN O : O[j] = s} = {i}
    BY <2>1
  <2>3. QED
    BY <2>2, FS_Singleton
<1>4. ASSUME NEW k \in X
      PROVE  \E i \in DOMAIN O : at[k] = <<i, Schema>> /\ at[k][1] = i
  <2>1. k \in 1..n /\ steps[k].kind = "script"
    BY <1>2
  <2>2. ASSUME NEW a, steps[k] = ImportRow(a) PROVE FALSE
    BY <2>1, <2>2, KindsDiffer
  <2>3. QED
    BY <2>1, <2>2, <1>1, RowIs
<1>5. ASSUME NEW i \in DOMAIN O PROVE \E k \in X : at[k][1] = i
  <2>1. <<i, Schema>> \in Places(O, T)
    BY PlacesAre DEF ScriptPlaces
  <2>2. PICK k \in 1..n : at[k] = <<i, Schema>>
    BY <1>2, <2>1
  <2>3. at[k][1] = i /\ at[k][2] = Schema
    BY <2>2
  <2>4. steps[k] = Row(O[i])
    BY <2>3, <1>1 DEF PlanShape, RowAt
  <2>5. k \in X
    BY <2>4, <1>2, KindsDiffer
  <2>6. QED
    BY <2>3, <2>5
<1> DEFINE f == [k \in X |-> O[at[k][1]]]
<1>6. f \in [X -> S]
  <2>1. ASSUME NEW k \in X PROVE O[at[k][1]] \in S
    BY <1>4 DEF ToSet
  <2>2. QED
    BY <2>1
<1>7. \A k, l \in X : f[k] = f[l] => k = l
  <2>1. SUFFICES ASSUME NEW k \in X, NEW l \in X, f[k] = f[l] PROVE k = l
    OBVIOUS
  <2>2. PICK i \in DOMAIN O : at[k] = <<i, Schema>> /\ at[k][1] = i
    BY <1>4
  <2>3. PICK j \in DOMAIN O : at[l] = <<j, Schema>> /\ at[l][1] = j
    BY <1>4
  <2>4. i = j
    BY <2>1, <2>2, <2>3
  <2>5. k \in 1..n /\ l \in 1..n
    BY <1>2
  <2>6. QED
    BY <2>2, <2>3, <2>4, <2>5, <1>2
<1>8. \A s \in S : \E k \in X : f[k] = s
  <2>1. SUFFICES ASSUME NEW s \in S PROVE \E k \in X : f[k] = s
    OBVIOUS
  <2>2. PICK i \in DOMAIN O : O[i] = s
    BY DEF ToSet
  <2>3. PICK k \in X : at[k][1] = i
    BY <1>5
  <2>4. QED
    BY <2>2, <2>3
<1>9. IsFiniteSet(X)
  <2>1. IsFiniteSet(1..n)
    BY <1>2, FS_Interval
  <2>2. X \in SUBSET (1..n)
    BY <1>2
  <2>3. QED
    BY <2>1, <2>2, FS_Subset
<1> HIDE DEF f
<1>10. f \in Bijection(X, S)
  BY <1>6, <1>7, <1>8 DEF Bijection, Injection, Surjection, IsInjective
<1>11. Cardinality(X) = Cardinality(S)
  <2> HIDE DEF X
  <2>1. ExistsBijection(X, S)
    BY <1>10 DEF ExistsBijection
  <2>2. QED
    BY <1>9, <2>1, FS_Bijection
<1>12. QED
  BY <1>3, <1>11

(* Each exported application of the order is imported by one row of the plan.  *)
LEMMA ImportsOnce ==
    ASSUME NEW O \in Seq(InstallScripts), NEW T \in SUBSET (Nat \ {Schema}),
           NEW a \in T, \E i \in DOMAIN O : O[i].app = a
    PROVE  Cardinality({i \in DOMAIN DeploymentSequence(O, T) :
                           DeploymentSequence(O, T)[i] = ImportRow(a)}) = 1
<1> DEFINE steps == DeploymentSequence(O, T)
<1>1. PICK n, at : PlanShape(O, T, n, at)
  BY PlanOrdered
<1>2. /\ n \in Nat /\ \A p \in Places(O, T) : \E k \in 1..n : at[k] = p
      /\ \A i, j \in 1..n : at[i] = at[j] => i = j
      /\ DOMAIN steps = 1..n
  BY <1>1 DEF PlanShape
<1>3. <<Place(O, a), a>> \in Places(O, T)
  BY PlacesAre DEF ImportPlaces
<1>4. PICK k \in 1..n : at[k] = <<Place(O, a), a>>
  BY <1>2, <1>3
<1>5. at[k][2] = a /\ a # Schema
  <2>1. a \in T
    OBVIOUS
  <2>2. QED
    BY <2>1, <1>4
<1>6. steps[k] = ImportRow(a)
  BY <1>5, <1>1 DEF PlanShape, RowAt
<1>7. ASSUME NEW j \in 1..n, steps[j] = ImportRow(a) PROVE j = k
  <2>1. \A i \in DOMAIN O : steps[j] # Row(O[i])
    BY <1>7, KindsDiffer
  <2>2. PICK b \in {O[i].app : i \in DOMAIN O} \cap T :
            at[j] = <<Place(O, b), b>> /\ steps[j] = ImportRow(b)
    BY <2>1, <1>1, RowIs
  <2>3. b = a
    <3>1. ImportRow(b) = ImportRow(a)
      BY <1>7, <2>2
    <3>2. QED
      BY <3>1, KindsDiffer, Zenon
  <2>4. QED
    BY <1>2, <1>4, <2>2, <2>3
<1>8. {i \in DOMAIN steps : steps[i] = ImportRow(a)} = {k}
  BY <1>2, <1>6, <1>7
<1>9. QED
  BY <1>8, FS_Singleton

(* The import of an opened application comes right behind its last opener, and
   whatever stands behind that opener comes behind the import.                *)
LEMMA ImportBetween ==
    ASSUME NEW O \in Seq(InstallScripts), NEW T \in SUBSET (Nat \ {Schema}),
           \A p, q \in DOMAIN O : O[p] = O[q] => p = q,
           NEW i \in DOMAIN DeploymentSequence(O, T), NEW a,
           DeploymentSequence(O, T)[i] = ImportRow(a),
           NEW s0 \in ToSet(O), s0.app = a, s0.stage # "end"
    PROVE  /\ \E s \in ToSet(O) : /\ s.app = a /\ s.stage # "end"
                                  /\ DeploymentSequence(O, T)[i - 1] = Row(s)
           /\ \A k \in DOMAIN DeploymentSequence(O, T) :
                 /\ DeploymentSequence(O, T)[k].app = a
                 /\ DeploymentSequence(O, T)[k].kind = "script" /\ k > i
                 => DeploymentSequence(O, T)[k].ends
           /\ \A t \in ToSet(O) :
                 /\ t.app = a
                 /\ \A s \in ToSet(O) : s.app = a /\ s.stage # "end" => Ahead(O, s, t)
                 => \E k \in DOMAIN DeploymentSequence(O, T) :
                       k > i /\ DeploymentSequence(O, T)[k] = Row(t)
<1> DEFINE steps == DeploymentSequence(O, T)
           openers == {j \in DOMAIN O : O[j].app = a /\ O[j].stage # "end"}
           m == Slot(O, a)
<1>1. PICK n, at : PlanShape(O, T, n, at)
  BY PlanOrdered
<1>2. /\ n \in Nat /\ \A p \in Places(O, T) : \E k \in 1..n : at[k] = p
      /\ \A k, j \in 1..n : k < j <=> Earlier(at[k], at[j])
      /\ \A k, j \in 1..n : at[k] = at[j] => k = j
      /\ DOMAIN steps = 1..n /\ i \in 1..n
  BY <1>1 DEF PlanShape
<1>3. at[i] = <<Place(O, a), a>> /\ a \in T
  <2>1. \A j \in DOMAIN O : steps[i] # Row(O[j])
    BY KindsDiffer
  <2>2. PICK b \in {O[j].app : j \in DOMAIN O} \cap T :
            at[i] = <<Place(O, b), b>> /\ steps[i] = ImportRow(b)
    BY <2>1, <1>1, <1>2, RowIs
  <2>3. b = a
    <3>1. ImportRow(b) = ImportRow(a)
      BY <2>2
    <3>2. QED
      BY <3>1, KindsDiffer, Zenon
  <2>4. QED
    BY <2>2, <2>3
<1>4. a \in Nat /\ a > 0 /\ a # Schema
  <2>1. a \in T
    BY <1>3
  <2>2. QED
    BY <2>1 DEF Schema
<1>5. openers # {}
  BY DEF ToSet
<1>6. m \in openers /\ Place(O, a) = m /\ \A j \in openers : j <= m
  BY <1>5, SlotOf
<1>7. DOMAIN O = 1..Len(O) /\ Len(O) \in Nat /\ m \in DOMAIN O /\ O[m].app = a /\ O[m].stage # "end"
  BY <1>6
<1>8. ASSUME NEW k \in 1..n
      PROVE  \/ \E j \in DOMAIN O : at[k] = <<j, Schema>> /\ steps[k] = Row(O[j])
             \/ \E b \in T : at[k] = <<Place(O, b), b>> /\ steps[k] = ImportRow(b)
  <2>1. CASE \E j \in DOMAIN O : /\ at[k] = <<j, Schema>> /\ at[k][1] = j
                                 /\ DeploymentSequence(O, T)[k] = Row(O[j])
    BY <2>1
  <2>2. CASE \E b \in {O[j].app : j \in DOMAIN O} \cap T :
                /\ at[k] = <<Place(O, b), b>> /\ b # Schema
                /\ DeploymentSequence(O, T)[k] = ImportRow(b)
    BY <2>2
  <2>3. QED
    BY <2>1, <2>2, <1>1, RowIs
<1> HIDE DEF m, openers, steps
<1>9. at[i] = <<m, a>> /\ m \in Nat
  BY <1>3, <1>6, <1>7
<1>10. ASSUME NEW j \in DOMAIN O
      PROVE  \E k \in 1..n : at[k] = <<j, Schema>> /\ steps[k] = Row(O[j])
  <2>1. <<j, Schema>> \in Places(O, T)
    BY PlacesAre DEF ScriptPlaces
  <2>2. PICK k \in 1..n : at[k] = <<j, Schema>>
    BY <1>2, <2>1
  <2>3. at[k][1] = j /\ at[k][2] = Schema
    BY <2>2
  <2>4. steps[k] = Row(O[j])
    BY <2>3, <1>1 DEF PlanShape, RowAt, steps
  <2>5. QED
    BY <2>2, <2>4
<1>11. \E s \in ToSet(O) : s.app = a /\ s.stage # "end" /\ steps[i - 1] = Row(s)
  <2>1. PICK k \in 1..n : at[k] = <<m, Schema>> /\ steps[k] = Row(O[m])
    BY <1>7, <1>10
  <2>2. Earlier(at[k], at[i])
    BY <2>1, <1>4, <1>9 DEF Earlier, Schema
  <2>3. k < i
    BY <2>2, <1>2
  <2>4. k = i - 1
    <3>1. SUFFICES ASSUME k # i - 1 PROVE FALSE
      OBVIOUS
    <3>2. i - 1 \in 1..n /\ k < i - 1 /\ i - 1 < i
      BY <2>3, <3>1, <1>2
    <3>3. Earlier(<<m, Schema>>, at[i - 1]) /\ Earlier(at[i - 1], <<m, a>>)
      <4>1. Earlier(at[k], at[i - 1]) /\ Earlier(at[i - 1], at[i])
        BY <3>2, <1>2
      <4>2. QED
        BY <4>1, <2>1, <1>9
    <3>4. ASSUME NEW j \in DOMAIN O, at[i - 1] = <<j, Schema>> PROVE FALSE
      <4>1. j \in Nat /\ Earlier(<<m, Schema>>, <<j, Schema>>) /\ Earlier(<<j, Schema>>, <<m, a>>)
        BY <3>3, <3>4, <1>7
      <4>2. QED
        BY <4>1, <1>4, <1>9 DEF Earlier, Schema
    <3>5. ASSUME NEW b \in T, at[i - 1] = <<Place(O, b), b>> PROVE FALSE
      <4>1. b \in Nat /\ Earlier(<<m, Schema>>, <<Place(O, b), b>>)
            /\ Earlier(<<Place(O, b), b>>, <<m, a>>)
        BY <3>3, <3>5
      <4>2. Place(O, b) = Len(O) + 1 \/ (Place(O, b) \in DOMAIN O /\ O[Place(O, b)].app = b)
        BY SlotOf
      <4>3. Place(O, b) \in Nat
        BY <4>2, <1>7
      <4>4. Place(O, b) = m /\ b < a
        BY <4>1, <4>3, <1>4, <1>9 DEF Earlier, Schema
      <4>5. QED
        BY <4>2, <4>4, <1>4, <1>7
    <3>6. QED
      BY <3>2, <3>4, <3>5, <1>8
  <2>5. QED
    BY <2>1, <2>4, <1>7 DEF ToSet
<1>12. ASSUME NEW k \in 1..n, steps[k].app = a, steps[k].kind = "script", k > i
       PROVE  steps[k].ends
  <2>1. \A b : steps[k] # ImportRow(b)
    BY <1>12, KindsDiffer
  <2>2. PICK j \in DOMAIN O : at[k] = <<j, Schema>> /\ steps[k] = Row(O[j])
    BY <2>1, <1>8
  <2>3. O[j].app = a
    BY <1>12, <2>2, KindsDiffer
  <2>4. Earlier(<<m, a>>, <<j, Schema>>) /\ j \in Nat
    <3>1. i < k
      BY <1>12, <1>2
    <3>2. Earlier(at[i], at[k])
      BY <3>1, <1>2
    <3>3. QED
      BY <3>2, <2>2, <1>7, <1>9
  <2>5. m < j
    BY <2>4, <1>4, <1>9 DEF Earlier, Schema
  <2>6. j \notin openers
    BY <2>4, <2>5, <1>6, <1>9
  <2>7. O[j].stage = "end"
    BY <2>3, <2>6 DEF openers
  <2>8. QED
    <3>1. Row(O[j]).ends
      BY <2>3, <2>7, <1>4 DEF Row
    <3>2. QED
      BY <2>2, <3>1
<1>13. ASSUME NEW t \in ToSet(O), t.app = a,
              \A s \in ToSet(O) : s.app = a /\ s.stage # "end" => Ahead(O, s, t)
       PROVE  \E k \in 1..n : k > i /\ steps[k] = Row(t)
  <2>1. Ahead(O, O[m], t)
    BY <1>7, <1>13 DEF ToSet
  <2>2. PICK x \in DOMAIN O, j \in DOMAIN O : x < j /\ O[x] = O[m] /\ O[j] = t
    BY <2>1 DEF Ahead
  <2>3. m < j /\ j \in Nat
    BY <2>2, <1>7
  <2>4. PICK k \in 1..n : at[k] = <<j, Schema>> /\ steps[k] = Row(O[j])
    BY <1>10
  <2>5. Earlier(at[i], at[k])
    BY <2>3, <2>4, <1>9 DEF Earlier
  <2>6. k > i
    BY <2>5, <1>2
  <2>7. QED
    BY <2>2, <2>4, <2>6
<1>14. QED
  BY <1>2, <1>11, <1>12, <1>13 DEF steps

-----------------------------------------------------------------------------
(* What a build writes: nothing, or every script of the folder once.          *)
LEMMA Written ==
    ASSUME NEW S \in SUBSET InstallScripts, IsFiniteSet(S), NEW L, NEW lines \in Seq(L),
           NEW force \in BOOLEAN
    PROVE  LET W == WrittenDriver(lines, S, force)
           IN  /\ W \in Seq(S)
               /\ \A p, q \in DOMAIN W : W[p] = W[q] => p = q
               /\ W = <<>> \/ \A s \in S : \E p \in DOMAIN W : W[p] = s
<1> DEFINE W == WrittenDriver(lines, S, force)
           K == Kept(lines, S)
<1>1. CASE Cardinality(S) < 2
  <2>1. W = <<>>
    BY <1>1 DEF WrittenDriver
  <2>2. QED
    BY <2>1
<1>2. CASE ~(Cardinality(S) < 2) /\ lines # <<>> /\ ~force
  <2>1. W = MergedOrder(DefaultOrder(S), K)
    BY <1>2 DEF WrittenDriver
  <2>2. K \in Seq(S) /\ \A p, q \in DOMAIN K : K[p] = K[q] => p = q
    BY KeptOrdered
  <2> HIDE DEF W, K
  <2>3. /\ W \in Seq(S) /\ \A p, q \in DOMAIN W : W[p] = W[q] => p = q
        /\ \A s \in S : \E p \in DOMAIN W : W[p] = s
    BY <2>1, <2>2, MergedOrdered
  <2>4. QED
    BY <2>3 DEF W
<1>3. CASE ~(Cardinality(S) < 2) /\ ~(lines # <<>> /\ ~force)
  <2>1. W = DefaultOrder(S)
    BY <1>3 DEF WrittenDriver
  <2> HIDE DEF W
  <2>2. /\ W \in Seq(S) /\ DOMAIN W = 1..Cardinality(S) /\ Cardinality(S) \in Nat
        /\ \A s \in S : \E p \in DOMAIN W : W[p] = s
        /\ \A i, j \in DOMAIN W : i < j <=> RunsBefore(W[i], W[j])
    BY <2>1, DefaultOrdered
  <2>3. \A p, q \in DOMAIN W : W[p] = W[q] => p = q
    BY <2>2, Distinct
  <2>4. QED
    BY <2>2, <2>3 DEF W
<1>4. QED
  BY <1>1, <1>2, <1>3

(* Removing a line leaves a sequence of lines, one shorter.                    *)
LEMMA Removed ==
    ASSUME NEW L, NEW s \in Seq(L), NEW i \in DOMAIN s
    PROVE  RemoveAt(s, i) \in Seq(L) /\ Len(RemoveAt(s, i)) = Len(s) - 1
<1>1. Len(s) \in Nat /\ i \in 1..Len(s) /\ \A j \in 1..Len(s) : s[j] \in L
  OBVIOUS
<1>2. SubSeq(s, 1, i - 1) \in Seq(L) /\ Len(SubSeq(s, 1, i - 1)) = i - 1
  BY <1>1
<1>3. SubSeq(s, i + 1, Len(s)) \in Seq(L) /\ Len(SubSeq(s, i + 1, Len(s))) = Len(s) - i
  BY <1>1
<1>4. /\ SubSeq(s, 1, i - 1) \o SubSeq(s, i + 1, Len(s)) \in Seq(L)
      /\ Len(SubSeq(s, 1, i - 1) \o SubSeq(s, i + 1, Len(s))) = (i - 1) + (Len(s) - i)
  BY <1>2, <1>3, ConcatProperties
<1>5. (i - 1) + (Len(s) - i) = Len(s) - 1
  BY <1>1
<1>6. QED
  BY <1>4, <1>5 DEF RemoveAt

(* Inserting a line leaves a sequence of lines.                                *)
LEMMA Inserted ==
    ASSUME NEW L, NEW s \in Seq(L), NEW i \in 1..(Len(s) + 1), NEW e \in L
    PROVE  InsertAt(s, i, e) \in Seq(L)
<1>1. Len(s) \in Nat /\ \A j \in 1..Len(s) : s[j] \in L
  OBVIOUS
<1>2. SubSeq(s, 1, i - 1) \in Seq(L) /\ SubSeq(s, i, Len(s)) \in Seq(L) /\ <<e>> \in Seq(L)
  BY <1>1
<1>3. QED
  BY <1>2 DEF InsertAt

-----------------------------------------------------------------------------
(* The folder holds finitely many scripts of the patch, and DEPLOY.sql lines
   that link them or nothing.                                                 *)
OrderInv == OrderTypeOK /\ IsFiniteSet(scripts)

(* A build is a finite, nonempty set of the patch's scripts.                   *)
LEMMA BuildsAre ==
    ASSUME NEW S \in Builds
    PROVE  S \in SUBSET InstallScripts /\ IsFiniteSet(S) /\ S \subseteq PatchScripts /\ S # {}
  BY OrderAssumption DEF PatchScripts

(* Neither a build nor a hand edit leaves those types.                         *)
LEMMA OrderInvStep == OrderInv /\ [OrderNext]_orderVars => OrderInv'
<1> SUFFICES ASSUME OrderInv, [OrderNext]_orderVars PROVE OrderInv'
  OBVIOUS
<1> DEFINE L == PatchScripts \cup {Stray}
<1>1. /\ scripts \subseteq PatchScripts /\ driver \in Seq(L) /\ handEdits \in 0..MaxHandEdits
      /\ IsFiniteSet(scripts) /\ MaxHandEdits \in Nat
  BY OrderAssumption DEF OrderInv, OrderTypeOK
<1>2. EditFolder => handEdits' \in 0..MaxHandEdits
  BY <1>1 DEF EditFolder
<1>3. ASSUME NEW S \in Builds, NEW force \in BOOLEAN, Create(S, force) PROVE OrderInv'
  <2>1. S \in SUBSET InstallScripts /\ IsFiniteSet(S) /\ S \subseteq PatchScripts
    BY BuildsAre
  <2>2. WrittenDriver(driver, S, force) \in Seq(S)
    BY <1>1, <2>1, Written
  <2>3. driver' \in Seq(L)
    BY <2>1, <2>2, <1>3, SeqMonotonic DEF Create
  <2>4. QED
    BY <2>1, <2>3, <1>1, <1>3 DEF Create, OrderInv, OrderTypeOK
<1>4. ASSUME MoveLine PROVE OrderInv'
  <2>1. PICK i \in DOMAIN driver, j \in DOMAIN driver :
            EditFolder /\ driver' = InsertAt(RemoveAt(driver, i), j, driver[i]) /\ UNCHANGED scripts
    BY <1>4 DEF MoveLine
  <2>2. RemoveAt(driver, i) \in Seq(L) /\ Len(RemoveAt(driver, i)) = Len(driver) - 1
    BY <1>1, Removed
  <2>3. j \in 1..(Len(RemoveAt(driver, i)) + 1) /\ driver[i] \in L
    BY <1>1, <2>2
  <2> HIDE DEF L
  <2>4. driver' \in Seq(L)
    BY <2>1, <2>2, <2>3, Inserted
  <2>5. QED
    BY <2>1, <2>4, <1>1, <1>2 DEF OrderInv, OrderTypeOK, L
<1>5. ASSUME DeleteLine PROVE OrderInv'
  <2>1. PICK i \in DOMAIN driver :
            EditFolder /\ driver' = RemoveAt(driver, i) /\ UNCHANGED scripts
    BY <1>5 DEF DeleteLine
  <2>2. driver' \in Seq(L)
    BY <2>1, <1>1, Removed
  <2>3. QED
    BY <2>1, <2>2, <1>1, <1>2 DEF OrderInv, OrderTypeOK
<1>6. ASSUME AddLine PROVE OrderInv'
  <2>1. PICK e \in L, i \in 1..(Len(driver) + 1) :
            EditFolder /\ driver' = InsertAt(driver, i, e) /\ UNCHANGED scripts
    BY <1>6 DEF AddLine
  <2> HIDE DEF L
  <2>2. driver' \in Seq(L)
    BY <2>1, <1>1, Inserted
  <2>3. QED
    BY <2>1, <2>2, <1>1, <1>2 DEF OrderInv, OrderTypeOK, L
<1>7. ASSUME DeleteScript PROVE OrderInv'
  <2>1. PICK s \in scripts : EditFolder /\ scripts' = scripts \ {s} /\ UNCHANGED driver
    BY <1>7 DEF DeleteScript
  <2>2. IsFiniteSet(scripts')
    BY <2>1, <1>1, FS_RemoveElement
  <2>3. QED
    BY <2>1, <2>2, <1>1, <1>2 DEF OrderInv, OrderTypeOK
<1>8. CASE UNCHANGED orderVars
  BY <1>8, <1>1 DEF OrderInv, OrderTypeOK, orderVars
<1>9. QED
  BY <1>3, <1>4, <1>5, <1>6, <1>7, <1>8 DEF OrderNext

(* The types of the folder and of DEPLOY.sql, for any builds.                  *)
THEOREM OrderTypeCorrect == OrderSpec => []OrderInv
<1>1. OrderInit => OrderInv
  BY OrderAssumption, FS_EmptySet DEF OrderInit, OrderInv, OrderTypeOK
<1>2. QED
  BY <1>1, OrderInvStep, PTL DEF OrderSpec

-----------------------------------------------------------------------------
(* What a deploy that is not refused goes by: every script of the folder once. *)
LEMMA OrderOnce ==
    ASSUME OrderInv, Deployable
    PROVE  /\ order \in Seq(InstallScripts) /\ ToSet(order) = scripts
           /\ \A p, q \in DOMAIN order : order[p] = order[q] => p = q
           /\ Exported \in SUBSET (Nat \ {Schema})
<1>1. /\ scripts \in SUBSET InstallScripts /\ IsFiniteSet(scripts)
      /\ driver \in Seq(PatchScripts \cup {Stray}) /\ Exported \in SUBSET (Nat \ {Schema})
  BY OrderAssumption DEF OrderInv, OrderTypeOK, PatchScripts
<1>2. CASE driver = <<>>
  <2> DEFINE D == DefaultOrder(scripts)
  <2>1. order = D
    BY <1>2 DEF order, DeployOrder
  <2>2. /\ D \in Seq(scripts) /\ \A s \in scripts : \E k \in DOMAIN D : D[k] = s
        /\ \A i, j \in DOMAIN D : i < j <=> RunsBefore(D[i], D[j])
    BY <1>1, DefaultOrdered
  <2> HIDE DEF D
  <2>3. \A i, j \in DOMAIN D : D[i] = D[j] => i = j
    BY <1>1, <2>2, Distinct
  <2>4. ToSet(D) = scripts
    BY <2>2 DEF ToSet
  <2>5. D \in Seq(InstallScripts)
    BY <1>1, <2>2, SeqMonotonic
  <2>6. QED
    BY <1>1, <2>1, <2>3, <2>4, <2>5
<1>3. CASE driver # <<>>
  <2>1. order = driver
    BY <1>3 DEF order, DeployOrder
  <2>2. /\ scripts \ ToSet(driver) = {} /\ ToSet(driver) \ scripts = {}
        /\ \A i, j \in DOMAIN driver : driver[i] = driver[j] => i = j
    BY <1>3 DEF Deployable, Disagrees
  <2>3. ToSet(driver) = scripts
    BY <2>2
  <2>4. driver \in Seq(InstallScripts)
    <3>1. \A i \in DOMAIN driver : driver[i] \in InstallScripts
      BY <1>1, <2>3 DEF ToSet
    <3>2. QED
      BY <1>1, <3>1
  <2>5. QED
    BY <1>1, <2>1, <2>2, <2>3, <2>4
<1>4. QED
  BY <1>2, <1>3

(* A deploy that is not refused runs every script of the folder once and
   imports each of its exported applications once, whatever was built and
   edited before.                                                             *)
THEOREM EverythingRunsOnce == OrderSpec => []EverythingOnce
<1>1. OrderInv => EverythingOnce
  <2>1. SUFFICES ASSUME OrderInv, Deployable
                 PROVE  /\ \A s \in scripts : Cardinality({i \in DOMAIN order : order[i] = s}) = 1
                        /\ Cardinality({i \in DOMAIN plan : plan[i].kind = "script"})
                              = Cardinality(scripts)
                        /\ \A a \in {s.app : s \in scripts} \cap Exported :
                              Cardinality({i \in DOMAIN plan : plan[i] = ImportRow(a)}) = 1
    BY DEF EverythingOnce
  <2>2. /\ order \in Seq(InstallScripts) /\ ToSet(order) = scripts
        /\ \A p, q \in DOMAIN order : order[p] = order[q] => p = q
        /\ Exported \in SUBSET (Nat \ {Schema})
    BY <2>1, OrderOnce
  <2>3. plan = DeploymentSequence(order, Exported)
    BY DEF plan
  <2>4. /\ \A s \in scripts : Cardinality({i \in DOMAIN order : order[i] = s}) = 1
        /\ Cardinality({i \in DOMAIN plan : plan[i].kind = "script"}) = Cardinality(scripts)
    BY <2>2, <2>3, ScriptsOnce
  <2>5. ASSUME NEW a \in {s.app : s \in scripts} \cap Exported
        PROVE  Cardinality({i \in DOMAIN plan : plan[i] = ImportRow(a)}) = 1
    <3>1. a \in Exported /\ \E i \in DOMAIN order : order[i].app = a
      BY <2>2 DEF ToSet
    <3>2. QED
      BY <2>2, <2>3, <3>1, ImportsOnce
  <2>6. QED
    BY <2>4, <2>5
<1>2. QED
  BY <1>1, OrderTypeCorrect, PTL

(* Wherever a person moved the lines, an import stands right behind what opens
   its application, and ahead of the `end` half that stands behind that.       *)
THEOREM ImportsBetweenHalves == OrderSpec => []ImportBetweenHalves
<1>1. OrderInv => ImportBetweenHalves
  <2>1. SUFFICES ASSUME OrderInv, Deployable, NEW i \in DOMAIN plan, plan[i].kind = "import",
                        {s \in scripts : s.app = plan[i].app /\ s.stage # "end"} # {}
                 PROVE  LET a == plan[i].app
                            mine == {k \in DOMAIN plan : plan[k].app = a /\ plan[k].kind = "script"}
                            openers == {s \in scripts : s.app = a /\ s.stage # "end"}
                        IN  /\ \E s \in openers : plan[i - 1] = Row(s)
                            /\ \A k \in mine : k > i => plan[k].ends
                            /\ \A t \in scripts :
                                  t.app = a /\ t.stage = "end" /\ (\A s \in openers : Ahead(order, s, t))
                                      => \E k \in mine : k > i /\ plan[k] = Row(t)
    BY DEF ImportBetweenHalves
  <2> DEFINE a == plan[i].app
  <2>2. /\ order \in Seq(InstallScripts) /\ ToSet(order) = scripts
        /\ \A p, q \in DOMAIN order : order[p] = order[q] => p = q
        /\ Exported \in SUBSET (Nat \ {Schema})
    BY <2>1, OrderOnce
  <2>3. plan = DeploymentSequence(order, Exported)
    BY DEF plan
  <2>4. plan[i] = ImportRow(a)
    <3>1. PICK n, at : PlanShape(order, Exported, n, at)
      BY <2>2, PlanOrdered
    <3>2. i \in 1..n
      BY <2>3, <3>1 DEF PlanShape
    <3>3. \A s : plan[i] # Row(s)
      BY <2>1, KindsDiffer
    <3>4. \E b : plan[i] = ImportRow(b)
      BY <2>2, <2>3, <3>1, <3>2, <3>3, RowIs
    <3>5. QED
      BY <3>4, KindsDiffer
  <2>5. PICK s0 \in scripts : s0.app = a /\ s0.stage # "end"
    BY <2>1
  <2> HIDE DEF a
  <2>6. /\ \E s \in scripts : s.app = a /\ s.stage # "end" /\ plan[i - 1] = Row(s)
        /\ \A k \in DOMAIN plan : plan[k].app = a /\ plan[k].kind = "script" /\ k > i => plan[k].ends
        /\ \A t \in scripts :
              /\ t.app = a
              /\ \A s \in scripts : s.app = a /\ s.stage # "end" => Ahead(order, s, t)
              => \E k \in DOMAIN plan : k > i /\ plan[k] = Row(t)
    BY <2>2, <2>3, <2>4, <2>5, ImportBetween
  <2>7. \A t \in scripts : \A k \in DOMAIN plan :
            t.app = a /\ plan[k] = Row(t) => plan[k].app = a /\ plan[k].kind = "script"
    BY KindsDiffer
  <2>8. QED
    BY <2>6, <2>7 DEF a
<1>2. QED
  BY <1>1, OrderTypeCorrect, PTL

-----------------------------------------------------------------------------
(* What a build that was not forced leaves, given what was there.              *)
LEMMA Recreated ==
    ASSUME OrderInv, NEW force \in BOOLEAN, Recreates(force)
    PROVE  /\ scripts' \in SUBSET InstallScripts /\ IsFiniteSet(scripts')
           /\ driver \in Seq(PatchScripts \cup {Stray})
           /\ driver' = WrittenDriver(driver, scripts', force)
           /\ Kept(driver, scripts') \in Seq(scripts')
           /\ \A p, q \in DOMAIN Kept(driver, scripts') :
                 Kept(driver, scripts')[p] = Kept(driver, scripts')[q] => p = q
<1>1. scripts' \in Builds /\ driver' = WrittenDriver(driver, scripts', force)
  BY DEF Recreates, Create
<1>2. scripts' \in SUBSET InstallScripts /\ IsFiniteSet(scripts')
  BY <1>1, BuildsAre
<1>3. driver \in Seq(PatchScripts \cup {Stray})
  BY DEF OrderInv, OrderTypeOK
<1>4. /\ Kept(driver, scripts') \in Seq(scripts')
      /\ \A p, q \in DOMAIN Kept(driver, scripts') :
            Kept(driver, scripts')[p] = Kept(driver, scripts')[q] => p = q
  BY <1>3, KeptOrdered
<1>5. QED
  BY <1>1, <1>2, <1>3, <1>4

(* Two scripts make a DEPLOY.sql.                                              *)
LEMMA TwoScripts ==
    ASSUME NEW S, IsFiniteSet(S), NEW s \in S, NEW t \in S, s # t
    PROVE  ~(Cardinality(S) < 2)
<1>1. IsFiniteSet({s}) /\ Cardinality({s}) = 1
  BY FS_Singleton
<1>2. IsFiniteSet({s} \cup {t}) /\ Cardinality({s} \cup {t}) = 2
  <2>1. t \notin {s}
    OBVIOUS
  <2>2. Cardinality({s} \cup {t}) = Cardinality({s}) + 1 /\ IsFiniteSet({s} \cup {t})
    BY <1>1, <2>1, FS_AddElement
  <2>3. QED
    BY <1>1, <2>2
<1>3. Cardinality({s} \cup {t}) <= Cardinality(S)
  BY <1>2, FS_Subset
<1>4. Cardinality(S) \in Nat
  BY FS_CardinalityType
<1>5. QED
  BY <1>2, <1>3, <1>4

(* Whatever was in the folder, a build leaves one that deploys.                *)
THEOREM EveryCreateRepairs == OrderSpec => CreateRepairs
<1>1. ASSUME OrderInv, NEW force \in BOOLEAN, Recreates(force) PROVE (~Disagrees(driver, scripts))'
  <2>1. /\ scripts' \in SUBSET InstallScripts /\ IsFiniteSet(scripts')
        /\ driver \in Seq(PatchScripts \cup {Stray})
        /\ driver' = WrittenDriver(driver, scripts', force)
    BY <1>1, Recreated
  <2>2. /\ driver' \in Seq(scripts')
        /\ \A p, q \in DOMAIN driver' : driver'[p] = driver'[q] => p = q
        /\ driver' = <<>> \/ \A s \in scripts' : \E p \in DOMAIN driver' : driver'[p] = s
    BY <2>1, Written
  <2>3. CASE driver' = <<>>
    BY <2>3 DEF Disagrees
  <2>4. CASE driver' # <<>>
    <3>1. ToSet(driver') = scripts'
      BY <2>2, <2>4 DEF ToSet
    <3>2. QED
      BY <2>2, <3>1 DEF Disagrees
  <2>5. QED
    BY <2>3, <2>4
<1>2. OrderInv => (Recreates(FALSE) \/ Recreates(TRUE) => (~Disagrees(driver, scripts))')
  BY <1>1
<1>3. QED
  BY <1>2, OrderTypeCorrect, PTL DEF CreateRepairs

(* A build keeps the order a person gave the scripts it still generates.       *)
THEOREM CreateKeepsOrder == OrderSpec => OrderKept
<1>1. ASSUME OrderInv, Recreates(FALSE), NEW s \in scripts', NEW t \in scripts',
             Ahead(Kept(driver, scripts'), s, t), driver # <<>>
      PROVE  Ahead(driver', s, t) /\ ~Ahead(driver', t, s)
  <2> DEFINE K == Kept(driver, scripts')
             M == MergedOrder(DefaultOrder(scripts'), K)
  <2>1. /\ scripts' \in SUBSET InstallScripts /\ IsFiniteSet(scripts')
        /\ driver' = WrittenDriver(driver, scripts', FALSE)
        /\ K \in Seq(scripts') /\ \A p, q \in DOMAIN K : K[p] = K[q] => p = q
    BY <1>1, Recreated
  <2>2. Ahead(K, s, t) /\ s # t
    BY <1>1, <2>1 DEF Ahead
  <2>3. driver' = M
    BY <2>1, <2>2, <1>1, TwoScripts DEF WrittenDriver
  <2> HIDE DEF K
  <2>4. /\ M \in Seq(scripts') /\ \A p, q \in DOMAIN M : M[p] = M[q] => p = q
        /\ Ahead(M, s, t)
    BY <2>1, <2>2, MergedOrdered
  <2> HIDE DEF M
  <2>5. ~Ahead(M, t, s)
    <3>1. SUFFICES ASSUME Ahead(M, t, s) PROVE FALSE
      OBVIOUS
    <3>2. PICK i \in DOMAIN M, j \in DOMAIN M : i < j /\ M[i] = s /\ M[j] = t
      BY <2>4 DEF Ahead
    <3>3. PICK x \in DOMAIN M, y \in DOMAIN M : x < y /\ M[x] = t /\ M[y] = s
      BY <3>1 DEF Ahead
    <3>4. i = y /\ j = x /\ i \in Nat /\ j \in Nat
      BY <3>2, <3>3, <2>4
    <3>5. QED
      BY <3>2, <3>3, <3>4
  <2>6. QED
    BY <2>3, <2>4, <2>5
<1>2. OrderInv => (Recreates(FALSE) =>
          \A kept \in {Kept(driver, scripts')} : \A s, t \in scripts' :
              Ahead(kept, s, t) => Ahead(driver', s, t) /\ ~Ahead(driver', t, s))
  <2>1. SUFFICES ASSUME OrderInv, Recreates(FALSE), NEW s \in scripts', NEW t \in scripts',
                        Ahead(Kept(driver, scripts'), s, t)
                 PROVE  Ahead(driver', s, t) /\ ~Ahead(driver', t, s)
    OBVIOUS
  <2>2. driver # <<>>
    BY <2>1, NothingKept DEF Ahead
  <2>3. QED
    BY <2>1, <2>2, <1>1
<1>3. QED
  BY <1>2, OrderTypeCorrect, PTL DEF OrderKept

(* A script added later deploys ahead of every kept one ranked behind it, but
   for those a person moved ahead of one ranked before it.                     *)
THEOREM NewScriptsAtTheirRank == OrderSpec => NewAtItsRank
<1>1. ASSUME OrderInv, Recreates(FALSE),
             NEW n \in scripts' \ ToSet(Kept(driver, scripts')), NEW k \in ToSet(Kept(driver, scripts')),
             RunsBefore(n, k),
             \A m \in ToSet(Kept(driver, scripts')) :
                 RunsBefore(m, n) => Ahead(Kept(driver, scripts'), m, k)
      PROVE  Ahead(DeployOrder(driver', scripts'), n, k)
  <2> DEFINE K == Kept(driver, scripts')
             M == MergedOrder(DefaultOrder(scripts'), K)
  <2>1. /\ scripts' \in SUBSET InstallScripts /\ IsFiniteSet(scripts')
        /\ driver' = WrittenDriver(driver, scripts', FALSE)
        /\ K \in Seq(scripts') /\ \A p, q \in DOMAIN K : K[p] = K[q] => p = q
    BY <1>1, Recreated
  <2>2. k \in scripts' /\ k # n
    <3>1. PICK i \in DOMAIN K : K[i] = k
      BY DEF ToSet
    <3>2. QED
      BY <2>1, <3>1
  <2>3. driver # <<>>
    BY NothingKept DEF ToSet
  <2>4. driver' = M
    BY <2>1, <2>2, <2>3, TwoScripts DEF WrittenDriver
  <2>5. /\ n \in scripts' \ ToSet(K) /\ k \in ToSet(K) /\ RunsBefore(n, k)
        /\ \A m \in ToSet(K) : RunsBefore(m, n) => Ahead(K, m, k)
    BY <1>1
  <2> HIDE DEF K
  <2>6. Ahead(M, n, k)
    BY <2>1, <2>5, MergedOrdered
  <2> HIDE DEF M
  <2>7. driver' # <<>>
    BY <2>4, <2>6 DEF Ahead
  <2>8. QED
    BY <2>4, <2>6, <2>7 DEF DeployOrder
<1>2. OrderInv => (Recreates(FALSE) =>
          \A kept \in {Kept(driver, scripts')} : \A n \in scripts' \ ToSet(kept), k \in ToSet(kept) :
              RunsBefore(n, k) /\ (\A m \in ToSet(kept) : RunsBefore(m, n) => Ahead(kept, m, k))
                  => Ahead(DeployOrder(driver', scripts'), n, k))
  BY <1>1
<1>3. QED
  BY <1>2, OrderTypeCorrect, PTL DEF NewAtItsRank
-----------------------------------------------------------------------------
(* What PatchDeploy takes for granted of the rows it walks (DeployAssumption).  *)
Walkable(steps, apps) ==
    /\ steps # <<>>
    /\ steps \in Seq([kind : {"script", "import"}, app : apps \cup {Schema}, ends : BOOLEAN])
    /\ \A i \in DOMAIN steps : steps[i].kind = "import" => steps[i].app \in apps
    /\ \A i, j \in DOMAIN steps :
          steps[i].kind = "import" /\ steps[j].kind = "import" /\ steps[i].app = steps[j].app
             => i = j

(* The plan of an order has it, for the applications of the order.             *)
LEMMA PlanWalkable ==
    ASSUME NEW O \in Seq(InstallScripts), O # <<>>, NEW T \in SUBSET (Nat \ {Schema})
    PROVE  Walkable(DeploymentSequence(O, T), {O[i].app : i \in DOMAIN O} \ {Schema})
<1> DEFINE steps == DeploymentSequence(O, T)
           apps == {O[i].app : i \in DOMAIN O} \ {Schema}
           R == [kind : {"script", "import"}, app : apps \cup {Schema}, ends : BOOLEAN]
<1>1. PICK n, at : PlanShape(O, T, n, at)
  BY PlanOrdered
<1>2. /\ n \in Nat /\ DOMAIN steps = 1..n /\ \A i, j \in 1..n : at[i] = at[j] => i = j
      /\ \A p \in Places(O, T) : \E k \in 1..n : at[k] = p
  BY <1>1 DEF PlanShape
<1>3. ASSUME NEW k \in 1..n
      PROVE  \/ \E i \in DOMAIN O : steps[k] = Row(O[i])
             \/ \E a \in apps : at[k] = <<Place(O, a), a>> /\ steps[k] = ImportRow(a)
  <2>1. \/ \E i \in DOMAIN O : steps[k] = Row(O[i])
        \/ \E a \in {O[i].app : i \in DOMAIN O} \cap T :
              /\ at[k] = <<Place(O, a), a>> /\ a # Schema
              /\ steps[k] = ImportRow(a)
    BY <1>1, RowIs
  <2>2. QED
    BY <2>1
<1>4. ASSUME NEW k \in 1..n PROVE steps[k] \in R
  <2>1. CASE \E i \in DOMAIN O : steps[k] = Row(O[i])
    BY <2>1 DEF Row
  <2>2. CASE \E a \in apps : steps[k] = ImportRow(a)
    BY <2>2 DEF ImportRow
  <2>3. QED
    BY <1>3, <2>1, <2>2
<1>5. steps \in Seq(R)
  <2>1. steps = [k \in 1..n |-> steps[k]]
    BY <1>2 DEF DeploymentSequence
  <2> HIDE DEF steps, R
  <2>2. QED
    BY <1>2, <1>4, <2>1
<1>6. steps # <<>>
  <2>1. 1 \in DOMAIN O
    OBVIOUS
  <2>2. <<1, Schema>> \in Places(O, T)
    BY <2>1, PlacesAre DEF ScriptPlaces
  <2>3. \E k \in DOMAIN steps : TRUE
    BY <1>2, <2>2
  <2> HIDE DEF steps
  <2>4. QED
    BY <2>3
<1>7. ASSUME NEW k \in 1..n, steps[k].kind = "import"
      PROVE  steps[k].app \in apps /\ at[k] = <<Place(O, steps[k].app), steps[k].app>>
  <2>1. PICK a \in apps : at[k] = <<Place(O, a), a>> /\ steps[k] = ImportRow(a)
    <3>1. \A i \in DOMAIN O : steps[k] # Row(O[i])
      BY <1>7 DEF Row
    <3>2. QED
      BY <3>1, <1>3
  <2>2. steps[k].app = a
    BY <2>1 DEF ImportRow
  <2>3. QED
    BY <2>1, <2>2
<1>8. ASSUME NEW i \in 1..n, NEW j \in 1..n, steps[i].kind = "import", steps[j].kind = "import",
             steps[i].app = steps[j].app
      PROVE  i = j
  <2>1. /\ at[i] = <<Place(O, steps[i].app), steps[i].app>>
        /\ at[j] = <<Place(O, steps[j].app), steps[j].app>>
    BY <1>7, <1>8
  <2> HIDE DEF steps
  <2>2. at[i] = at[j]
    BY <1>8, <2>1, Zenon
  <2>3. QED
    BY <1>2, <2>2
<1>9. QED
  BY <1>2, <1>5, <1>6, <1>7, <1>8 DEF Walkable

(* A deploy that is not refused hands run_deployment rows of the kind the
   theorems about a run assume, whatever was built and edited before.         *)
THEOREM PlansAreWalkable ==
    OrderSpec => [](Deployable => Walkable(plan, {s.app : s \in scripts} \ {Schema}))
<1>1. ASSUME OrderInv, Deployable PROVE Walkable(plan, {s.app : s \in scripts} \ {Schema})
  <2>1. /\ order \in Seq(InstallScripts) /\ ToSet(order) = scripts /\ scripts # {}
        /\ Exported \in SUBSET (Nat \ {Schema})
    BY <1>1, OrderOnce DEF Deployable
  <2>2. order # <<>>
    BY <2>1 DEF ToSet
  <2>3. {order[i].app : i \in DOMAIN order} = {s.app : s \in scripts}
    BY <2>1 DEF ToSet
  <2>4. QED
    BY <2>1, <2>2, <2>3, PlanWalkable DEF plan
<1>2. QED
  BY <1>1, OrderTypeCorrect, PTL
=============================================================================
