--------------------------- MODULE OneDriveKVProofs ---------------------------
(***************************************************************************)
(* Proofs about OneDriveKV, for any values, any length of the file and any *)
(* number of readers beside one writer.                                    *)
(*                                                                         *)
(* The walk of get_values is a recursive function.  The first sections     *)
(* derive what is needed to reason about it: induction over a set of       *)
(* naturals (from the well-foundedness of <), that a function whose value  *)
(* at i is computed from its values at later indices exists, and hence     *)
(* that Walk satisfies its recursion.                                      *)
(***************************************************************************)
EXTENDS OneDriveKV, WellFoundedInduction, SequenceTheorems, TLAPS

-----------------------------------------------------------------------------
(* Induction over a set of naturals.                                       *)

Less == {p \in Nat \X Nat : p[1] < p[2]}

LEMMA LessIsWellFounded == IsWellFoundedOn(Less, Nat)
<1>1. OpToRel(<, Nat) = Less
  BY DEF OpToRel, Less
<1>2. QED
  BY <1>1, NatLessThanWellFounded

LEMMA LeastElement ==
  ASSUME NEW S \in SUBSET Nat, S # {}
  PROVE  \E x \in S : \A y \in S : x <= y
<1>1. PICK x \in S : \A y \in S : ~ (<<y, x>> \in Less)
  BY LessIsWellFounded, WFMin
<1>2. ASSUME NEW y \in S PROVE x <= y
  <2>1. x \in Nat /\ y \in Nat
    OBVIOUS
  <2>2. ASSUME y < x PROVE FALSE
    <3>1. <<y, x>> \in Nat \X Nat /\ <<y, x>>[1] < <<y, x>>[2]
      BY <2>1, <2>2
    <3>2. <<y, x>> \in Less
      BY <3>1 DEF Less
    <3>3. QED
      BY <3>2, <1>1
  <2>3. QED
    BY <2>1, <2>2
<1>3. QED
  BY <1>2

(* Induction from N down to 1: an index belongs to S when all later ones   *)
(* do.                                                                     *)
LEMMA DownwardInduction ==
  ASSUME NEW N \in Nat, NEW S \in SUBSET (1..N),
         \A i \in 1..N : (\A j \in 1..N : i < j => j \in S) => i \in S
  PROVE  S = 1..N
<1> DEFINE Missing == {k \in Nat : \E i \in 1..N : i \notin S /\ k = N - i}
<1> SUFFICES ASSUME NEW i \in 1..N, i \notin S PROVE FALSE
  OBVIOUS
<1>1. N - i \in Missing
  OBVIOUS
<1>2. PICK k \in Missing : \A m \in Missing : k <= m
  <2>1. Missing \in SUBSET Nat /\ Missing # {}
    BY <1>1
  <2>2. QED
    BY <2>1, LeastElement
<1>3. PICK j \in 1..N : j \notin S /\ k = N - j
  BY <1>2
<1>4. ASSUME NEW m \in 1..N, j < m PROVE m \in S
  <2>1. CASE m \notin S
    <3>1. N - m \in Missing
      BY <2>1
    <3>2. k <= N - m
      BY <1>2, <3>1
    <3>3. QED
      BY <3>2, <1>3, <1>4
  <2>2. QED
    BY <2>1
<1>5. QED
  BY <1>3, <1>4

(* F computes a function on 1..N, each value from the later ones alone.     *)
Computes(F, N, T) ==
    /\ F \in [[1..N -> T] -> [1..N -> T]]
    /\ \A g, h \in [1..N -> T], i \in 1..N :
          (\A j \in 1..N : i < j => g[j] = h[j]) => F[g][i] = F[h][i]

LEMMA FixedPoint ==
  ASSUME NEW N \in Nat, NEW T, T # {}, NEW F, Computes(F, N, T)
  PROVE  \E g \in [1..N -> T] : F[g] = g
<1> USE DEF Computes
<1> DEFINE Fixed(g, i) == \A j \in 1..N : i <= j => F[g][j] = g[j]
           S == {i \in 1..N : \E g \in [1..N -> T] : Fixed(g, i)}
<1>1. PICK t \in T : TRUE
  OBVIOUS
<1>2. ASSUME NEW i \in 1..N, \A j \in 1..N : i < j => j \in S PROVE i \in S
  <2>1. PICK g \in [1..N -> T] : \A j \in 1..N : i < j => F[g][j] = g[j]
    <3>1. CASE i = N
      <4>1. [j \in 1..N |-> t] \in [1..N -> T]
        BY <1>1
      <4>2. \A j \in 1..N : ~ (i < j)
        BY <3>1
      <4>3. QED
        BY <4>1, <4>2
    <3>2. CASE i # N
      <4>1. i + 1 \in S
        <5>1. i + 1 \in 1..N /\ i < i + 1
          BY <3>2
        <5> HIDE DEF S
        <5>2. QED
          BY <5>1, <1>2
      <4>2. PICK g \in [1..N -> T] : Fixed(g, i + 1)
        BY <4>1
      <4>3. QED
        BY <4>2
    <3>3. QED
      BY <3>1, <3>2
  <2> DEFINE h == [g EXCEPT ![i] = F[g][i]]
  <2>2. h \in [1..N -> T]
    OBVIOUS
  <2>3. ASSUME NEW j \in 1..N, i <= j PROVE F[h][j] = h[j]
    <3>1. \A k \in 1..N : j < k => g[k] = h[k]
      BY <2>3
    <3>2. F[g][j] = F[h][j]
      <4>1. \A u, v \in [1..N -> T], n \in 1..N :
               (\A k \in 1..N : n < k => u[k] = v[k]) => F[u][n] = F[v][n]
        BY Zenon DEF Computes
      <4> HIDE DEF h, S, Computes
      <4>2. QED
        BY Zenon, <2>2, <3>1, <4>1
    <3>3. QED
      BY <2>1, <2>3, <3>2
  <2>4. \E f \in [1..N -> T] : Fixed(f, i)
    BY <2>2, <2>3
  <2>5. QED
    BY <2>4
<1>3. S = 1..N
  <2>1. S \in SUBSET (1..N)
    OBVIOUS
  <2> HIDE DEF S
  <2>2. QED
    BY <1>2, <2>1, DownwardInduction
<1>4. CASE N = 0
  <2>1. [j \in 1..N |-> t] \in [1..N -> T]
    BY <1>1
  <2>2. \A g, h \in [1..N -> T] : g = h
    BY <1>4
  <2>3. QED
    BY <2>1, <2>2
<1>5. CASE N # 0
  <2>1. PICK g \in [1..N -> T] : Fixed(g, 1)
    BY <1>3, <1>5
  <2>2. F[g] \in [1..N -> T]
    OBVIOUS
  <2>3. QED
    BY <2>1, <2>2
<1>6. QED
  BY <1>4, <1>5

-----------------------------------------------------------------------------
(* The walk satisfies its recursion.                                       *)

Yield == [values : Seq(Seq(Nat)), complete : BOOLEAN]

(* What a round finds at word i of b.                                      *)
Broken(b, i) == \/ b[i] > MaxLen
                \/ b[i] > Len(b) - i
                \/ Len(b) - i - b[i] = 1
Last(b, i) == b[i] <= MaxLen /\ b[i] = Len(b) - i
More(b, i) == b[i] <= MaxLen /\ b[i] + 1 < Len(b) - i
ValueAt(b, i) == SubSeq(b, i + 1, i + b[i])

LEMMA WordType ==
  ASSUME NEW b \in Seq(Nat), NEW i \in 1..Len(b)
  PROVE  b[i] \in Nat /\ Len(b) \in Nat
  BY ElementOfSeq

LEMMA RoundCases ==
  ASSUME NEW b \in Seq(Nat), NEW i \in 1..Len(b)
  PROVE  /\ Broken(b, i) \/ Last(b, i) \/ More(b, i)
         /\ ~ (Last(b, i) /\ More(b, i))
         /\ Broken(b, i) => ~ Last(b, i) /\ ~ More(b, i)
<1>1. b[i] \in Nat /\ Len(b) \in Nat /\ MaxLen \in Nat
  BY WordType, BoundAssumption
<1>2. Broken(b, i) \/ Last(b, i) \/ More(b, i)
  BY SMTT(30), <1>1 DEF Broken, Last, More
<1>3. ~ (Last(b, i) /\ More(b, i))
  BY SMTT(30), <1>1 DEF Last, More
<1>4. Broken(b, i) => ~ Last(b, i) /\ ~ More(b, i)
  BY SMTT(30), <1>1 DEF Broken, Last, More
<1>5. QED
  BY <1>2, <1>3, <1>4

LEMMA ValueAtType ==
  ASSUME NEW b \in Seq(Nat), NEW i \in 1..Len(b), Last(b, i) \/ More(b, i)
  PROVE  /\ ValueAt(b, i) \in Seq(Nat)
         /\ Len(ValueAt(b, i)) = b[i]
         /\ \A k \in 1..b[i] : ValueAt(b, i)[k] = b[i + k]
<1>1. b[i] \in Nat /\ i + b[i] <= Len(b)
  BY WordType DEF Last, More
<1>2. \A k \in i + 1 .. i + b[i] : b[k] \in Nat
  BY <1>1, ElementOfSeq
<1> DEFINE m == i + 1
           n == i + b[i]
<1>3. m \in Int /\ n \in Int /\ \A k \in m..n : b[k] \in Nat
  BY <1>1, <1>2
<1>4. n - m + 1 = b[i] /\ (IF m <= n THEN n - m + 1 ELSE 0) = b[i]
  BY <1>1
<1>5. \A k \in 1..b[i] : m + k - 1 = i + k
  BY <1>1
<1>6. ValueAt(b, i) = SubSeq(b, m, n)
  BY DEF ValueAt
<1> HIDE DEF m, n
<1>7. /\ SubSeq(b, m, n) \in Seq(Nat)
      /\ Len(SubSeq(b, m, n)) = IF m <= n THEN n - m + 1 ELSE 0
      /\ \A k \in 1 .. n - m + 1 : SubSeq(b, m, n)[k] = b[m + k - 1]
  BY <1>3, SubSeqProperties
<1>8. Len(ValueAt(b, i)) = b[i]
  BY Zenon, <1>4, <1>6, <1>7
<1>9. \A k \in 1..b[i] : ValueAt(b, i)[k] = b[i + k]
  BY Zenon, <1>4, <1>5, <1>6, <1>7
<1>10. QED
  BY Zenon, <1>6, <1>7, <1>8, <1>9

LEMMA NextWord ==
  ASSUME NEW b \in Seq(Nat), NEW i \in 1..Len(b), More(b, i)
  PROVE  i + b[i] + 1 \in 1..Len(b) /\ i < i + b[i] + 1 /\ i + b[i] + 1 < Len(b)
  BY WordType DEF More

LEMMA RoundBroken ==
  ASSUME NEW b \in Seq(Nat), NEW i \in 1..Len(b), Broken(b, i), NEW g
  PROVE  Round(b, i, g) = [values |-> <<>>, complete |-> FALSE]
  BY DEF Broken, Round

LEMMA RoundLast ==
  ASSUME NEW b \in Seq(Nat), NEW i \in 1..Len(b), Last(b, i), NEW g
  PROVE  Round(b, i, g) = [values |-> <<ValueAt(b, i)>>, complete |-> TRUE]
<1>1. ~ (b[i] > MaxLen \/ b[i] > Len(b) - i \/ Len(b) - i - b[i] = 1)
  BY WordType, BoundAssumption DEF Last
<1>2. Len(b) - i = b[i]
  BY WordType DEF Last
<1>3. QED
  BY <1>1, <1>2 DEF Round, ValueAt

LEMMA RoundMore ==
  ASSUME NEW b \in Seq(Nat), NEW i \in 1..Len(b), More(b, i), NEW g
  PROVE  Round(b, i, g) =
            [values |-> <<ValueAt(b, i)>> \o g[i + b[i] + 1].values,
             complete |-> g[i + b[i] + 1].complete]
<1>1. ~ (b[i] > MaxLen \/ b[i] > Len(b) - i \/ Len(b) - i - b[i] = 1)
  BY WordType, BoundAssumption DEF More
<1>2. Len(b) - i # b[i]
  BY WordType DEF More
<1>3. QED
  BY <1>1, <1>2 DEF Round, ValueAt

LEMMA RoundType ==
  ASSUME NEW b \in Seq(Nat), NEW i \in 1..Len(b), NEW g,
         \A j \in 1..Len(b) : i < j => g[j] \in Yield
  PROVE  Round(b, i, g) \in Yield
<1>1. CASE Broken(b, i)
  <2>1. [values |-> <<>>, complete |-> FALSE] \in Yield
    BY DEF Yield
  <2>2. QED
    BY <1>1, <2>1, RoundBroken
<1>2. CASE Last(b, i)
  <2>1. <<ValueAt(b, i)>> \in Seq(Seq(Nat))
    BY <1>2, ValueAtType
  <2>2. [values |-> <<ValueAt(b, i)>>, complete |-> TRUE] \in Yield
    BY <2>1 DEF Yield
  <2>3. QED
    BY <1>2, <2>2, RoundLast
<1>3. CASE More(b, i)
  <2> DEFINE rest == g[i + b[i] + 1]
  <2>1. <<ValueAt(b, i)>> \in Seq(Seq(Nat))
    BY <1>3, ValueAtType
  <2>2. rest \in Yield
    BY <1>3, NextWord
  <2>3. rest.values \in Seq(Seq(Nat)) /\ rest.complete \in BOOLEAN
    BY <2>2 DEF Yield
  <2> HIDE DEF rest
  <2>4. <<ValueAt(b, i)>> \o rest.values \in Seq(Seq(Nat))
    BY <2>1, <2>3
  <2>5. [values |-> <<ValueAt(b, i)>> \o rest.values,
         complete |-> rest.complete] \in Yield
    BY <2>3, <2>4 DEF Yield
  <2>6. QED
    BY <1>3, <2>5, RoundMore DEF rest
<1>4. QED
  BY <1>1, <1>2, <1>3, RoundCases

LEMMA WalkRecursion ==
  ASSUME NEW b \in Seq(Nat)
  PROVE  /\ Walk(b) \in [1..Len(b) -> Yield]
         /\ \A i \in 1..Len(b) : Walk(b)[i] = Round(b, i, Walk(b))
<1> DEFINE N == Len(b)
           F == [g \in [1..N -> Yield] |-> [i \in 1..N |-> Round(b, i, g)]]
<1>1. N \in Nat
  OBVIOUS
<1>2. Yield # {}
  <2>1. [values |-> <<>>, complete |-> TRUE] \in Yield
    BY DEF Yield
  <2>2. QED
    BY <2>1
<1>3. F \in [[1..N -> Yield] -> [1..N -> Yield]]
  BY RoundType
<1>4. \A g, h \in [1..N -> Yield], i \in 1..N :
         (\A j \in 1..N : i < j => g[j] = h[j]) => F[g][i] = F[h][i]
  <2> SUFFICES ASSUME NEW g \in [1..N -> Yield], NEW h \in [1..N -> Yield],
                      NEW i \in 1..N, \A j \in 1..N : i < j => g[j] = h[j]
               PROVE  F[g][i] = F[h][i]
    OBVIOUS
  <2>1. Round(b, i, g) = Round(b, i, h)
    <3>1. CASE Broken(b, i)
      BY <3>1, RoundBroken
    <3>2. CASE Last(b, i)
      BY <3>2, RoundLast
    <3>3. CASE More(b, i)
      <4>1. g[i + b[i] + 1] = h[i + b[i] + 1]
        BY <3>3, NextWord
      <4>2. QED
        BY <3>3, <4>1, RoundMore
    <3>4. QED
      BY <3>1, <3>2, <3>3, RoundCases
  <2>2. QED
    BY <2>1
<1>5. PICK w \in [1..N -> Yield] : F[w] = w
  <2> HIDE DEF F, N
  <2>1. Computes(F, N, Yield)
    BY <1>3, <1>4 DEF Computes
  <2>2. QED
    BY <1>1, <1>2, <2>1, FixedPoint
<1>6. w = [i \in 1..Len(b) |-> Round(b, i, w)]
  BY <1>5
<1>7. Walk(b) = CHOOSE g : g = [i \in 1..Len(b) |-> Round(b, i, g)]
  BY DEF Walk
<1>8. Walk(b) = [i \in 1..Len(b) |-> Round(b, i, Walk(b))]
  BY <1>6, <1>7
<1>9. \A i \in 1..N : Walk(b)[i] = Round(b, i, Walk(b))
  BY <1>8
<1>10. {i \in 1..N : Walk(b)[i] \in Yield} = 1..N
  <2> DEFINE S == {i \in 1..N : Walk(b)[i] \in Yield}
  <2>1. ASSUME NEW i \in 1..N, \A j \in 1..N : i < j => j \in S
        PROVE  i \in S
    BY <2>1, <1>9, RoundType
  <2>2. S \in SUBSET (1..N)
    OBVIOUS
  <2> HIDE DEF S
  <2>3. S = 1..N
    BY <1>1, <2>1, <2>2, DownwardInduction
  <2>4. QED
    BY <2>3 DEF S
<1>11. QED
  BY <1>8, <1>9, <1>10

-----------------------------------------------------------------------------
(* What the walk finds.                                                    *)

LEMMA WalkType ==
  ASSUME NEW b \in Seq(Nat), NEW i \in 1..Len(b)
  PROVE  /\ Walk(b)[i].values \in Seq(Seq(Nat))
         /\ Walk(b)[i].complete \in BOOLEAN
<1>1. Walk(b)[i] \in Yield
  BY WalkRecursion
<1>2. QED
  BY <1>1 DEF Yield

LEMMA WalkBroken ==
  ASSUME NEW b \in Seq(Nat), NEW i \in 1..Len(b), Broken(b, i)
  PROVE  Walk(b)[i].values = <<>> /\ Walk(b)[i].complete = FALSE
<1>1. Walk(b)[i] = [values |-> <<>>, complete |-> FALSE]
  BY WalkRecursion, RoundBroken
<1>2. QED
  BY <1>1

LEMMA WalkLast ==
  ASSUME NEW b \in Seq(Nat), NEW i \in 1..Len(b), Last(b, i)
  PROVE  Walk(b)[i].values = <<ValueAt(b, i)>> /\ Walk(b)[i].complete = TRUE
<1>1. Walk(b)[i] = [values |-> <<ValueAt(b, i)>>, complete |-> TRUE]
  BY WalkRecursion, RoundLast
<1>2. QED
  BY <1>1

LEMMA WalkMore ==
  ASSUME NEW b \in Seq(Nat), NEW i \in 1..Len(b), More(b, i)
  PROVE  /\ Walk(b)[i].values = <<ValueAt(b, i)>> \o Walk(b)[i + b[i] + 1].values
         /\ Walk(b)[i].complete = Walk(b)[i + b[i] + 1].complete
<1> DEFINE m == i + b[i] + 1
<1>1. Walk(b)[i] = [values |-> <<ValueAt(b, i)>> \o Walk(b)[m].values,
                    complete |-> Walk(b)[m].complete]
  BY WalkRecursion, RoundMore
<1> DEFINE x == <<ValueAt(b, i)>> \o Walk(b)[m].values
           y == Walk(b)[m].complete
           z == Walk(b)[i]
<1>2. z = [values |-> x, complete |-> y]
  BY <1>1
<1> HIDE DEF x, y, z
<1>3. z.values = x /\ z.complete = y
  BY <1>2
<1>4. QED
  BY Zenon, <1>3 DEF x, y, z

(* A walk delivers at most a value per word, and at least one when it ends *)
(* on the last word.                                                       *)
LEMMA WalkCount ==
  ASSUME NEW b \in Seq(Nat), NEW i \in 1..Len(b)
  PROVE  /\ Len(Walk(b)[i].values) <= Len(b) - i + 1
         /\ Walk(b)[i].complete => Len(Walk(b)[i].values) >= 1
<1> DEFINE Goal(j) == /\ Len(Walk(b)[j].values) <= Len(b) - j + 1
                      /\ Walk(b)[j].complete => Len(Walk(b)[j].values) >= 1
           S == {j \in 1..Len(b) : Goal(j)}
<1>1. ASSUME NEW j \in 1..Len(b), \A k \in 1..Len(b) : j < k => k \in S
      PROVE  Goal(j)
  <2>1. CASE Broken(b, j)
    <3>1. Walk(b)[j].values = <<>> /\ Walk(b)[j].complete = FALSE
      BY <2>1, WalkBroken
    <3>2. QED
      BY <3>1
  <2>2. CASE Last(b, j)
    <3>1. Walk(b)[j].values = <<ValueAt(b, j)>>
      BY <2>2, WalkLast
    <3>2. Len(Walk(b)[j].values) = 1
      BY <3>1
    <3>3. QED
      BY <3>2
  <2>3. CASE More(b, j)
    <3> DEFINE k == j + b[j] + 1
               rest == Walk(b)[k].values
    <3>1. k \in 1..Len(b) /\ j < k
      BY <2>3, NextWord
    <3>2. rest \in Seq(Seq(Nat)) /\ Len(rest) <= Len(b) - k + 1
      BY <3>1, <1>1, WalkType
    <3>3. <<ValueAt(b, j)>> \in Seq(Seq(Nat)) /\ Len(<<ValueAt(b, j)>>) = 1
      BY <2>3, ValueAtType
    <3>4. Walk(b)[j].values = <<ValueAt(b, j)>> \o rest
      BY <2>3, WalkMore
    <3> HIDE DEF rest, k
    <3>5. Len(Walk(b)[j].values) = 1 + Len(rest)
      BY <3>2, <3>3, <3>4, ConcatProperties
    <3>6. QED
      BY <3>1, <3>2, <3>5
  <2>4. QED
    BY <2>1, <2>2, <2>3, RoundCases
<1>2. S = 1..Len(b)
  <2>1. \A j \in 1..Len(b) :
           (\A k \in 1..Len(b) : j < k => k \in S) => j \in S
    BY <1>1
  <2>2. S \in SUBSET (1..Len(b)) /\ Len(b) \in Nat
    OBVIOUS
  <2> HIDE DEF S
  <2>3. QED
    BY <2>1, <2>2, DownwardInduction
<1>3. QED
  BY <1>2

(* Two buffers that agree on the entry at i hold the same value there.     *)
LEMMA SameValue ==
  ASSUME NEW b \in Seq(Nat), NEW d \in Seq(Nat),
         NEW i \in 1..Len(b), i \in 1..Len(d),
         Last(b, i) \/ More(b, i), Last(d, i) \/ More(d, i),
         b[i] = d[i], \A k \in 1..b[i] : b[i + k] = d[i + k]
  PROVE  ValueAt(b, i) = ValueAt(d, i)
<1> DEFINE x == ValueAt(b, i)
           y == ValueAt(d, i)
<1>1. /\ x \in Seq(Nat) /\ y \in Seq(Nat)
      /\ Len(x) = b[i] /\ Len(y) = b[i]
      /\ \A k \in 1..b[i] : x[k] = b[i + k] /\ y[k] = d[i + k]
  BY ValueAtType
<1> HIDE DEF x, y
<1>2. Len(x) = Len(y) /\ \A k \in 1..Len(x) : x[k] = y[k]
  BY <1>1
<1>3. x = y
  BY <1>1, <1>2, SeqEqual
<1>4. QED
  BY <1>3 DEF x, y

(* g is longer than f and begins with f.                                   *)
Longer(g, f) == Len(f) < Len(g) /\ \A k \in 1..Len(f) : g[k] = f[k]
OneLonger(g, f) == Longer(g, f) /\ Len(g) = Len(f) + 1
MuchLonger(g, f) == Longer(g, f) /\ Len(g) # Len(f) + 1

(* What a round over the longer one finds, when f is a whole number of     *)
(* entries.                                                                *)
LEMMA RoundOfLonger ==
  ASSUME NEW f \in Seq(Nat), NEW g \in Seq(Nat), Longer(g, f), NEW i \in 1..Len(f)
  PROVE  /\ i \in 1..Len(g)
         /\ g[i] = f[i]
         /\ More(f, i) => /\ More(g, i)
                          /\ ValueAt(g, i) = ValueAt(f, i)
         /\ Last(f, i) /\ OneLonger(g, f) => Broken(g, i)
         /\ Last(f, i) /\ MuchLonger(g, f) =>
               /\ More(g, i)
               /\ ValueAt(g, i) = ValueAt(f, i)
               /\ i + f[i] + 1 = Len(f) + 1
<1>1. /\ i \in 1..Len(g) /\ g[i] = f[i] /\ f[i] \in Nat /\ i \in Nat
      /\ Len(f) < Len(g) /\ Len(f) \in Nat /\ Len(g) \in Nat
  BY WordType DEF Longer
<1>2. ASSUME More(f, i) \/ Last(f, i), More(g, i)
      PROVE  ValueAt(g, i) = ValueAt(f, i)
  <2>1. i + f[i] <= Len(f)
    <3>1. f[i] \in Nat /\ Len(f) \in Nat /\ i \in Nat
      BY <1>1
    <3>2. f[i] + 1 < Len(f) - i \/ f[i] = Len(f) - i
      BY <1>2 DEF More, Last
    <3>3. QED
      BY <3>1, <3>2
  <2>2. \A k \in 1..g[i] : i + k \in 1..Len(f)
    BY <1>1, <2>1
  <2>3. \A k \in 1..g[i] : g[i + k] = f[i + k]
    BY <2>2 DEF Longer
  <2>4. QED
    BY <1>1, <1>2, <2>3, SameValue
<1>3. More(f, i) => More(g, i)
  BY <1>1 DEF More
<1>4. ASSUME Last(f, i)
      PROVE  /\ i + f[i] + 1 = Len(f) + 1
             /\ Len(g) = Len(f) + 1 => Broken(g, i)
             /\ Len(g) # Len(f) + 1 => More(g, i)
  <2>1. f[i] <= MaxLen /\ f[i] = Len(f) - i
    BY <1>4 DEF Last
  <2>2. Len(g) = Len(f) + 1 => Len(g) - i - g[i] = 1
    BY <1>1, <2>1
  <2>3. Len(g) # Len(f) + 1 => g[i] + 1 < Len(g) - i
    BY <1>1, <2>1
  <2>4. QED
    BY <1>1, <2>1, <2>2, <2>3 DEF Broken, More
<1>5. QED
  BY <1>1, <1>2, <1>3, <1>4 DEF OneLonger, MuchLonger

(* t is s without its last element.                                        *)
AllButLast(t, s) == Len(t) = Len(s) - 1 /\ \A k \in 1..Len(t) : t[k] = s[k]

LEMMA AllButLastTail ==
  ASSUME NEW S, NEW s \in Seq(S), NEW t \in Seq(S), NEW x \in S, AllButLast(t, s)
  PROVE  AllButLast(<<x>> \o t, <<x>> \o s)
<1>1. <<x>> \in Seq(S) /\ Len(<<x>>) = 1 /\ <<x>>[1] = x
  OBVIOUS
<1>2. /\ Len(<<x>> \o t) = 1 + Len(t)
      /\ \A k \in 1..1 + Len(t) : (<<x>> \o t)[k] = IF k <= 1 THEN <<x>>[k] ELSE t[k - 1]
  BY <1>1, ConcatProperties
<1>3. /\ Len(<<x>> \o s) = 1 + Len(s)
      /\ \A k \in 1..1 + Len(s) : (<<x>> \o s)[k] = IF k <= 1 THEN <<x>>[k] ELSE s[k - 1]
  BY <1>1, ConcatProperties
<1>4. Len(t) \in Nat /\ Len(s) \in Nat
  OBVIOUS
<1>5. QED
  BY <1>2, <1>3, <1>4 DEF AllButLast

(* One word behind a whole number of entries: the last entry is lost.      *)
LEMMA WalkPastOne ==
  ASSUME NEW f \in Seq(Nat), NEW g \in Seq(Nat), OneLonger(g, f),
         NEW i \in 1..Len(f), Walk(f)[i].complete
  PROVE  /\ Walk(g)[i].complete = FALSE
         /\ AllButLast(Walk(g)[i].values, Walk(f)[i].values)
<1> DEFINE Goal(j) == Walk(f)[j].complete =>
              /\ Walk(g)[j].complete = FALSE
              /\ AllButLast(Walk(g)[j].values, Walk(f)[j].values)
           S == {j \in 1..Len(f) : Goal(j)}
<1>0. Longer(g, f)
  BY DEF OneLonger
<1>1. ASSUME NEW j \in 1..Len(f), \A k \in 1..Len(f) : j < k => k \in S
      PROVE  Goal(j)
  <2> SUFFICES ASSUME Walk(f)[j].complete
               PROVE  /\ Walk(g)[j].complete = FALSE
                      /\ AllButLast(Walk(g)[j].values, Walk(f)[j].values)
    OBVIOUS
  <2>0. j \in 1..Len(g)
    BY <1>0, RoundOfLonger
  <2>1. CASE Broken(f, j)
    BY <2>1, WalkBroken
  <2>2. CASE Last(f, j)
    <3>1. Broken(g, j)
      BY <2>2, <1>0, RoundOfLonger
    <3>2. Walk(g)[j].values = <<>> /\ Walk(g)[j].complete = FALSE
      BY <2>0, <3>1, WalkBroken
    <3>3. Walk(f)[j].values = <<ValueAt(f, j)>>
      BY <2>2, WalkLast
    <3>4. AllButLast(<<>>, <<ValueAt(f, j)>>)
      BY DEF AllButLast
    <3>5. QED
      BY <3>2, <3>3, <3>4
  <2>3. CASE More(f, j)
    <3> DEFINE m == j + f[j] + 1
               x == ValueAt(f, j)
               r == Walk(g)[m].values
               s == Walk(f)[m].values
    <3>1. m \in 1..Len(f) /\ j < m
      BY <2>3, NextWord
    <3>2. More(g, j)
      BY <2>3, <1>0, RoundOfLonger
    <3>3. Walk(g)[j].values = <<x>> \o r /\ Walk(g)[j].complete = Walk(g)[m].complete
      <4>1. /\ Walk(g)[j].values = <<ValueAt(g, j)>> \o Walk(g)[j + g[j] + 1].values
            /\ Walk(g)[j].complete = Walk(g)[j + g[j] + 1].complete
        BY <2>0, <3>2, WalkMore
      <4>2. j + g[j] + 1 = m /\ ValueAt(g, j) = x
        BY <1>0, <2>3, RoundOfLonger
      <4>3. QED
        BY <4>1, <4>2
    <3>4. Walk(f)[j].values = <<x>> \o s /\ Walk(f)[j].complete = Walk(f)[m].complete
      BY <2>3, WalkMore
    <3>5. m \in 1..Len(g)
      BY <3>1, <1>0, RoundOfLonger
    <3>6. r \in Seq(Seq(Nat)) /\ s \in Seq(Seq(Nat)) /\ x \in Seq(Nat)
      BY <2>3, <3>1, <3>5, WalkType, ValueAtType
    <3>7. Walk(g)[m].complete = FALSE /\ AllButLast(r, s)
      BY <1>1, <3>1, <3>4
    <3>8. AllButLast(<<x>> \o r, <<x>> \o s)
      BY <3>6, <3>7, AllButLastTail
    <3>9. QED
      BY <3>3, <3>4, <3>7, <3>8
  <2>4. QED
    BY <2>1, <2>2, <2>3, RoundCases
<1>2. S = 1..Len(f)
  <2>1. \A j \in 1..Len(f) :
           (\A k \in 1..Len(f) : j < k => k \in S) => j \in S
    BY <1>1
  <2>2. S \in SUBSET (1..Len(f)) /\ Len(f) \in Nat
    OBVIOUS
  <2> HIDE DEF S
  <2>3. QED
    BY <2>1, <2>2, DownwardInduction
<1>3. QED
  BY <1>2

LEMMA PrependAssociative ==
  ASSUME NEW x \in Seq(Nat), NEW s \in Seq(Seq(Nat)), NEW t \in Seq(Seq(Nat))
  PROVE  <<x>> \o (s \o t) = (<<x>> \o s) \o t
<1> DEFINE v == Seq(Nat)
           q == <<x>>
<1>1. q \in Seq(v) /\ s \in Seq(v) /\ t \in Seq(v)
  OBVIOUS
<1> HIDE DEF q, v
<1>2. (q \o s) \o t = q \o (s \o t)
  BY SMTT(30), <1>1, ConcatAssociative
<1>3. QED
  BY Zenon, <1>2 DEF q

(* Two words or more behind a whole number of entries: the walk goes on    *)
(* with them.                                                              *)
LEMMA WalkPastMore ==
  ASSUME NEW f \in Seq(Nat), NEW g \in Seq(Nat), MuchLonger(g, f),
         NEW i \in 1..Len(f), Walk(f)[i].complete
  PROVE  /\ Walk(g)[i].values = Walk(f)[i].values \o Walk(g)[Len(f) + 1].values
         /\ Walk(g)[i].complete = Walk(g)[Len(f) + 1].complete
<1> DEFINE last == Len(f) + 1
           t == Walk(g)[last].values
           Goal(j) == Walk(f)[j].complete =>
              /\ Walk(g)[j].values = Walk(f)[j].values \o t
              /\ Walk(g)[j].complete = Walk(g)[last].complete
           S == {j \in 1..Len(f) : Goal(j)}
<1>1. Longer(g, f)
  BY DEF MuchLonger
<1>2. t \in Seq(Seq(Nat))
  <2>1. last \in 1..Len(g)
    <3>1. Len(f) < Len(g) /\ Len(f) \in Nat /\ Len(g) \in Nat
      BY <1>1 DEF Longer
    <3>2. QED
      BY <3>1
  <2>2. QED
    BY <2>1, WalkType
<1>3. ASSUME NEW j \in 1..Len(f), \A k \in 1..Len(f) : j < k => k \in S
      PROVE  Goal(j)
  <2> SUFFICES ASSUME Walk(f)[j].complete
               PROVE  /\ Walk(g)[j].values = Walk(f)[j].values \o t
                      /\ Walk(g)[j].complete = Walk(g)[last].complete
    OBVIOUS
  <2> DEFINE x == ValueAt(f, j)
  <2>1. j \in 1..Len(g)
    BY <1>1, RoundOfLonger
  <2>2. CASE Broken(f, j)
    BY <2>2, WalkBroken
  <2>3. CASE Last(f, j)
    <3>1. More(g, j)
      BY <1>1, <2>3, RoundOfLonger
    <3>2. /\ Walk(g)[j].values = <<ValueAt(g, j)>> \o Walk(g)[j + g[j] + 1].values
          /\ Walk(g)[j].complete = Walk(g)[j + g[j] + 1].complete
      BY <2>1, <3>1, WalkMore
    <3>3. j + g[j] + 1 = last /\ ValueAt(g, j) = x
      BY <1>1, <2>3, RoundOfLonger
    <3>4. Walk(f)[j].values = <<x>>
      BY <2>3, WalkLast
    <3>5. QED
      BY <3>2, <3>3, <3>4
  <2>4. CASE More(f, j)
    <3> DEFINE m == j + f[j] + 1
               r == Walk(g)[m].values
               s == Walk(f)[m].values
    <3>1. m \in 1..Len(f) /\ j < m
      BY <2>4, NextWord
    <3>2. More(g, j)
      BY <2>4, <1>1, RoundOfLonger
    <3>3. Walk(g)[j].values = <<x>> \o r /\ Walk(g)[j].complete = Walk(g)[m].complete
      <4>1. /\ Walk(g)[j].values = <<ValueAt(g, j)>> \o Walk(g)[j + g[j] + 1].values
            /\ Walk(g)[j].complete = Walk(g)[j + g[j] + 1].complete
        BY <2>1, <3>2, WalkMore
      <4>2. j + g[j] + 1 = m /\ ValueAt(g, j) = x
        BY <1>1, <2>4, RoundOfLonger
      <4>3. QED
        BY <4>1, <4>2
    <3>4. Walk(f)[j].values = <<x>> \o s /\ Walk(f)[j].complete = Walk(f)[m].complete
      BY <2>4, WalkMore
    <3>5. s \in Seq(Seq(Nat)) /\ x \in Seq(Nat)
      BY <2>4, <3>1, WalkType, ValueAtType
    <3>6. r = s \o t /\ Walk(g)[m].complete = Walk(g)[last].complete
      BY <1>3, <3>1, <3>4
    <3> HIDE DEF r, s, t, x, last, m
    <3>7. <<x>> \o (s \o t) = (<<x>> \o s) \o t
      BY <1>2, <3>5, PrependAssociative
    <3>8. QED
      BY <3>3, <3>4, <3>6, <3>7
  <2>5. QED
    BY <2>2, <2>3, <2>4, RoundCases
<1>4. S = 1..Len(f)
  <2> HIDE DEF Goal
  <2>1. \A j \in 1..Len(f) :
           (\A k \in 1..Len(f) : j < k => k \in S) => j \in S
    BY <1>3
  <2>2. S \in SUBSET (1..Len(f)) /\ Len(f) \in Nat
    OBVIOUS
  <2> HIDE DEF S
  <2>3. QED
    BY <2>1, <2>2, DownwardInduction
<1>5. QED
  BY <1>4

(* t is the beginning of s.                                                *)
Begins(t, s) == Len(t) <= Len(s) /\ \A k \in 1..Len(t) : t[k] = s[k]

LEMMA BeginsTail ==
  ASSUME NEW S, NEW s \in Seq(S), NEW t \in Seq(S), NEW x \in S, Begins(t, s)
  PROVE  Begins(<<x>> \o t, <<x>> \o s)
<1>1. <<x>> \in Seq(S) /\ Len(<<x>>) = 1 /\ <<x>>[1] = x
  OBVIOUS
<1>2. /\ Len(<<x>> \o t) = 1 + Len(t)
      /\ \A k \in 1..1 + Len(t) : (<<x>> \o t)[k] = IF k <= 1 THEN <<x>>[k] ELSE t[k - 1]
  BY <1>1, ConcatProperties
<1>3. /\ Len(<<x>> \o s) = 1 + Len(s)
      /\ \A k \in 1..1 + Len(s) : (<<x>> \o s)[k] = IF k <= 1 THEN <<x>>[k] ELSE s[k - 1]
  BY <1>1, ConcatProperties
<1>4. Len(t) \in Nat /\ Len(s) \in Nat
  OBVIOUS
<1>5. QED
  BY <1>2, <1>3, <1>4 DEF Begins

(* A round over the beginning f of a longer buffer g.                      *)
LEMMA RoundOfBeginning ==
  ASSUME NEW f \in Seq(Nat), NEW g \in Seq(Nat), Longer(g, f), NEW i \in 1..Len(f),
         Last(f, i) \/ More(f, i), ~ Broken(g, i)
  PROVE  More(g, i) /\ ValueAt(g, i) = ValueAt(f, i) /\ g[i] = f[i]
<1>1. CASE More(f, i)
  BY <1>1, RoundOfLonger
<1>2. CASE Last(f, i)
  <2>1. OneLonger(g, f) \/ MuchLonger(g, f)
    BY DEF OneLonger, MuchLonger
  <2>2. QED
    BY <1>2, <2>1, RoundOfLonger
<1>3. QED
  BY <1>1, <1>2

(* Cutting words off a whole number of entries: the values that are left   *)
(* are the first ones.                                                     *)
LEMMA WalkOfBeginning ==
  ASSUME NEW f \in Seq(Nat), NEW g \in Seq(Nat), Longer(g, f),
         NEW i \in 1..Len(f), Walk(g)[i].complete
  PROVE  Begins(Walk(f)[i].values, Walk(g)[i].values)
<1> DEFINE Goal(j) == Walk(g)[j].complete =>
                         Begins(Walk(f)[j].values, Walk(g)[j].values)
           S == {j \in 1..Len(f) : Goal(j)}
<1>1. ASSUME NEW j \in 1..Len(f), \A k \in 1..Len(f) : j < k => k \in S
      PROVE  Goal(j)
  <2> SUFFICES ASSUME Walk(g)[j].complete
               PROVE  Begins(Walk(f)[j].values, Walk(g)[j].values)
    OBVIOUS
  <2> DEFINE x == ValueAt(f, j)
             m == j + f[j] + 1
             r == Walk(g)[m].values
             s == Walk(f)[m].values
  <2>1. j \in 1..Len(g)
    BY RoundOfLonger
  <2>2. ~ Broken(g, j)
    BY <2>1, WalkBroken
  <2>3. ASSUME Last(f, j) \/ More(f, j)
        PROVE  /\ Walk(g)[j].values = <<x>> \o r
               /\ Walk(g)[j].complete = Walk(g)[m].complete
               /\ r \in Seq(Seq(Nat)) /\ x \in Seq(Nat)
    <3>1. More(g, j)
      BY <2>2, <2>3, RoundOfBeginning
    <3>2. /\ Walk(g)[j].values = <<ValueAt(g, j)>> \o Walk(g)[j + g[j] + 1].values
          /\ Walk(g)[j].complete = Walk(g)[j + g[j] + 1].complete
      BY <2>1, <3>1, WalkMore
    <3>3. j + g[j] + 1 = m /\ ValueAt(g, j) = x
      BY <2>2, <2>3, RoundOfBeginning
    <3>4. j + g[j] + 1 \in 1..Len(g)
      BY <2>1, <3>1, NextWord
    <3>5. x \in Seq(Nat)
      BY <2>3, ValueAtType
    <3>6. Walk(g)[j + g[j] + 1].values \in Seq(Seq(Nat))
      BY <3>4, WalkType
    <3>7. QED
      BY <3>2, <3>3, <3>5, <3>6
  <2>4. CASE Broken(f, j)
    <3>1. Walk(f)[j].values = <<>>
      BY <2>4, WalkBroken
    <3>2. Walk(g)[j].values \in Seq(Seq(Nat))
      BY <2>1, WalkType
    <3>3. QED
      BY <3>1, <3>2 DEF Begins
  <2>5. CASE Last(f, j)
    <3>1. Walk(f)[j].values = <<x>>
      BY <2>5, WalkLast
    <3>2. Begins(<<>>, r)
      <4>1. r \in Seq(Seq(Nat))
        BY <2>3, <2>5
      <4> HIDE DEF r
      <4>2. QED
        BY <4>1 DEF Begins
    <3>3. Begins(<<x>> \o <<>>, <<x>> \o r)
      <4>1. <<>> \in Seq(Seq(Nat))
        OBVIOUS
      <4>2. r \in Seq(Seq(Nat)) /\ x \in Seq(Nat)
        BY <2>3, <2>5
      <4> HIDE DEF r, x
      <4>3. QED
        BY <3>2, <4>1, <4>2, BeginsTail
    <3>4. <<x>> \o <<>> = <<x>>
      BY <2>3, <2>5
    <3>5. QED
      BY <2>3, <2>5, <3>1, <3>3, <3>4
  <2>6. CASE More(f, j)
    <3>1. m \in 1..Len(f) /\ j < m
      BY <2>6, NextWord
    <3>2. Walk(f)[j].values = <<x>> \o s
      BY <2>6, WalkMore
    <3>3. s \in Seq(Seq(Nat))
      BY <3>1, WalkType
    <3>4. Begins(s, r)
      BY <1>1, <2>3, <2>6, <3>1
    <3>5. Begins(<<x>> \o s, <<x>> \o r)
      BY <2>3, <2>6, <3>3, <3>4, BeginsTail
    <3>6. QED
      BY <2>3, <2>6, <3>2, <3>5
  <2>7. QED
    BY <2>4, <2>5, <2>6, RoundCases
<1>2. S = 1..Len(f)
  <2>1. \A j \in 1..Len(f) :
           (\A k \in 1..Len(f) : j < k => k \in S) => j \in S
    BY <1>1
  <2>2. S \in SUBSET (1..Len(f)) /\ Len(f) \in Nat
    OBVIOUS
  <2> HIDE DEF S
  <2>3. QED
    BY <2>1, <2>2, DownwardInduction
<1>3. QED
  BY <1>2

(* The values of a whole number of entries determine how long it is.       *)
LEMMA PrependInjective ==
  ASSUME NEW x \in Seq(Nat), NEW y \in Seq(Nat),
         NEW s \in Seq(Seq(Nat)), NEW t \in Seq(Seq(Nat)),
         <<x>> \o s = <<y>> \o t
  PROVE  x = y /\ s = t
<1>1. /\ <<x>> \in Seq(Seq(Nat)) /\ Len(<<x>>) = 1 /\ <<x>>[1] = x
      /\ <<y>> \in Seq(Seq(Nat)) /\ Len(<<y>>) = 1 /\ <<y>>[1] = y
      /\ Len(s) \in Nat /\ Len(t) \in Nat
  OBVIOUS
<1>2. /\ Len(<<x>> \o s) = 1 + Len(s)
      /\ \A k \in 1..1 + Len(s) : (<<x>> \o s)[k] = IF k <= 1 THEN <<x>>[k] ELSE s[k - 1]
  BY <1>1, ConcatProperties
<1>3. /\ Len(<<y>> \o t) = 1 + Len(t)
      /\ \A k \in 1..1 + Len(t) : (<<y>> \o t)[k] = IF k <= 1 THEN <<y>>[k] ELSE t[k - 1]
  BY <1>1, ConcatProperties
<1>4. Len(s) = Len(t)
  BY <1>1, <1>2, <1>3
<1>5. x = y
  <2>1. 1 \in 1..1 + Len(s) /\ 1 \in 1..1 + Len(t)
    BY <1>1
  <2>2. QED
    BY <1>1, <1>2, <1>3, <2>1
<1>6. ASSUME NEW k \in 1..Len(s) PROVE s[k] = t[k]
  <2>1. k + 1 \in 1..1 + Len(s) /\ ~ (k + 1 <= 1) /\ (k + 1) - 1 = k
    BY <1>1
  <2>2. (<<x>> \o s)[k + 1] = s[k] /\ (<<y>> \o t)[k + 1] = t[k]
    BY <1>2, <1>3, <1>4, <2>1
  <2>3. QED
    BY <2>2
<1>7. QED
  BY <1>4, <1>5, <1>6, SeqEqual

LEMMA PrependNotSingle ==
  ASSUME NEW x \in Seq(Nat), NEW y \in Seq(Nat), NEW s \in Seq(Seq(Nat)),
         Len(s) >= 1
  PROVE  <<x>> \o s # <<y>>
<1>1. <<x>> \in Seq(Seq(Nat)) /\ Len(<<x>>) = 1 /\ Len(<<y>>) = 1
  OBVIOUS
<1>2. Len(<<x>> \o s) = 1 + Len(s)
  BY <1>1, ConcatProperties
<1>3. Len(s) \in Nat /\ 1 + Len(s) > 1
  OBVIOUS
<1>4. ASSUME <<x>> \o s = <<y>> PROVE FALSE
  <2>1. Len(<<x>> \o s) = Len(<<y>>)
    BY <1>4
  <2>2. QED
    BY <1>1, <1>2, <1>3, <2>1
<1>5. QED
  BY <1>4

LEMMA WalkLength ==
  ASSUME NEW f \in Seq(Nat), NEW g \in Seq(Nat),
         NEW i \in 1..Len(f), i \in 1..Len(g),
         Walk(f)[i].complete, Walk(g)[i].complete,
         Walk(f)[i].values = Walk(g)[i].values
  PROVE  Len(f) = Len(g)
<1> DEFINE Goal(j) == /\ j \in 1..Len(g)
                      /\ Walk(f)[j].complete
                      /\ Walk(g)[j].complete
                      /\ Walk(f)[j].values = Walk(g)[j].values
                      => Len(f) = Len(g)
           S == {j \in 1..Len(f) : Goal(j)}
<1>1. ASSUME NEW j \in 1..Len(f), \A k \in 1..Len(f) : j < k => k \in S
      PROVE  Goal(j)
  <2> SUFFICES ASSUME j \in 1..Len(g), Walk(f)[j].complete, Walk(g)[j].complete,
                      Walk(f)[j].values = Walk(g)[j].values
               PROVE  Len(f) = Len(g)
    OBVIOUS
  <2> DEFINE x == ValueAt(f, j)
             y == ValueAt(g, j)
             m == j + f[j] + 1
             n == j + g[j] + 1
  <2>1. Last(f, j) \/ More(f, j)
    BY RoundCases, WalkBroken
  <2>2. Last(g, j) \/ More(g, j)
    BY RoundCases, WalkBroken
  <2>3. x \in Seq(Nat) /\ Len(x) = f[j] /\ y \in Seq(Nat) /\ Len(y) = g[j]
    BY <2>1, <2>2, ValueAtType
  <2>4. ASSUME More(f, j)
        PROVE  /\ m \in 1..Len(f) /\ j < m
               /\ Walk(f)[j].values = <<x>> \o Walk(f)[m].values
               /\ Walk(f)[m].complete
               /\ Walk(f)[m].values \in Seq(Seq(Nat))
               /\ Len(Walk(f)[m].values) >= 1
    <3>1. m \in 1..Len(f) /\ j < m
      BY <2>4, NextWord
    <3>2. /\ Walk(f)[j].values = <<x>> \o Walk(f)[m].values
          /\ Walk(f)[m].complete
      BY <2>4, WalkMore
    <3>3. QED
      BY <3>1, <3>2, WalkType, WalkCount
  <2>5. ASSUME More(g, j)
        PROVE  /\ n \in 1..Len(g)
               /\ Walk(g)[j].values = <<y>> \o Walk(g)[n].values
               /\ Walk(g)[n].complete
               /\ Walk(g)[n].values \in Seq(Seq(Nat))
               /\ Len(Walk(g)[n].values) >= 1
    <3>1. n \in 1..Len(g)
      BY <2>5, NextWord
    <3>2. /\ Walk(g)[j].values = <<y>> \o Walk(g)[n].values
          /\ Walk(g)[n].complete
      BY <2>5, WalkMore
    <3>3. QED
      BY <3>1, <3>2, WalkType, WalkCount
  <2>6. CASE Last(f, j)
    <3>1. Walk(f)[j].values = <<x>>
      BY <2>6, WalkLast
    <3>2. ~ More(g, j)
      BY <2>3, <2>5, <3>1, PrependNotSingle
    <3>3. Last(g, j)
      BY <2>2, <3>2
    <3>4. Walk(g)[j].values = <<y>>
      BY <3>3, WalkLast
    <3>5. <<x>>[1] = <<y>>[1]
      BY <3>1, <3>4
    <3>6. f[j] = g[j]
      BY <2>3, <3>5
    <3>7. f[j] = Len(f) - j /\ g[j] = Len(g) - j
      BY <2>6, <3>3 DEF Last
    <3>8. Len(f) = f[j] + j /\ Len(g) = g[j] + j
      BY <3>7
    <3>9. QED
      BY <3>6, <3>8
  <2>7. CASE More(f, j)
    <3>1. ~ Last(g, j)
      <4>1. ASSUME Last(g, j) PROVE Walk(g)[j].values = <<y>>
        BY <4>1, WalkLast
      <4>2. <<x>> \o Walk(f)[m].values # <<y>>
        BY <2>3, <2>4, <2>7, PrependNotSingle
      <4>3. QED
        BY <2>4, <2>7, <4>1, <4>2
    <3>2. More(g, j)
      BY <2>2, <3>1
    <3>3. <<x>> \o Walk(f)[m].values = <<y>> \o Walk(g)[n].values
      BY <2>4, <2>5, <2>7, <3>2
    <3>4. x = y /\ Walk(f)[m].values = Walk(g)[n].values
      <4> DEFINE s == Walk(f)[m].values
                 t == Walk(g)[n].values
      <4>1. x \in Seq(Nat) /\ y \in Seq(Nat)
        BY <2>3
      <4>2. s \in Seq(Seq(Nat)) /\ t \in Seq(Seq(Nat))
        BY <2>4, <2>5, <2>7, <3>2
      <4>3. <<x>> \o s = <<y>> \o t
        BY <3>3
      <4> HIDE DEF x, y, s, t
      <4>4. x = y /\ s = t
        BY <4>1, <4>2, <4>3, PrependInjective
      <4>5. QED
        BY <4>4 DEF s, t
    <3>5. n = m
      BY <2>3, <3>4
    <3>6. m \in S
      BY <1>1, <2>4, <2>7
    <3>7. m \in 1..Len(g) /\ Walk(f)[m].complete /\ Walk(g)[m].complete
      BY <2>4, <2>5, <2>7, <3>2, <3>5
    <3>8. Walk(f)[m].values = Walk(g)[m].values
      BY <3>4, <3>5
    <3>9. QED
      BY <3>6, <3>7, <3>8
  <2>8. QED
    BY <2>1, <2>6, <2>7
<1>2. S = 1..Len(f)
  <2> HIDE DEF Goal
  <2>1. \A j \in 1..Len(f) :
           (\A k \in 1..Len(f) : j < k => k \in S) => j \in S
    BY <1>1
  <2>2. S \in SUBSET (1..Len(f)) /\ Len(f) \in Nat
    OBVIOUS
  <2> HIDE DEF S
  <2>3. QED
    BY <2>1, <2>2, DownwardInduction
<1>3. QED
  BY <1>2

(* Zeros: empty values and no end.                                         *)
LEMMA WalkZeros ==
  ASSUME NEW g \in Seq(Nat), NEW i \in 1..Len(g), i < Len(g),
         \A k \in i..Len(g) : g[k] = 0
  PROVE  /\ Walk(g)[i].complete = FALSE
         /\ \A k \in 1..Len(Walk(g)[i].values) : Walk(g)[i].values[k] = <<>>
<1> DEFINE Goal(j) == i <= j /\ j < Len(g) =>
              /\ Walk(g)[j].complete = FALSE
              /\ \A k \in 1..Len(Walk(g)[j].values) : Walk(g)[j].values[k] = <<>>
           S == {j \in 1..Len(g) : Goal(j)}
<1>1. ASSUME NEW j \in 1..Len(g), \A k \in 1..Len(g) : j < k => k \in S
      PROVE  Goal(j)
  <2> SUFFICES ASSUME i <= j, j < Len(g)
               PROVE  /\ Walk(g)[j].complete = FALSE
                      /\ \A k \in 1..Len(Walk(g)[j].values) : Walk(g)[j].values[k] = <<>>
    OBVIOUS
  <2>1. g[j] = 0
    OBVIOUS
  <2>2. CASE Len(g) = j + 1
    <3>1. Broken(g, j)
      BY <2>1, <2>2 DEF Broken
    <3>2. Walk(g)[j].values = <<>> /\ Walk(g)[j].complete = FALSE
      BY <3>1, WalkBroken
    <3>3. QED
      BY <3>2
  <2>3. CASE Len(g) # j + 1
    <3> DEFINE x == ValueAt(g, j)
               m == j + g[j] + 1
               r == Walk(g)[m].values
    <3>1. More(g, j)
      BY <2>1, <2>3, BoundAssumption DEF More
    <3>2. Walk(g)[j].values = <<x>> \o r /\ Walk(g)[j].complete = Walk(g)[m].complete
      BY <3>1, WalkMore
    <3>3. m \in 1..Len(g) /\ j < m /\ m < Len(g)
      BY <3>1, NextWord
    <3>4. x \in Seq(Nat) /\ Len(x) = 0
      BY <2>1, <3>1, ValueAtType
    <3>5. x = <<>>
      BY <3>4, EmptySeq
    <3>6. m \in S
      BY <1>1, <3>3
    <3>7. i <= m
      BY <3>3
    <3>8. /\ Walk(g)[m].complete = FALSE
          /\ \A k \in 1..Len(r) : r[k] = <<>>
      BY <3>3, <3>6, <3>7
    <3>9. r \in Seq(Seq(Nat))
      BY <3>3, WalkType
    <3> HIDE DEF r, m, x
    <3>10. \A k \in 1..Len(<<x>> \o r) : (<<x>> \o r)[k] = <<>>
      <4>1. <<x>> \in Seq(Seq(Nat)) /\ Len(<<x>>) = 1 /\ <<x>>[1] = <<>>
        BY <3>4, <3>5
      <4>2. /\ Len(<<x>> \o r) = 1 + Len(r)
            /\ \A k \in 1..1 + Len(r) : (<<x>> \o r)[k] = IF k <= 1 THEN <<x>>[k] ELSE r[k - 1]
        BY <3>9, <4>1, ConcatProperties
      <4>3. Len(r) \in Nat
        BY <3>9
      <4>4. QED
        BY <3>8, <4>1, <4>2, <4>3
    <3>11. QED
      BY <3>2, <3>8, <3>10
  <2>4. QED
    BY <2>2, <2>3
<1>2. S = 1..Len(g)
  <2> HIDE DEF Goal
  <2>1. \A j \in 1..Len(g) :
           (\A k \in 1..Len(g) : j < k => k \in S) => j \in S
    BY <1>1
  <2>2. S \in SUBSET (1..Len(g)) /\ Len(g) \in Nat
    OBVIOUS
  <2> HIDE DEF S
  <2>3. QED
    BY <2>1, <2>2, DownwardInduction
<1>3. QED
  BY <1>2

-----------------------------------------------------------------------------
(* What get_values delivers from a buffer.                                 *)

LEMMA OneOrMore ==
  ASSUME NEW n \in Nat, n # 0
  PROVE  /\ n < 2 => n = 1
         /\ n >= 2 => n # 1 /\ 1 \in 1..n /\ ~ (n < 2)
         /\ n < 2 \/ n >= 2
  OBVIOUS

LEMMA EntriesWalk ==
  ASSUME NEW b \in Seq(Nat)
  PROVE  /\ Len(b) >= 2 => 1 \in 1..Len(b) /\ Entries(b) = Walk(b)[1]
         /\ b = <<>> => Entries(b).values = <<>> /\ Entries(b).complete = TRUE
         /\ b # <<>> /\ Len(b) < 2 => Entries(b).values = <<>> /\ Entries(b).complete = FALSE
<1>1. CASE b = <<>>
  <2>1. Entries(b) = [values |-> <<>>, complete |-> TRUE]
    BY <1>1 DEF Entries
  <2>2. ~ (Len(b) >= 2)
    BY <1>1
  <2>3. QED
    BY <1>1, <2>1, <2>2
<1>2. CASE b # <<>>
  <2>1. Len(b) \in Nat /\ Len(b) # 0
    BY <1>2, EmptySeq
  <2>2. CASE Len(b) < 2
    <3>1. Len(b) = 1 /\ ~ (Len(b) >= 2)
      BY <2>1, <2>2, OneOrMore, Zenon
    <3>2. Entries(b) = [values |-> <<>>, complete |-> FALSE]
      BY <1>2, <3>1 DEF Entries
    <3>3. Entries(b).values = <<>> /\ Entries(b).complete = FALSE
      BY <3>2
    <3>4. QED
      BY <1>2, <2>2, <3>1, <3>3, Zenon
  <2>3. CASE Len(b) >= 2
    <3>1. Len(b) # 1 /\ 1 \in 1..Len(b) /\ ~ (Len(b) < 2)
      BY <2>1, <2>3, OneOrMore, Zenon
    <3>2. Entries(b) = Walk(b)[1]
      BY <1>2, <3>1 DEF Entries
    <3>3. QED
      BY <1>2, <3>1, <3>2, Zenon
  <2>4. QED
    BY <2>1, <2>2, <2>3, OneOrMore, Zenon
<1>3. QED
  BY <1>1, <1>2

LEMMA EntriesType ==
  ASSUME NEW b \in Seq(Nat)
  PROVE  /\ Entries(b).values \in Seq(Seq(Nat))
         /\ Entries(b).complete \in BOOLEAN
         /\ Len(Entries(b).values) \in Nat
         /\ Len(Entries(b).values) <= Len(b)
<1>1. CASE Len(b) >= 2
  <2>1. 1 \in 1..Len(b) /\ Entries(b) = Walk(b)[1]
    BY <1>1, EntriesWalk
  <2>2. /\ Walk(b)[1].values \in Seq(Seq(Nat))
        /\ Walk(b)[1].complete \in BOOLEAN
        /\ Len(Walk(b)[1].values) <= Len(b) - 1 + 1
    BY <2>1, WalkType, WalkCount
  <2>3. QED
    BY <2>1, <2>2
<1>2. CASE ~ (Len(b) >= 2)
  <2>1. Len(b) < 2
    BY <1>2
  <2>2. Entries(b).values = <<>> /\ Entries(b).complete \in BOOLEAN
    BY <2>1, EntriesWalk
  <2>3. QED
    BY <2>2
<1>3. QED
  BY <1>1, <1>2

(* A whole number of entries that is not empty.                            *)
LEMMA WholeFile ==
  ASSUME NEW f \in Seq(Nat), f # <<>>, Entries(f).complete
  PROVE  /\ Len(f) >= 2
         /\ 1 \in 1..Len(f)
         /\ Entries(f) = Walk(f)[1]
         /\ Walk(f)[1].complete
         /\ Len(Entries(f).values) >= 1
<1>1. Len(f) >= 2
  <2>1. ~ (Len(f) < 2)
    BY EntriesWalk
  <2>2. QED
    BY <2>1
<1>2. 1 \in 1..Len(f) /\ Entries(f) = Walk(f)[1]
  BY <1>1, EntriesWalk
<1>3. QED
  BY <1>1, <1>2, WalkCount

LEMMA EncodeType ==
  ASSUME NEW v \in Value
  PROVE  /\ v \in Seq(Nat) /\ Len(v) \in 1..MaxLen
         /\ Encode(v) \in Seq(Nat)
         /\ Len(Encode(v)) = Len(v) + 1
         /\ Encode(v)[1] = Len(v)
         /\ \A k \in 1..Len(v) : Encode(v)[k + 1] = v[k]
<1>1. v \in Seq(Nat) /\ Len(v) \in 1..MaxLen
  BY ValueAssumption
<1>2. <<Len(v)>> \in Seq(Nat) /\ Len(<<Len(v)>>) = 1 /\ <<Len(v)>>[1] = Len(v)
  BY <1>1
<1>3. /\ Encode(v) \in Seq(Nat)
      /\ Len(Encode(v)) = 1 + Len(v)
      /\ \A k \in 1..1 + Len(v) :
            Encode(v)[k] = IF k <= 1 THEN <<Len(v)>>[k] ELSE v[k - 1]
  BY <1>1, <1>2, ConcatProperties DEF Encode
<1>4. 1 \in 1..1 + Len(v) /\ Len(v) \in Nat
  BY <1>1
<1>5. Encode(v)[1] = Len(v)
  BY <1>2, <1>3, <1>4
<1>6. ASSUME NEW k \in 1..Len(v) PROVE Encode(v)[k + 1] = v[k]
  <2>1. k + 1 \in 1..1 + Len(v) /\ ~ (k + 1 <= 1) /\ (k + 1) - 1 = k
    BY <1>4
  <2>2. QED
    BY <1>3, <2>1
<1>7. QED
  BY <1>1, <1>3, <1>4, <1>5, <1>6

(* Encode(v) at the end of a buffer is found by the walk.                  *)
LEMMA WalkOfEncode ==
  ASSUME NEW g \in Seq(Nat), NEW v \in Value, NEW i \in 1..Len(g),
         Len(g) = i + Len(v),
         g[i] = Len(v), \A k \in 1..Len(v) : g[i + k] = v[k]
  PROVE  Walk(g)[i].values = <<v>> /\ Walk(g)[i].complete = TRUE
<1>1. v \in Seq(Nat) /\ Len(v) \in Nat /\ Len(v) <= MaxLen
  BY EncodeType
<1>2. Last(g, i)
  BY <1>1 DEF Last
<1>3. /\ ValueAt(g, i) \in Seq(Nat)
      /\ Len(ValueAt(g, i)) = Len(v)
      /\ \A k \in 1..Len(v) : ValueAt(g, i)[k] = g[i + k]
  BY <1>2, ValueAtType
<1>4. ValueAt(g, i) = v
  BY <1>1, <1>3, SeqEqual
<1>5. QED
  BY <1>2, <1>4, WalkLast

(* What put_value uploads: the values of the file and the new one.         *)
LEMMA EntriesEncode ==
  ASSUME NEW v \in Value
  PROVE  Entries(Encode(v)).values = <<v>> /\ Entries(Encode(v)).complete = TRUE
<1> DEFINE g == Encode(v)
<1>1. /\ g \in Seq(Nat) /\ Len(g) = Len(v) + 1 /\ Len(v) \in 1..MaxLen
      /\ g[1] = Len(v) /\ \A k \in 1..Len(v) : g[k + 1] = v[k]
  BY EncodeType
<1> HIDE DEF g
<1>2. /\ 1 \in 1..Len(g) /\ Len(g) = 1 + Len(v) /\ Len(g) >= 2
      /\ \A k \in 1..Len(v) : 1 + k = k + 1
  BY <1>1
<1>3. \A k \in 1..Len(v) : g[1 + k] = v[k]
  BY <1>1, <1>2
<1>4. Walk(g)[1].values = <<v>> /\ Walk(g)[1].complete = TRUE
  BY <1>1, <1>2, <1>3, WalkOfEncode
<1>5. Entries(g) = Walk(g)[1]
  BY <1>1, <1>2, EntriesWalk
<1>6. QED
  BY <1>4, <1>5 DEF g

LEMMA FileWithEntry ==
  ASSUME NEW f \in Seq(Nat), NEW v \in Value
  PROVE  /\ f \o Encode(v) \in Seq(Nat)
         /\ Len(f \o Encode(v)) = Len(f) + (Len(v) + 1)
         /\ \A k \in 1..Len(f) + (Len(v) + 1) :
               (f \o Encode(v))[k] = IF k <= Len(f) THEN f[k] ELSE Encode(v)[k - Len(f)]
<1> DEFINE e == Encode(v)
<1>1. e \in Seq(Nat) /\ Len(e) = Len(v) + 1
  BY EncodeType
<1> HIDE DEF e
<1>2. /\ f \o e \in Seq(Nat)
      /\ Len(f \o e) = Len(f) + Len(e)
      /\ \A k \in 1..Len(f) + Len(e) :
            (f \o e)[k] = IF k <= Len(f) THEN f[k] ELSE e[k - Len(f)]
  BY <1>1, ConcatProperties
<1>3. QED
  BY <1>1, <1>2, Zenon DEF e

LEMMA EntriesAppend ==
  ASSUME NEW f \in Seq(Nat), Entries(f).complete, NEW v \in Value
  PROVE  /\ f \o Encode(v) \in Seq(Nat)
         /\ Entries(f \o Encode(v)).values = Append(Entries(f).values, v)
         /\ Entries(f \o Encode(v)).complete = TRUE
<1> DEFINE g == f \o Encode(v)
           i == Len(f) + 1
<1>1. /\ v \in Seq(Nat) /\ Len(v) \in 1..MaxLen
      /\ Encode(v) \in Seq(Nat) /\ Len(Encode(v)) = Len(v) + 1
      /\ Encode(v)[1] = Len(v)
      /\ \A k \in 1..Len(v) : Encode(v)[k + 1] = v[k]
  BY EncodeType
<1>2. /\ g \in Seq(Nat)
      /\ Len(g) = Len(f) + (Len(v) + 1)
      /\ \A k \in 1..Len(f) + (Len(v) + 1) :
            g[k] = IF k <= Len(f) THEN f[k] ELSE Encode(v)[k - Len(f)]
  BY FileWithEntry
<1> HIDE DEF g
<1>3. CASE f = <<>>
  <2>1. g = Encode(v)
    BY <1>1, <1>3 DEF g
  <2>2. Entries(f).values = <<>>
    BY <1>3, EntriesWalk
  <2>3. Append(<<>>, v) = <<v>>
    OBVIOUS
  <2>4. QED
    BY <1>2, <2>1, <2>2, <2>3, EntriesEncode DEF g
<1>4. CASE f # <<>>
  <2>1. /\ Len(f) >= 2 /\ 1 \in 1..Len(f) /\ Entries(f) = Walk(f)[1]
        /\ Walk(f)[1].complete
    BY <1>4, WholeFile
  <2>2. Len(f) \in Nat /\ Len(v) \in Nat /\ Len(v) >= 1
    BY <1>1
  <2>3. MuchLonger(g, f)
    <3>1. Len(f) < Len(g) /\ Len(g) # Len(f) + 1
      BY <1>2, <2>2
    <3>2. \A k \in 1..Len(f) : k \in 1..Len(f) + (Len(v) + 1) /\ k <= Len(f)
      BY <2>2
    <3>3. \A k \in 1..Len(f) : g[k] = f[k]
      BY <1>2, <3>2
    <3>4. QED
      BY <3>1, <3>3 DEF MuchLonger, Longer
  <2>4. Walk(g)[i].values = <<v>> /\ Walk(g)[i].complete = TRUE
    <3>1. i \in 1..Len(g) /\ Len(g) = i + Len(v)
      BY <1>2, <2>2
    <3>2. g[i] = Len(v)
      <4>1. i \in 1..Len(f) + (Len(v) + 1) /\ ~ (i <= Len(f)) /\ i - Len(f) = 1
        BY <2>2
      <4>2. QED
        BY <1>1, <1>2, <4>1
    <3>3. ASSUME NEW k \in 1..Len(v) PROVE g[i + k] = v[k]
      <4>1. /\ i + k \in 1..Len(f) + (Len(v) + 1) /\ ~ (i + k <= Len(f))
            /\ (i + k) - Len(f) = k + 1
        BY <2>2
      <4>2. g[i + k] = Encode(v)[k + 1]
        BY <1>2, <4>1
      <4>3. QED
        BY <1>1, <4>2
    <3> HIDE DEF i
    <3>4. QED
      BY <1>2, <3>1, <3>2, <3>3, WalkOfEncode
  <2>5. /\ Walk(g)[1].values = Walk(f)[1].values \o <<v>>
        /\ Walk(g)[1].complete = TRUE
    <3>1. /\ Walk(g)[1].values = Walk(f)[1].values \o Walk(g)[i].values
          /\ Walk(g)[1].complete = Walk(g)[i].complete
      <4>1. g \in Seq(Nat)
        BY <1>2
      <4>2. QED
        BY <2>1, <2>3, <4>1, WalkPastMore
    <3>2. QED
      BY <2>4, <3>1
  <2>6. Entries(g) = Walk(g)[1]
    <3>1. Len(g) >= 2
      BY <1>2, <2>1, <2>2
    <3>2. QED
      BY <1>2, <3>1, EntriesWalk
  <2>7. Append(Entries(f).values, v) = Entries(f).values \o <<v>>
    <3>1. Entries(f).values \in Seq(Seq(Nat))
      BY EntriesType
    <3>2. QED
      BY <1>1, <3>1, AppendIsConcat
  <2>8. QED
    BY <1>2, <2>1, <2>5, <2>6, <2>7 DEF g
<1>5. QED
  BY <1>3, <1>4

(* Files of different lengths hold different values.                       *)
LEMMA EntriesLength ==
  ASSUME NEW f \in Seq(Nat), NEW g \in Seq(Nat),
         Entries(f).complete, Entries(g).complete,
         Entries(f).values = Entries(g).values
  PROVE  Len(f) = Len(g)
<1>1. ASSUME NEW h \in Seq(Nat), Entries(h).complete, Entries(h).values = <<>>
      PROVE  h = <<>>
  <2>1. CASE h # <<>>
    <3>1. Len(Entries(h).values) >= 1
      BY <1>1, <2>1, WholeFile
    <3>2. Len(Entries(h).values) = 0
      BY <1>1
    <3>3. QED
      BY <3>1, <3>2
  <2>2. QED
    BY <2>1
<1>2. CASE f = <<>> \/ g = <<>>
  <2>1. Entries(f).values = <<>> /\ Entries(g).values = <<>>
    BY <1>2, EntriesWalk
  <2>2. f = <<>> /\ g = <<>>
    BY <1>1, <2>1
  <2>3. QED
    BY <2>2
<1>3. CASE f # <<>> /\ g # <<>>
  <2>1. /\ 1 \in 1..Len(f) /\ Entries(f) = Walk(f)[1] /\ Walk(f)[1].complete
        /\ 1 \in 1..Len(g) /\ Entries(g) = Walk(g)[1] /\ Walk(g)[1].complete
    BY <1>3, WholeFile
  <2>2. Walk(f)[1].values = Walk(g)[1].values
    BY <2>1
  <2>3. QED
    BY <2>1, <2>2, WalkLength
<1>4. QED
  BY <1>2, <1>3

LEMMA FirstWords ==
  ASSUME NEW f \in Seq(Nat), NEW k \in 0..Len(f)
  PROVE  /\ SubSeq(f, 1, k) \in Seq(Nat)
         /\ Len(SubSeq(f, 1, k)) = k
         /\ \A j \in 1..k : SubSeq(f, 1, k)[j] = f[j]
         /\ k < Len(f) => Longer(f, SubSeq(f, 1, k))
         /\ k = 0 => SubSeq(f, 1, k) = <<>>
         /\ k = Len(f) => SubSeq(f, 1, k) = f
<1> DEFINE b == SubSeq(f, 1, k)
<1>1. \A j \in 1..k : j \in 1..Len(f) /\ f[j] \in Nat
  BY ElementOfSeq
<1>2. k \in Int /\ 1 \in Int /\ k \in Nat /\ Len(f) \in Nat
  OBVIOUS
<1>3. /\ b \in Seq(Nat)
      /\ Len(b) = IF 1 <= k THEN k - 1 + 1 ELSE 0
      /\ \A j \in 1..k - 1 + 1 : b[j] = f[1 + j - 1]
  BY <1>1, <1>2, SubSeqProperties
<1> HIDE DEF b
<1>4. Len(b) = k
  BY <1>2, <1>3
<1>5. \A j \in 1..k : b[j] = f[j]
  <2>1. k - 1 + 1 = k /\ \A j \in 1..k : 1 + j - 1 = j
    BY <1>2
  <2>2. QED
    BY <1>3, <2>1
<1>6. k < Len(f) => Longer(f, b)
  BY <1>4, <1>5 DEF Longer
<1>7. k = 0 => b = <<>>
  BY <1>3, <1>4, EmptySeq
<1>8. k = Len(f) => b = f
  BY <1>3, <1>4, <1>5, SeqEqual
<1>9. QED
  BY <1>3, <1>4, <1>5, <1>6, <1>7, <1>8 DEF b

(* A download that lacks the end of the file delivers the first values.    *)
LEMMA EntriesOfBeginning ==
  ASSUME NEW g \in Seq(Nat), Entries(g).complete, NEW k \in 0..Len(g)
  PROVE  Begins(Entries(SubSeq(g, 1, k)).values, Entries(g).values)
<1> DEFINE b == SubSeq(g, 1, k)
<1>1. /\ b \in Seq(Nat) /\ Len(b) = k
      /\ k < Len(g) => Longer(g, b)
      /\ k = Len(g) => b = g
  BY FirstWords
<1> HIDE DEF b
<1>2. Entries(g).values \in Seq(Seq(Nat)) /\ Entries(b).values \in Seq(Seq(Nat))
  BY <1>1, EntriesType
<1>3. CASE k = Len(g)
  <2>1. b = g
    BY <1>1, <1>3
  <2>2. Begins(Entries(g).values, Entries(g).values)
    BY <1>2 DEF Begins
  <2>3. QED
    BY <2>1, <2>2 DEF b
<1>4. CASE k < Len(g) /\ Len(b) >= 2
  <2>1. 1 \in 1..Len(b) /\ Entries(b) = Walk(b)[1]
    BY <1>1, <1>4, EntriesWalk
  <2>2. g # <<>>
    BY <1>4
  <2>3. Entries(g) = Walk(g)[1] /\ Walk(g)[1].complete
    BY <2>2, WholeFile
  <2>4. Begins(Walk(b)[1].values, Walk(g)[1].values)
    BY <1>1, <1>4, <2>1, <2>3, WalkOfBeginning
  <2>5. QED
    BY <2>1, <2>3, <2>4 DEF b
<1>5. CASE Len(b) < 2
  <2>1. Entries(b).values = <<>>
    BY <1>1, <1>5, EntriesWalk
  <2>2. Begins(<<>>, Entries(g).values)
    BY <1>2 DEF Begins
  <2>3. QED
    BY <2>1, <2>2 DEF b
<1>6. k < Len(g) \/ k = Len(g)
  OBVIOUS
<1>7. Len(b) >= 2 \/ Len(b) < 2
  BY <1>1
<1>8. QED
  BY <1>3, <1>4, <1>5, <1>6, <1>7

(* An upload cut short is not a whole number of entries.                   *)
LEMMA EntriesCut ==
  ASSUME NEW f \in Seq(Nat), Entries(f).complete, NEW v \in Value,
         NEW k \in Len(f) + 1..Len(f) + Len(v)
  PROVE  Entries(SubSeq(f \o Encode(v), 1, k)).complete = FALSE
<1> DEFINE w == f \o Encode(v)
           b == SubSeq(w, 1, k)
           i == Len(f) + 1
<1>1. /\ v \in Seq(Nat) /\ Len(v) \in 1..MaxLen /\ Len(v) \in Nat
      /\ Encode(v) \in Seq(Nat) /\ Len(Encode(v)) = Len(v) + 1
      /\ Encode(v)[1] = Len(v)
  BY EncodeType
<1>2. /\ w \in Seq(Nat)
      /\ Len(w) = Len(f) + (Len(v) + 1)
      /\ \A j \in 1..Len(f) + (Len(v) + 1) :
            w[j] = IF j <= Len(f) THEN f[j] ELSE Encode(v)[j - Len(f)]
  BY FileWithEntry
<1> HIDE DEF w
<1>3. Len(f) \in Nat /\ k \in Nat /\ Len(f) < k /\ k <= Len(f) + Len(v)
  BY <1>1
<1>4. b \in Seq(Nat) /\ Len(b) = k /\ \A j \in 1..k : b[j] = w[j]
  <2>1. k \in 0..Len(w)
    BY <1>1, <1>2, <1>3
  <2>2. QED
    BY <1>2, <2>1, FirstWords
<1> HIDE DEF b
<1>5. i \in 1..Len(b) /\ b[i] = Len(v)
  <2>1. i \in 1..k /\ i \in 1..Len(f) + (Len(v) + 1) /\ ~ (i <= Len(f)) /\ i - Len(f) = 1
    BY <1>1, <1>3
  <2>2. b[i] = w[i] /\ w[i] = Encode(v)[1]
    BY <1>2, <1>4, <2>1
  <2>3. QED
    BY <1>1, <1>4, <2>1, <2>2
<1>6. Broken(b, i)
  <2>1. b[i] > Len(b) - i
    BY <1>1, <1>3, <1>4, <1>5
  <2>2. QED
    BY <2>1 DEF Broken
<1>7. Walk(b)[i].complete = FALSE
  BY <1>4, <1>5, <1>6, WalkBroken
<1>8. CASE Len(b) < 2
  <2>1. b # <<>>
    BY <1>3, <1>4
  <2>2. QED
    BY <1>4, <1>8, <2>1, EntriesWalk DEF b, w
<1>9. CASE Len(b) >= 2 /\ f = <<>>
  <2>1. i = 1
    BY <1>9
  <2>2. Entries(b) = Walk(b)[1]
    BY <1>4, <1>9, EntriesWalk
  <2>3. QED
    BY <1>7, <2>1, <2>2 DEF b, w
<1>10. CASE Len(b) >= 2 /\ f # <<>>
  <2>1. Longer(b, f)
    <3>1. \A j \in 1..Len(f) : j \in 1..k /\ j \in 1..Len(f) + (Len(v) + 1) /\ j <= Len(f)
      BY <1>1, <1>3
    <3>2. \A j \in 1..Len(f) : b[j] = f[j]
      BY <1>2, <1>4, <3>1
    <3>3. QED
      BY <1>3, <1>4, <3>2 DEF Longer
  <2>2. 1 \in 1..Len(f) /\ Walk(f)[1].complete
    BY <1>10, WholeFile
  <2>3. Walk(b)[1].complete = FALSE
    <3>1. CASE OneLonger(b, f)
      BY <1>4, <2>2, <3>1, WalkPastOne
    <3>2. CASE MuchLonger(b, f)
      <4>1. Walk(b)[1].complete = Walk(b)[Len(f) + 1].complete
        BY <1>4, <2>2, <3>2, WalkPastMore
      <4>2. QED
        BY <1>7, <4>1
    <3>3. OneLonger(b, f) \/ MuchLonger(b, f)
      BY <2>1 DEF OneLonger, MuchLonger
    <3>4. QED
      BY <3>1, <3>2, <3>3
  <2>4. Entries(b) = Walk(b)[1]
    BY <1>4, <1>10, EntriesWalk
  <2>5. QED
    BY <2>3, <2>4 DEF b, w
<1>11. Len(b) >= 2 \/ Len(b) < 2
  BY <1>3, <1>4
<1>12. QED
  BY <1>8, <1>9, <1>10, <1>11

(* A download of a file that shrank: the rest of the buffer is 0.          *)
LEMMA BufferType ==
  ASSUME NEW f \in Seq(Nat), NEW n \in Nat
  PROVE  /\ Buffer(f, n) \in Seq(Nat)
         /\ Len(Buffer(f, n)) = n
         /\ \A k \in 1..n : Buffer(f, n)[k] = IF k <= Len(f) THEN f[k] ELSE 0
<1> DEFINE z == Zeros(n)
           w == f \o z
<1>1. z \in Seq(Nat) /\ Len(z) = n /\ \A k \in 1..n : z[k] = 0
  BY DEF Zeros
<1>2. Len(f) \in Nat
  OBVIOUS
<1> HIDE DEF z
<1>3. /\ w \in Seq(Nat)
      /\ Len(w) = Len(f) + Len(z)
      /\ \A k \in 1..Len(f) + Len(z) : w[k] = IF k <= Len(f) THEN f[k] ELSE z[k - Len(f)]
  BY <1>1, ConcatProperties
<1> HIDE DEF w
<1>4. n \in 0..Len(w)
  BY <1>1, <1>2, <1>3
<1>5. /\ SubSeq(w, 1, n) \in Seq(Nat) /\ Len(SubSeq(w, 1, n)) = n
      /\ \A k \in 1..n : SubSeq(w, 1, n)[k] = w[k]
  BY <1>3, <1>4, FirstWords
<1>6. ASSUME NEW k \in 1..n PROVE w[k] = IF k <= Len(f) THEN f[k] ELSE 0
  <2>1. k \in 1..Len(f) + Len(z) /\ (~ (k <= Len(f)) => k - Len(f) \in 1..n)
    BY <1>1, <1>2
  <2>2. QED
    BY <1>1, <1>3, <2>1
<1>7. Buffer(f, n) = SubSeq(w, 1, n)
  BY DEF Buffer, w, z
<1>8. QED
  BY <1>5, <1>6, <1>7

LEMMA BufferOfLonger ==
  ASSUME NEW f \in Seq(Nat), NEW n \in 0..Len(f)
  PROVE  Buffer(f, n) = SubSeq(f, 1, n)
<1>1. n \in Nat /\ Len(f) \in Nat /\ n <= Len(f)
  OBVIOUS
<1>2. /\ Buffer(f, n) \in Seq(Nat) /\ Len(Buffer(f, n)) = n
      /\ \A k \in 1..n : Buffer(f, n)[k] = IF k <= Len(f) THEN f[k] ELSE 0
  BY <1>1, BufferType
<1>3. /\ SubSeq(f, 1, n) \in Seq(Nat) /\ Len(SubSeq(f, 1, n)) = n
      /\ \A k \in 1..n : SubSeq(f, 1, n)[k] = f[k]
  BY FirstWords
<1> DEFINE x == Buffer(f, n)
           y == SubSeq(f, 1, n)
<1>4. Len(x) = Len(y) /\ \A k \in 1..Len(x) : x[k] = y[k]
  <2>1. \A k \in 1..n : k <= Len(f)
    BY <1>1
  <2>2. QED
    BY <1>2, <1>3, <2>1
<1>5. x \in Seq(Nat) /\ y \in Seq(Nat)
  BY <1>2, <1>3
<1> HIDE DEF x, y
<1>6. x = y
  BY <1>4, <1>5, SeqEqual
<1>7. QED
  BY <1>6 DEF x, y

LEMMA EntriesPadded ==
  ASSUME NEW f \in Seq(Nat), f # <<>>, Entries(f).complete,
         NEW n \in Nat, Len(f) < n
  PROVE  /\ Entries(Buffer(f, n)).complete = FALSE
         /\ \A k \in 1..Len(Entries(Buffer(f, n)).values) :
               Entries(Buffer(f, n)).values[k] =
                  IF k <= Len(Entries(f).values) THEN Entries(f).values[k] ELSE <<>>
<1> DEFINE b == Buffer(f, n)
           i == Len(f) + 1
           s == Walk(f)[1].values
           t == Walk(b)[i].values
<1>1. /\ Len(f) >= 2 /\ 1 \in 1..Len(f) /\ Entries(f) = Walk(f)[1]
      /\ Walk(f)[1].complete
  BY WholeFile
<1>2. /\ b \in Seq(Nat) /\ Len(b) = n
      /\ \A k \in 1..n : b[k] = IF k <= Len(f) THEN f[k] ELSE 0
  BY BufferType
<1> HIDE DEF b
<1>3. Len(f) \in Nat /\ Len(b) >= 2
  BY <1>1, <1>2
<1>4. Entries(b) = Walk(b)[1]
  BY <1>2, <1>3, EntriesWalk
<1>5. Longer(b, f)
  <2>1. \A k \in 1..Len(f) : k \in 1..n /\ k <= Len(f)
    BY <1>3
  <2>2. \A k \in 1..Len(f) : b[k] = f[k]
    BY <1>2, <2>1
  <2>3. QED
    BY <1>2, <2>2 DEF Longer
<1>6. s \in Seq(Seq(Nat)) /\ Len(s) \in Nat
  BY <1>1, WalkType
<1>7. CASE OneLonger(b, f)
  <2>1. Walk(b)[1].complete = FALSE /\ AllButLast(Walk(b)[1].values, s)
    BY <1>1, <1>2, <1>7, WalkPastOne
  <2>2. \A k \in 1..Len(Walk(b)[1].values) :
           k <= Len(s) /\ Walk(b)[1].values[k] = s[k]
    BY <1>6, <2>1 DEF AllButLast
  <2>3. QED
    BY <1>1, <1>4, <2>1, <2>2 DEF b
<1>8. CASE MuchLonger(b, f)
  <2>1. /\ Walk(b)[1].values = s \o t
        /\ Walk(b)[1].complete = Walk(b)[i].complete
    BY <1>1, <1>2, <1>8, WalkPastMore
  <2>2. i \in 1..Len(b) /\ i < Len(b)
    <3>1. Len(b) # Len(f) + 1
      BY <1>8 DEF MuchLonger
    <3>2. QED
      BY <1>2, <1>3, <3>1
  <2>3. \A k \in i..Len(b) : b[k] = 0
    <3>1. \A k \in i..Len(b) : k \in 1..n /\ ~ (k <= Len(f))
      BY <1>2, <1>3
    <3>2. QED
      BY <1>2, <3>1
  <2>4. t \in Seq(Seq(Nat)) /\ Len(t) \in Nat
    BY <1>2, <2>2, WalkType
  <2>5. Walk(b)[i].complete = FALSE /\ \A k \in 1..Len(t) : t[k] = <<>>
    <3> HIDE DEF i
    <3>1. QED
      BY <1>2, <2>2, <2>3, WalkZeros
  <2> HIDE DEF s, t
  <2>6. \A k \in 1..Len(s \o t) : (s \o t)[k] = IF k <= Len(s) THEN s[k] ELSE <<>>
    <3>1. /\ Len(s \o t) = Len(s) + Len(t)
          /\ \A k \in 1..Len(s) + Len(t) :
                (s \o t)[k] = IF k <= Len(s) THEN s[k] ELSE t[k - Len(s)]
      BY <1>6, <2>4, ConcatProperties
    <3>2. \A k \in 1..Len(s) + Len(t) : ~ (k <= Len(s)) => k - Len(s) \in 1..Len(t)
      BY <1>6, <2>4
    <3>3. QED
      BY <2>5, <3>1, <3>2
  <2>7. QED
    BY <1>1, <1>4, <2>1, <2>5, <2>6 DEF b, s
<1>9. OneLonger(b, f) \/ MuchLonger(b, f)
  BY <1>5 DEF OneLonger, MuchLonger
<1>10. QED
  BY <1>7, <1>8, <1>9

-----------------------------------------------------------------------------
(* The inductive invariant, for one writer.                                *)

OneWriter == \A w, x \in Writer : w = x

(* Which call each request belongs to, and that a call has delivered       *)
(* nothing before it returns.                                              *)
CallInv == \A c \in Client :
    /\ call[c] \in {NoCall} \cup Abstract!Call
    /\ pc[c] = "length" => call[c].kind \in {"put", "get"}
    /\ pc[c] = "delete" => call[c].kind = "delete"
    /\ pc[c] = "answer" => call[c].kind \in {"put", "set", "delete"}
    /\ pc[c] # "idle" => got[c] = <<>>

(* What the writer is about to upload is the file and its entry: nobody    *)
(* else changed the file since it was read.                                *)
UploadInv == \A c \in Client : pc[c] = "upload" =>
    /\ call[c].kind = "put" => buf[c] = file \o Encode(call[c].value)
    /\ call[c].kind = "set" => buf[c] = Encode(call[c].value)

(* The length a client works with was that of the file during its call,    *)
(* and still is when it is the writer.                                     *)
SizeInv == \A c \in Client : pc[c] \in {"info", "read"} =>
    /\ \E words \in history[c] : Len(words) = size[c]
    /\ call[c].kind = "put" => size[c] = Len(file)

(* Every content of the file is a whole number of entries; and whenever    *)
(* the first k words of the file are, they were the file during the call   *)
(* or the file was longer all the time.                                    *)
HistoryInv == \A c \in Client : pc[c] # "idle" =>
    /\ file \in history[c]
    /\ \A words \in history[c] : Entries(words).complete /\ Len(words) <= MaxWords
    /\ \A k \in 0..Len(file) :
          Entries(SubSeq(file, 1, k)).complete =>
             \/ SubSeq(file, 1, k) \in history[c]
             \/ \A words \in history[c] : k < Len(words)

IInv ==
    /\ TypeOK
    /\ Len(file) <= MaxWords
    /\ CallInv
    /\ UploadInv
    /\ SizeInv
    /\ HistoryInv

LEMMA CallTypes ==
  /\ NoCall = [kind |-> "none", value |-> NoValue]
  /\ NoCall \in [kind : Kinds, value : Value \cup {NoValue}]
  /\ Abstract!Call \subseteq [kind : Kinds, value : Value \cup {NoValue}]
  /\ \A o \in Abstract!Call : o.kind \in {"put", "set", "get", "delete"} /\ o # NoCall
  /\ \A o \in Abstract!Call : o.kind \in {"put", "set"} => o.value \in Value
  BY DEF NoCall, Kinds, Abstract!Call

LEMMA EmptyFile == <<>> \in Seq(Nat) /\ Entries(<<>>).values = <<>> /\ Entries(<<>>).complete = TRUE
<1>1. <<>> \in Seq(Nat)
  OBVIOUS
<1>2. QED
  BY <1>1, EntriesWalk

(* An empty file and no call.                                              *)
THEOREM InitIInv == Init => IInv
<1> SUFFICES ASSUME Init PROVE IInv
  OBVIOUS
<1>1. TypeOK
  BY EmptyFile, CallTypes DEF Init, TypeOK, NoCall
<1>2. Len(file) <= MaxWords
  BY BoundAssumption DEF Init
<1>3. CallInv /\ UploadInv /\ SizeInv /\ HistoryInv
  BY DEF Init, CallInv, UploadInv, SizeInv, HistoryInv
<1>4. QED
  BY <1>1, <1>2, <1>3 DEF IInv

(* A call that returns.                                                    *)
LEMMA FinishInv ==
  ASSUME IInv, NEW c \in Client,
         NEW r \in {"ok", "stopped", "error", "died"}, NEW vals \in Seq(Seq(Nat)),
         Finish(c, r, vals), UNCHANGED <<file, history>>
  PROVE  IInv'
<1> USE DEF IInv, Finish, Goto
<1>1. TypeOK'
  <2>1. 0 \in Nat /\ <<>> \in Seq(Nat)
    OBVIOUS
  <2>2. /\ pc' = [pc EXCEPT ![c] = "idle"]
        /\ call' = [call EXCEPT ![c] = NoCall]
        /\ call'[c].kind = "none"
    BY CallTypes DEF TypeOK
  <2>3. QED
    BY <2>1, <2>2, CallTypes DEF TypeOK
<1>2. (Len(file) <= MaxWords)'
  OBVIOUS
<1>3. \A d \in Client : d # c =>
         /\ pc'[d] = pc[d] /\ call'[d] = call[d] /\ size'[d] = size[d]
         /\ buf'[d] = buf[d] /\ got'[d] = got[d]
  BY DEF TypeOK
<1>4. pc'[c] = "idle" /\ call'[c] = NoCall
  BY DEF TypeOK
<1>5. CallInv'
  BY <1>3, <1>4 DEF CallInv, Abstract!Call
<1>6. UploadInv'
  BY <1>3, <1>4 DEF UploadInv
<1>7. SizeInv'
  BY <1>3, <1>4 DEF SizeInv
<1>8. HistoryInv'
  BY <1>3, <1>4 DEF HistoryInv
<1>9. QED
  BY <1>1, <1>2, <1>5, <1>6, <1>7, <1>8

(* A call that begins, at the request label.                               *)
LEMMA BeginInv ==
  ASSUME IInv, NEW c \in Client, NEW kind, NEW v, NEW label,
         [kind |-> kind, value |-> v] \in Abstract!Call,
         <<kind, label>> \in {<<"put", "length">>, <<"set", "upload">>,
                              <<"get", "length">>, <<"delete", "delete">>},
         kind # "get" => c \in Writer,
         Begin(c, kind, v, label),
         kind = "set" => buf' = [buf EXCEPT ![c] = Encode(v)],
         kind # "set" => UNCHANGED buf
  PROVE  IInv'
<1> USE DEF IInv, Begin, Goto
<1> DEFINE o == [kind |-> kind, value |-> v]
<1>1. /\ o \in Abstract!Call /\ o.kind = kind /\ o.value = v
      /\ kind \in {"put", "set", "get", "delete"} /\ o # NoCall
      /\ kind \in {"put", "set"} => v \in Value
      /\ o \in [kind : Kinds, value : Value \cup {NoValue}]
      /\ label \in {"length", "upload", "delete"}
      /\ label = "length" => kind \in {"put", "get"}
      /\ label = "upload" <=> kind = "set"
      /\ label = "delete" <=> kind = "delete"
  BY CallTypes
<1> HIDE DEF o
<1>2. /\ pc' = [pc EXCEPT ![c] = label]
      /\ call' = [call EXCEPT ![c] = o]
      /\ got' = [got EXCEPT ![c] = <<>>]
      /\ history' = [history EXCEPT ![c] = {file}]
      /\ UNCHANGED <<file, size, fsize>>
  BY DEF o
<1>3. \A d \in Client : d # c =>
         /\ pc'[d] = pc[d] /\ call'[d] = call[d] /\ size'[d] = size[d]
         /\ buf'[d] = buf[d] /\ got'[d] = got[d] /\ history'[d] = history[d]
  BY <1>1, <1>2 DEF TypeOK
<1>4. /\ pc'[c] = label /\ call'[c] = o /\ got'[c] = <<>> /\ history'[c] = {file}
      /\ kind = "set" => buf'[c] = Encode(v)
  BY <1>1, <1>2 DEF TypeOK
<1>5. TypeOK'
  <2>1. kind = "set" => Encode(v) \in Seq(Nat)
    BY <1>1, EncodeType
  <2>2. /\ file' \in Seq(Nat)
        /\ pc' \in [Client -> {"idle", "length", "info", "read", "upload", "delete", "answer"}]
        /\ call' \in [Client -> [kind : Kinds, value : Value \cup {NoValue}]]
        /\ size' \in [Client -> Nat]
        /\ fsize' \in [Client -> Nat]
        /\ reply' \in [Client -> {"none", "ok", "stopped", "error", "died"}]
        /\ got' \in [Client -> Seq(Seq(Nat))]
        /\ history' \in [Client -> SUBSET Seq(Nat)]
        /\ Entries(file').complete
    BY <1>1, <1>2 DEF TypeOK
  <2>3. buf' \in [Client -> Seq(Nat)]
    BY <1>1, <2>1 DEF TypeOK
  <2>4. /\ pc'[c] = "idle" <=> call'[c].kind = "none"
        /\ pc'[c] \in {"info", "read"} => call'[c].kind \in {"put", "get"}
        /\ pc'[c] = "upload" => call'[c].kind \in {"put", "set"}
        /\ call'[c].kind \in {"put", "set", "delete"} => c \in Writer
    BY <1>1, <1>4
  <2>5. \A d \in Client :
          /\ pc'[d] = "idle" <=> call'[d].kind = "none"
          /\ pc'[d] \in {"info", "read"} => call'[d].kind \in {"put", "get"}
          /\ pc'[d] = "upload" => call'[d].kind \in {"put", "set"}
          /\ call'[d].kind \in {"put", "set", "delete"} => d \in Writer
    BY <1>3, <2>4 DEF TypeOK
  <2>6. QED
    BY <2>2, <2>3, <2>5 DEF TypeOK
<1>6. (Len(file) <= MaxWords)'
  OBVIOUS
<1>7. CallInv'
  BY <1>1, <1>3, <1>4 DEF CallInv
<1>8. UploadInv'
  BY <1>1, <1>2, <1>3, <1>4 DEF UploadInv
<1>9. SizeInv'
  BY <1>1, <1>2, <1>3, <1>4 DEF SizeInv
<1>10. HistoryInv'
  <2>1. ASSUME NEW k \in 0..Len(file), Entries(SubSeq(file, 1, k)).complete
        PROVE  SubSeq(file, 1, k) \in {file} \/ \A words \in {file} : k < Len(words)
    <3>1. file \in Seq(Nat)
      BY DEF TypeOK
    <3>2. k = Len(file) => SubSeq(file, 1, k) = file
      BY <3>1, FirstWords
    <3>3. k = Len(file) \/ k < Len(file)
      BY <3>1
    <3>4. QED
      BY <3>2, <3>3
  <2>2. Entries(file).complete /\ Len(file) <= MaxWords
    BY DEF TypeOK
  <2>3. QED
    BY <1>2, <1>3, <1>4, <2>1, <2>2 DEF HistoryInv
<1>11. QED
  BY <1>5, <1>6, <1>7, <1>8, <1>9, <1>10

(* A request that reads, after which the call goes on.                     *)
LEMMA GoOnInv ==
  ASSUME IInv, NEW c \in Client, NEW label \in {"info", "read", "upload"},
         pc[c] \in {"length", "info", "read"},
         call[c].kind \in {"put", "get"},
         label = "upload" => call[c].kind = "put",
         Goto(c, label), UNCHANGED <<file, history, call, reply, got>>,
         size' \in [Client -> Nat], fsize' \in [Client -> Nat],
         buf' \in [Client -> Seq(Nat)],
         \A d \in Client : d # c => size'[d] = size[d] /\ buf'[d] = buf[d],
         label = "upload" => buf'[c] = file \o Encode(call[c].value),
         label # "upload" => /\ \E words \in history[c] : Len(words) = size'[c]
                             /\ call[c].kind = "put" => size'[c] = Len(file)
  PROVE  IInv'
<1> USE DEF IInv, Goto
<1>1. \A d \in Client : d # c => pc'[d] = pc[d]
  BY DEF TypeOK
<1>2. pc'[c] = label /\ pc[c] # "idle"
  BY DEF TypeOK
<1>3. TypeOK'
  <2>1. pc' \in [Client -> {"idle", "length", "info", "read", "upload", "delete", "answer"}]
    BY DEF TypeOK
  <2>2. \A d \in Client :
          /\ pc'[d] = "idle" <=> call[d].kind = "none"
          /\ pc'[d] \in {"info", "read"} => call[d].kind \in {"put", "get"}
          /\ pc'[d] = "upload" => call[d].kind \in {"put", "set"}
          /\ call[d].kind \in {"put", "set", "delete"} => d \in Writer
    BY <1>1, <1>2 DEF TypeOK
  <2>3. QED
    BY <2>1, <2>2 DEF TypeOK
<1>4. (Len(file) <= MaxWords)'
  OBVIOUS
<1>5. CallInv'
  BY <1>1, <1>2 DEF CallInv
<1>6. UploadInv'
  BY <1>1, <1>2 DEF UploadInv
<1>7. SizeInv'
  BY <1>1, <1>2 DEF SizeInv
<1>8. HistoryInv'
  BY <1>1, <1>2 DEF HistoryInv
<1>9. QED
  BY <1>3, <1>4, <1>5, <1>6, <1>7, <1>8

(* The words replace the file: they begin with the file, or only the empty *)
(* file and they themselves are whole numbers of entries.                  *)
Replaces(words) ==
    \A k \in 0..Len(words) :
        Entries(SubSeq(words, 1, k)).complete =>
           \/ k = 0 \/ k = Len(words)
           \/ /\ k <= Len(file) /\ Len(file) < Len(words)
              /\ SubSeq(words, 1, k) = SubSeq(file, 1, k)

(* What the writer uploads, and what the file holds then.                  *)
LEMMA UploadWords ==
  ASSUME IInv, NEW c \in Client, pc[c] = "upload"
  PROVE  /\ buf[c] \in Seq(Nat)
         /\ Entries(buf[c]).complete
         /\ call[c].kind = "put" =>
               Entries(buf[c]).values = Append(Entries(file).values, call[c].value)
         /\ call[c].kind = "set" => Entries(buf[c]).values = <<call[c].value>>
         /\ call[c].kind \in {"put", "set"}
         /\ Replaces(buf[c])
<1> DEFINE v == call[c].value
<1>1. /\ file \in Seq(Nat) /\ Entries(file).complete
      /\ call[c].kind \in {"put", "set"}
  BY DEF IInv, TypeOK
<1>2. v \in Value
  <2>1. call[c] \in {NoCall} \cup Abstract!Call
    BY DEF IInv, CallInv
  <2>2. call[c] # NoCall
    BY <1>1 DEF NoCall
  <2>3. QED
    BY <1>1, <2>1, <2>2, CallTypes
<1> HIDE DEF v
<1>3. CASE call[c].kind = "put"
  <2>1. buf[c] = file \o Encode(v)
    BY <1>3 DEF IInv, UploadInv, v
  <2> DEFINE w == file \o Encode(v)
  <2>2. /\ w \in Seq(Nat) /\ Entries(w).complete = TRUE
        /\ Entries(w).values = Append(Entries(file).values, v)
    BY <1>1, <1>2, EntriesAppend
  <2>3. /\ Len(w) = Len(file) + (Len(v) + 1)
        /\ \A k \in 1..Len(file) + (Len(v) + 1) :
              w[k] = IF k <= Len(file) THEN file[k] ELSE Encode(v)[k - Len(file)]
    BY <1>1, <1>2, FileWithEntry
  <2>4. Len(file) \in Nat /\ Len(v) \in Nat
    BY <1>1, <1>2, EncodeType
  <2>5. \A k \in Len(file) + 1..Len(file) + Len(v) :
           Entries(SubSeq(w, 1, k)).complete = FALSE
    BY <1>1, <1>2, EntriesCut
  <2> HIDE DEF w
  <2>6. ASSUME NEW k \in 0..Len(w), Entries(SubSeq(w, 1, k)).complete
        PROVE  \/ k = 0 \/ k = Len(w)
               \/ /\ k <= Len(file) /\ Len(file) < Len(w)
                  /\ SubSeq(w, 1, k) = SubSeq(file, 1, k)
    <3>1. CASE k <= Len(file)
      <4>1. k \in 0..Len(file) /\ Len(file) < Len(w)
        BY <2>3, <2>4, <3>1
      <4> DEFINE x == SubSeq(w, 1, k)
                 y == SubSeq(file, 1, k)
      <4>2. x \in Seq(Nat) /\ Len(x) = k /\ \A j \in 1..k : x[j] = w[j]
        BY <2>2, FirstWords
      <4>3. y \in Seq(Nat) /\ Len(y) = k /\ \A j \in 1..k : y[j] = file[j]
        BY <1>1, <4>1, FirstWords
      <4>4. \A j \in 1..k : w[j] = file[j]
        <5>1. \A j \in 1..k : j \in 1..Len(file) + (Len(v) + 1) /\ j <= Len(file)
          BY <2>4, <3>1
        <5>2. QED
          BY <2>3, <5>1
      <4> HIDE DEF x, y
      <4>5. x = y
        BY <4>2, <4>3, <4>4, SeqEqual
      <4>6. QED
        BY <3>1, <4>1, <4>5 DEF x, y
    <3>2. CASE ~ (k <= Len(file))
      <4>1. k \in Len(file) + 1..Len(file) + Len(v) \/ k = Len(w)
        BY <2>3, <2>4, <3>2
      <4>2. QED
        BY <2>5, <2>6, <4>1
    <3>3. QED
      BY <3>1, <3>2
  <2>7. Replaces(w)
    BY <2>6 DEF Replaces
  <2>8. QED
    BY <1>3, <2>1, <2>2, <2>7 DEF w, v
<1>4. CASE call[c].kind = "set"
  <2> DEFINE w == Encode(v)
  <2>1. buf[c] = w
    BY <1>4 DEF IInv, UploadInv, v
  <2>2. w \in Seq(Nat) /\ Len(w) = Len(v) + 1 /\ Len(v) \in Nat
    BY <1>2, EncodeType
  <2>3. Entries(w).complete = TRUE /\ Entries(w).values = <<v>>
    BY <1>2, EntriesEncode
  <2>4. \A k \in 1..Len(v) : Entries(SubSeq(w, 1, k)).complete = FALSE
    <3>1. <<>> \in Seq(Nat) /\ Entries(<<>>).complete /\ Len(<<>>) = 0
      BY EmptyFile
    <3>2. \A k \in Len(<<>>) + 1..Len(<<>>) + Len(v) :
             Entries(SubSeq(<<>> \o Encode(v), 1, k)).complete = FALSE
      BY <1>2, <3>1, EntriesCut
    <3>3. <<>> \o Encode(v) = w
      BY <2>2, ConcatEmptySeq
    <3>4. Len(<<>>) + 1 = 1 /\ Len(<<>>) + Len(v) = Len(v)
      BY <2>2
    <3>5. QED
      BY <3>2, <3>3, <3>4
  <2> HIDE DEF w
  <2>5. ASSUME NEW k \in 0..Len(w), Entries(SubSeq(w, 1, k)).complete
        PROVE  k = 0 \/ k = Len(w)
    <3>1. k = 0 \/ k \in 1..Len(v) \/ k = Len(w)
      BY <2>2
    <3>2. QED
      BY <2>4, <2>5, <3>1
  <2>6. Replaces(w)
    BY <2>5 DEF Replaces
  <2>7. QED
    BY <1>4, <2>1, <2>2, <2>3, <2>6 DEF v
<1>5. QED
  BY <1>1, <1>3, <1>4

LEMMA RemoveWords == Replaces(<<>>)
<1>1. \A k \in 0..Len(<<>>) : k = 0
  OBVIOUS
<1>2. QED
  BY <1>1 DEF Replaces

(* The drive carries out the writer's request.                             *)
LEMMA ReplaceInv ==
  ASSUME IInv, OneWriter, NEW c \in Client, pc[c] \in {"upload", "delete"},
         NEW words \in Seq(Nat), Entries(words).complete, Replaces(words),
         Replace(words), Goto(c, "answer"),
         UNCHANGED <<call, size, fsize, buf, reply, got>>
  PROVE  IInv'
<1> USE DEF IInv, Goto, Replace
<1>1. /\ pc' = [pc EXCEPT ![c] = "answer"]
      /\ \A d \in Client : d # c => pc'[d] = pc[d]
      /\ pc'[c] = "answer" /\ pc[c] # "idle"
  BY DEF TypeOK
<1>2. call[c].kind \in {"put", "set", "delete"} /\ c \in Writer
  BY DEF CallInv, TypeOK
<1>3. \A d \in Client : d # c => ~ (call[d].kind \in {"put", "set", "delete"})
  BY <1>2 DEF OneWriter, TypeOK
<1>4. ASSUME NEW d \in Client, pc'[d] # "idle"
      PROVE  history'[d] = history[d] \cup {words} /\ pc[d] # "idle"
  <2>1. pc[d] # "idle"
    BY <1>1, <1>4
  <2>2. call[d] # NoCall
    BY <2>1 DEF TypeOK, NoCall
  <2>3. QED
    BY <2>1, <2>2
<1>5. TypeOK'
  <2>1. pc' \in [Client -> {"idle", "length", "info", "read", "upload", "delete", "answer"}]
    BY <1>1 DEF TypeOK
  <2>2. history' \in [Client -> SUBSET Seq(Nat)]
    <3>1. \A d \in Client : history[d] \in SUBSET Seq(Nat)
      BY DEF TypeOK
    <3>2. QED
      BY <3>1
  <2>3. \A d \in Client :
          /\ pc'[d] = "idle" <=> call[d].kind = "none"
          /\ pc'[d] \in {"info", "read"} => call[d].kind \in {"put", "get"}
          /\ pc'[d] = "upload" => call[d].kind \in {"put", "set"}
          /\ call[d].kind \in {"put", "set", "delete"} => d \in Writer
    BY <1>1, <1>2 DEF TypeOK
  <2>4. QED
    BY <2>1, <2>2, <2>3 DEF TypeOK
<1>6. (Len(file) <= MaxWords)'
  OBVIOUS
<1>7. CallInv'
  BY <1>1, <1>2 DEF CallInv
<1>8. UploadInv'
  BY <1>1, <1>3 DEF UploadInv, TypeOK
<1>9. SizeInv'
  <2> SUFFICES ASSUME NEW d \in Client, pc'[d] \in {"info", "read"}
               PROVE  /\ \E x \in history'[d] : Len(x) = size[d]
                      /\ call[d].kind = "put" => size[d] = Len(file')
    BY DEF SizeInv
  <2>1. d # c /\ pc[d] \in {"info", "read"}
    BY <1>1
  <2>2. \E x \in history[d] : Len(x) = size[d]
    BY <2>1 DEF SizeInv
  <2>3. QED
    BY <1>3, <1>4, <2>1, <2>2
<1>10. HistoryInv'
  <2> SUFFICES ASSUME NEW d \in Client, pc'[d] # "idle"
               PROVE  /\ words \in history'[d]
                      /\ \A x \in history'[d] : Entries(x).complete /\ Len(x) <= MaxWords
                      /\ \A k \in 0..Len(words) :
                            Entries(SubSeq(words, 1, k)).complete =>
                               \/ SubSeq(words, 1, k) \in history'[d]
                               \/ \A x \in history'[d] : k < Len(x)
    BY DEF HistoryInv
  <2>1. history'[d] = history[d] \cup {words} /\ pc[d] # "idle"
    BY <1>4
  <2>2. /\ \A x \in history[d] : Entries(x).complete /\ Len(x) <= MaxWords
        /\ \A k \in 0..Len(file) :
              Entries(SubSeq(file, 1, k)).complete =>
                 \/ SubSeq(file, 1, k) \in history[d]
                 \/ \A x \in history[d] : k < Len(x)
    BY <2>1 DEF HistoryInv
  <2>3. ASSUME NEW k \in 0..Len(words), Entries(SubSeq(words, 1, k)).complete
        PROVE  \/ SubSeq(words, 1, k) \in history'[d]
               \/ \A x \in history'[d] : k < Len(x)
    <3>1. CASE k = Len(words)
      <4>1. SubSeq(words, 1, k) = words
        BY <3>1, FirstWords
      <4>2. QED
        BY <2>1, <4>1
    <3>2. CASE k = 0 /\ k # Len(words)
      <4>1. SubSeq(words, 1, k) = <<>>
        BY <3>2, FirstWords
      <4>2. CASE <<>> \in history'[d]
        BY <4>1, <4>2
      <4>3. CASE <<>> \notin history'[d]
        <5>1. ASSUME NEW x \in history'[d] PROVE k < Len(x)
          <6>1. x \in Seq(Nat) /\ x # <<>>
            BY <1>5, <4>3, <5>1 DEF TypeOK
          <6>2. Len(x) \in Nat /\ Len(x) # 0
            BY <6>1, EmptySeq
          <6>3. QED
            BY <3>2, <6>2
        <5>2. QED
          BY <5>1
      <4>4. QED
        BY <4>2, <4>3
    <3>3. CASE /\ k <= Len(file) /\ Len(file) < Len(words)
               /\ SubSeq(words, 1, k) = SubSeq(file, 1, k)
      <4>1. k \in 0..Len(file) /\ k < Len(words)
        <5>1. Len(file) \in Nat /\ Len(words) \in Nat
          BY DEF TypeOK
        <5>2. QED
          BY <3>3, <5>1
      <4>2. \/ SubSeq(file, 1, k) \in history[d]
            \/ \A x \in history[d] : k < Len(x)
        BY <2>2, <2>3, <3>3, <4>1
      <4>3. QED
        BY <2>1, <3>3, <4>1, <4>2
    <3>4. QED
      BY <2>3, <3>1, <3>2, <3>3 DEF Replaces
  <2>4. QED
    BY <2>1, <2>2, <2>3
<1>11. QED
  BY <1>5, <1>6, <1>7, <1>8, <1>9, <1>10

LEMMA NothingDelivered == <<>> \in Seq(Seq(Nat))
  OBVIOUS

(* What a reader or the writer downloads.                                  *)
LEMMA ReadBuffer ==
  ASSUME IInv, NEW c \in Client, pc[c] = "read"
  PROVE  /\ Buffer(file, size[c]) \in Seq(Nat)
         /\ Len(Buffer(file, size[c])) = size[c]
         /\ size[c] \in Nat
         /\ call[c].kind = "put" => Buffer(file, size[c]) = file
<1>1. file \in Seq(Nat) /\ size[c] \in Nat
  BY DEF IInv, TypeOK
<1>2. Buffer(file, size[c]) \in Seq(Nat) /\ Len(Buffer(file, size[c])) = size[c]
  BY <1>1, BufferType
<1>3. ASSUME call[c].kind = "put" PROVE Buffer(file, size[c]) = file
  <2>1. size[c] = Len(file)
    BY <1>3 DEF IInv, SizeInv
  <2>2. Len(file) \in 0..Len(file)
    BY <1>1
  <2>3. Buffer(file, Len(file)) = SubSeq(file, 1, Len(file))
    BY <1>1, <2>2, BufferOfLonger
  <2>4. SubSeq(file, 1, Len(file)) = file
    BY <1>1, <2>2, FirstWords
  <2>5. QED
    BY <2>1, <2>3, <2>4
<1>4. QED
  BY <1>1, <1>2, <1>3

LEMMA LengthInv ==
  ASSUME IInv, NEW c \in Client, Length(c)
  PROVE  IInv'
<1>1. pc[c] = "length" /\ call[c].kind \in {"put", "get"} /\ UNCHANGED <<file, history>>
  BY DEF IInv, CallInv, Length
<1>2. file \in history[c] /\ Len(file) \in Nat
  BY <1>1 DEF IInv, HistoryInv, TypeOK
<1>3. CASE /\ Goto(c, "info")
           /\ size' = [size EXCEPT ![c] = Len(file)]
           /\ UNCHANGED <<call, fsize, buf, reply, got>>
  <2>1. /\ size' \in [Client -> Nat] /\ fsize' \in [Client -> Nat]
        /\ buf' \in [Client -> Seq(Nat)]
        /\ size'[c] = Len(file)
        /\ \A d \in Client : d # c => size'[d] = size[d] /\ buf'[d] = buf[d]
    BY <1>2, <1>3 DEF IInv, TypeOK
  <2>2. \E words \in history[c] : Len(words) = size'[c]
    BY <1>2, <2>1
  <2>3. QED
    BY <1>1, <1>3, <2>1, <2>2, GoOnInv
<1>4. CASE /\ Len(file) = 0
           /\ call[c].kind = "put"
           /\ Goto(c, "upload")
           /\ buf' = [buf EXCEPT ![c] = Encode(call[c].value)]
           /\ UNCHANGED <<call, size, fsize, reply, got>>
  <2> DEFINE e == Encode(call[c].value)
  <2>1. call[c].value \in Value
    <3>1. call[c] \in {NoCall} \cup Abstract!Call /\ call[c] # NoCall
      BY <1>4 DEF IInv, CallInv, NoCall
    <3>2. QED
      BY <1>4, <3>1, CallTypes
  <2>2. e \in Seq(Nat)
    BY <2>1, EncodeType
  <2> HIDE DEF e
  <2>3. /\ buf' = [buf EXCEPT ![c] = e]
        /\ file = <<>>
    <3>1. file \in Seq(Nat)
      BY DEF IInv, TypeOK
    <3>2. QED
      BY <1>4, <3>1, EmptySeq DEF e
  <2>4. file \o e = e
    BY <2>2, <2>3
  <2>5. /\ size' \in [Client -> Nat] /\ fsize' \in [Client -> Nat]
        /\ buf' \in [Client -> Seq(Nat)]
        /\ buf'[c] = file \o e
        /\ \A d \in Client : d # c => size'[d] = size[d] /\ buf'[d] = buf[d]
    BY <1>4, <2>2, <2>3, <2>4 DEF IInv, TypeOK
  <2>6. QED
    BY <1>1, <1>4, <2>5, GoOnInv DEF e
<1>5. CASE Finish(c, IF file = <<>> THEN "ok" ELSE "error", <<>>)
  BY <1>1, <1>5, FinishInv, NothingDelivered
<1>6. QED
  BY <1>3, <1>4, <1>5 DEF Length

LEMMA InfoInv ==
  ASSUME IInv, NEW c \in Client, Info(c)
  PROVE  IInv'
<1>1. /\ pc[c] = "info" /\ call[c].kind \in {"put", "get"}
      /\ UNCHANGED <<file, history>>
  BY DEF IInv, TypeOK, Info
<1>2. CASE /\ Goto(c, "read")
           /\ fsize' = [fsize EXCEPT ![c] = Len(file)]
           /\ UNCHANGED <<call, size, buf, reply, got>>
  <2>1. Len(file) \in Nat
    BY DEF IInv, TypeOK
  <2>2. /\ size' \in [Client -> Nat] /\ fsize' \in [Client -> Nat]
        /\ buf' \in [Client -> Seq(Nat)]
        /\ size'[c] = size[c]
        /\ \A d \in Client : d # c => size'[d] = size[d] /\ buf'[d] = buf[d]
    BY <1>2, <2>1 DEF IInv, TypeOK
  <2>3. /\ \E words \in history[c] : Len(words) = size'[c]
        /\ call[c].kind = "put" => size'[c] = Len(file)
    BY <1>1, <2>2 DEF IInv, SizeInv
  <2>4. QED
    BY <1>1, <1>2, <2>2, <2>3, GoOnInv
<1>3. CASE Finish(c, "error", <<>>)
  BY <1>1, <1>3, FinishInv, NothingDelivered
<1>4. QED
  BY <1>2, <1>3 DEF Info

LEMMA ReadInv ==
  ASSUME IInv, NEW c \in Client, Read(c)
  PROVE  IInv'
<1> DEFINE b == Buffer(file, size[c])
<1>1. /\ pc[c] = "read" /\ call[c].kind \in {"put", "get"}
      /\ UNCHANGED <<file, history>>
  BY DEF IInv, TypeOK, Read
<1>2. b \in Seq(Nat) /\ (call[c].kind = "put" => b = file)
  BY <1>1, ReadBuffer
<1>3. \/ /\ call[c].kind = "put"
         /\ Goto(c, "upload")
         /\ buf' = [buf EXCEPT ![c] = b \o Encode(call[c].value)]
         /\ UNCHANGED <<call, size, fsize, reply, got>>
      \/ Deliver(c, b)
      \/ Finish(c, "error", <<>>)
  BY DEF Read
<1> HIDE DEF b
<1>4. CASE /\ call[c].kind = "put"
           /\ Goto(c, "upload")
           /\ buf' = [buf EXCEPT ![c] = b \o Encode(call[c].value)]
           /\ UNCHANGED <<call, size, fsize, reply, got>>
  <2> DEFINE w == file \o Encode(call[c].value)
  <2>1. call[c].value \in Value
    <3>1. call[c] \in {NoCall} \cup Abstract!Call /\ call[c] # NoCall
      BY <1>4 DEF IInv, CallInv, NoCall
    <3>2. QED
      BY <1>4, <3>1, CallTypes
  <2>2. w \in Seq(Nat)
    BY <2>1, FileWithEntry DEF IInv, TypeOK
  <2>3. buf' = [buf EXCEPT ![c] = w]
    BY <1>2, <1>4
  <2> HIDE DEF w
  <2>4. /\ size' = size /\ fsize' = fsize
        /\ call[c].kind = "put" /\ Goto(c, "upload")
        /\ UNCHANGED <<call, reply, got>>
    BY <1>4
  <2>5. /\ buf' \in [Client -> Seq(Nat)]
        /\ buf'[c] = w
        /\ \A d \in Client : d # c => buf'[d] = buf[d]
    BY <2>2, <2>3 DEF IInv, TypeOK
  <2>6. /\ size' \in [Client -> Nat] /\ fsize' \in [Client -> Nat]
        /\ \A d \in Client : d # c => size'[d] = size[d]
    BY <2>4 DEF IInv, TypeOK
  <2>7. buf'[c] = file \o Encode(call[c].value)
    BY <2>5 DEF w
  <2>8. QED
    BY <1>1, <2>4, <2>5, <2>6, <2>7, GoOnInv
<1>5. CASE Deliver(c, b)
  <2> DEFINE vs == Entries(b).values
  <2>1. vs \in Seq(Seq(Nat))
    BY <1>2, EntriesType
  <2>2. CASE Finish(c, IF Entries(b).complete THEN "ok" ELSE "error", vs)
    BY <1>1, <2>1, <2>2, FinishInv
  <2>3. CASE \E k \in 1..Len(vs) : Finish(c, "stopped", SubSeq(vs, 1, k))
    <3>1. PICK k \in 1..Len(vs) : Finish(c, "stopped", SubSeq(vs, 1, k))
      BY <2>3
    <3> HIDE DEF vs
    <3>2. SubSeq(vs, 1, k) \in Seq(Seq(Nat))
      BY <2>1
    <3>3. QED
      BY <1>1, <3>1, <3>2, FinishInv
  <2>4. QED
    BY <1>5, <2>2, <2>3 DEF Deliver
<1>6. CASE Finish(c, "error", <<>>)
  BY <1>1, <1>6, FinishInv, NothingDelivered
<1>7. QED
  BY <1>3, <1>4, <1>5, <1>6

(* With one writer the invariant is kept by every step.                    *)
THEOREM NextIInv == ASSUME OneWriter, IInv, [Next]_vars PROVE IInv'
<1>1. CASE UNCHANGED vars
  BY <1>1 DEF vars, IInv, TypeOK, CallInv, UploadInv, SizeInv, HistoryInv
<1>2. CASE Next
  <2> SUFFICES ASSUME NEW c \in Client,
                      \/ Put(c) \/ Set(c) \/ Get(c) \/ Delete(c)
                      \/ Length(c) \/ Info(c) \/ Read(c) \/ Overrun(c)
                      \/ Upload(c) \/ Remove(c) \/ Answer(c)
                      \/ RequestFails(c) \/ EmptyAnswer(c)
               PROVE  IInv'
    BY <1>2 DEF Next
  <2>1. CASE Put(c)
    <3>1. PICK v \in Value : c \in Writer /\ Begin(c, "put", v, "length") /\ UNCHANGED buf
      BY <2>1 DEF Put
    <3>2. [kind |-> "put", value |-> v] \in Abstract!Call
      BY DEF Abstract!Call
    <3>3. QED
      BY <3>1, <3>2, BeginInv
  <2>2. CASE Set(c)
    <3>1. PICK v \in Value : /\ c \in Writer /\ Begin(c, "set", v, "upload")
                             /\ buf' = [buf EXCEPT ![c] = Encode(v)]
      BY <2>2 DEF Set
    <3>2. [kind |-> "set", value |-> v] \in Abstract!Call
      BY DEF Abstract!Call
    <3>3. QED
      BY <3>1, <3>2, BeginInv
  <2>3. CASE Get(c)
    <3>1. [kind |-> "get", value |-> NoValue] \in Abstract!Call
      BY DEF Abstract!Call
    <3>2. QED
      BY <2>3, <3>1, BeginInv DEF Get
  <2>4. CASE Delete(c)
    <3>1. [kind |-> "delete", value |-> NoValue] \in Abstract!Call
      BY DEF Abstract!Call
    <3>2. QED
      BY <2>4, <3>1, BeginInv DEF Delete
  <2>5. CASE Length(c)
    BY <2>5, LengthInv
  <2>6. CASE Info(c)
    BY <2>6, InfoInv
  <2>7. CASE Read(c)
    BY <2>7, ReadInv
  <2>8. CASE Overrun(c)
    BY <2>8, FinishInv, NothingDelivered DEF Overrun
  <2>9. CASE Upload(c)
    <3>1. pc[c] = "upload"
      BY <2>9 DEF Upload
    <3>2. /\ buf[c] \in Seq(Nat) /\ Entries(buf[c]).complete /\ Replaces(buf[c])
      BY <3>1, UploadWords
    <3>3. QED
      BY <2>9, <3>1, <3>2, ReplaceInv DEF Upload
  <2>10. CASE Remove(c)
    BY <2>10, RemoveWords, EmptyFile, ReplaceInv DEF Remove
  <2>11. CASE Answer(c)
    BY <2>11, FinishInv, NothingDelivered DEF Answer
  <2>12. CASE RequestFails(c)
    BY <2>12, FinishInv, NothingDelivered DEF RequestFails
  <2>13. CASE EmptyAnswer(c)
    BY <2>13, FinishInv, NothingDelivered DEF EmptyAnswer
  <2>14. QED
    BY <2>1, <2>2, <2>3, <2>4, <2>5, <2>6, <2>7, <2>8, <2>9, <2>10, <2>11, <2>12, <2>13
<1>3. QED
  BY <1>1, <1>2

(* With one writer and any number of readers the types hold, and the file  *)
(* is at all times a whole number of entries.                              *)
THEOREM TypeCorrect == ASSUME OneWriter PROVE Spec => []TypeOK
<1>1. IInv => TypeOK
  BY DEF IInv
<1>2. IInv /\ [Next]_vars => IInv'
  BY NextIInv
<1>3. QED
  BY <1>1, <1>2, InitIInv, PTL DEF Spec

-----------------------------------------------------------------------------
(* Refinement of the abstract store, one lemma per abstract step.          *)

LEMMA SameNoCall == Abstract!NoCall = NoCall
  BY DEF NoCall, Abstract!NoCall

LEMMA InitRefines == Init => Abstract!Init
<1> SUFFICES ASSUME Init PROVE Abstract!Init
  OBVIOUS
<1>1. [c \in Client |-> pc[c] = "answer"] = [c \in Client |-> FALSE]
  BY DEF Init
<1>2. [c \in Client |-> IF reply[c] = "died" THEN "error" ELSE reply[c]]
         = [c \in Client |-> "none"]
  BY DEF Init
<1>3. [c \in Client |-> {Entries(words).values : words \in history[c]}]
         = [c \in Client |-> {}]
  BY DEF Init
<1>4. Entries(file).values = <<>>
  BY EmptyFile DEF Init
<1>5. /\ call = [c \in Client |-> Abstract!NoCall]
      /\ got = [c \in Client |-> <<>>]
  BY SameNoCall DEF Init
<1>6. QED
  BY <1>1, <1>2, <1>3, <1>4, <1>5 DEF Abstract!Init

(* A call that returns is one that returns in the abstract store.          *)
LEMMA Returns ==
  ASSUME IInv, NEW c \in Client, NEW r, NEW vals,
         Finish(c, r, vals), UNCHANGED <<file, history>>
  PROVE  /\ Abstract!Return(c, IF r = "died" THEN "error" ELSE r)
         /\ got' = [got EXCEPT ![c] = vals]
<1> USE DEF IInv, TypeOK, Finish, Goto
<1>1. [d \in Client |-> pc'[d] = "answer"]
         = [[d \in Client |-> pc[d] = "answer"] EXCEPT ![c] = FALSE]
  OBVIOUS
<1>2. [d \in Client |-> IF reply'[d] = "died" THEN "error" ELSE reply'[d]]
         = [[d \in Client |-> IF reply[d] = "died" THEN "error" ELSE reply[d]]
              EXCEPT ![c] = IF r = "died" THEN "error" ELSE r]
  OBVIOUS
<1>3. call' = [call EXCEPT ![c] = Abstract!NoCall]
  BY SameNoCall
<1>4. Entries(file').values = Entries(file).values
  OBVIOUS
<1>5. [d \in Client |-> {Entries(words).values : words \in history'[d]}]
         = [d \in Client |-> {Entries(words).values : words \in history[d]}]
  OBVIOUS
<1> HIDE DEF IInv, TypeOK
<1>6. Abstract!Return(c, IF r = "died" THEN "error" ELSE r)
  BY <1>1, <1>2, <1>3, <1>4, <1>5 DEF Abstract!Return
<1>7. QED
  BY <1>6

LEMMA InCall ==
  ASSUME IInv, NEW c \in Client, pc[c] # "idle"
  PROVE  call[c] # Abstract!NoCall /\ call[c] \in Abstract!Call /\ got[c] = <<>>
  BY SameNoCall DEF IInv, TypeOK, CallInv, NoCall

LEMMA Fails ==
  ASSUME IInv, NEW c \in Client, pc[c] # "idle",
         NEW r \in {"error", "died"},
         Finish(c, r, <<>>), UNCHANGED <<file, history>>
  PROVE  Abstract!Next
<1>1. Abstract!Return(c, "error") /\ got' = [got EXCEPT ![c] = <<>>]
  BY Returns
<1>2. call[c] # Abstract!NoCall /\ got[c] = <<>>
  BY InCall
<1>3. got' = got
  BY <1>1, <1>2 DEF IInv, TypeOK
<1>4. Abstract!Fail(c)
  BY <1>1, <1>2, <1>3 DEF Abstract!Fail
<1>5. QED
  BY <1>4 DEF Abstract!Next

LEMMA Succeeds ==
  ASSUME IInv, NEW c \in Client, pc[c] = "answer",
         Finish(c, "ok", <<>>), UNCHANGED <<file, history>>
  PROVE  Abstract!Next
<1>1. Abstract!Return(c, "ok") /\ got' = [got EXCEPT ![c] = <<>>]
  BY Returns
<1>2. call[c] # Abstract!NoCall /\ got[c] = <<>>
  BY InCall
<1>3. got' = got
  BY <1>1, <1>2 DEF IInv, TypeOK
<1>4. Abstract!Succeed(c)
  BY <1>1, <1>3 DEF Abstract!Succeed
<1>5. QED
  BY <1>4 DEF Abstract!Next

LEMMA Invokes ==
  ASSUME IInv, NEW c \in Client, NEW kind, NEW v, NEW label,
         [kind |-> kind, value |-> v] \in Abstract!Call, label # "answer",
         Begin(c, kind, v, label)
  PROVE  Abstract!Next
<1> USE DEF Begin, Goto
<1> DEFINE o == [kind |-> kind, value |-> v]
<1>1. call[c] = Abstract!NoCall
  BY SameNoCall, CallTypes DEF IInv, TypeOK, CallInv
<1>2. [d \in Client |-> pc'[d] = "answer"] = [d \in Client |-> pc[d] = "answer"]
  BY DEF IInv, TypeOK
<1>3. [d \in Client |-> IF reply'[d] = "died" THEN "error" ELSE reply'[d]]
         = [[d \in Client |-> IF reply[d] = "died" THEN "error" ELSE reply[d]]
              EXCEPT ![c] = "none"]
  BY DEF IInv, TypeOK
<1>4. [d \in Client |-> {Entries(words).values : words \in history'[d]}]
         = [[d \in Client |-> {Entries(words).values : words \in history[d]}]
              EXCEPT ![c] = {Entries(file).values}]
  BY DEF IInv, TypeOK
<1>5. call' = [call EXCEPT ![c] = o] /\ got' = [got EXCEPT ![c] = <<>>]
  OBVIOUS
<1>6. Entries(file').values = Entries(file).values
  OBVIOUS
<1> HIDE DEF o
<1>7. Abstract!Invoke(c, o)
  BY <1>1, <1>2, <1>3, <1>4, <1>5, <1>6 DEF Abstract!Invoke
<1>8. o \in Abstract!Call
  BY DEF o
<1>9. QED
  BY <1>7, <1>8 DEF Abstract!Next

(* A request that reads changes nothing the abstract store sees.           *)
LEMMA Stutters ==
  ASSUME IInv, NEW c \in Client, pc[c] # "answer", NEW label, label # "answer",
         Goto(c, label), UNCHANGED <<file, history, call, reply, got>>
  PROVE  UNCHANGED Abstract!vars
<1>1. [d \in Client |-> pc'[d] = "answer"] = [d \in Client |-> pc[d] = "answer"]
  BY DEF IInv, TypeOK, Goto
<1>2. [d \in Client |-> {Entries(words).values : words \in history'[d]}]
         = [d \in Client |-> {Entries(words).values : words \in history[d]}]
  OBVIOUS
<1>3. QED
  BY <1>1, <1>2 DEF Abstract!vars

(* The drive replaces the file: the call takes effect.                     *)
LEMMA TakesEffect ==
  ASSUME IInv, NEW c \in Client, pc[c] \in {"upload", "delete"},
         NEW words, Replace(words), Goto(c, "answer"),
         Entries(words).values = Abstract!Effect(call[c]),
         UNCHANGED <<call, reply, got>>
  PROVE  Abstract!Next
<1> USE DEF Replace, Goto
<1> DEFINE seen == [d \in Client |-> {Entries(x).values : x \in history[d]}]
<1>1. call[c].kind \in {"put", "set", "delete"}
  BY DEF IInv, TypeOK, CallInv
<1>2. ~ [d \in Client |-> pc[d] = "answer"][c]
  OBVIOUS
<1>3. [d \in Client |-> pc'[d] = "answer"]
         = [[d \in Client |-> pc[d] = "answer"] EXCEPT ![c] = TRUE]
  BY DEF IInv, TypeOK
<1>4. Entries(file').values = Abstract!Effect(call[c])
  OBVIOUS
<1>5. [d \in Client |-> {Entries(x).values : x \in history'[d]}]
         = [d \in Client |->
              IF call[d] = Abstract!NoCall THEN seen[d]
              ELSE seen[d] \cup {Entries(file').values}]
  <2>1. ASSUME NEW d \in Client
        PROVE  {Entries(x).values : x \in history'[d]}
                  = IF call[d] = Abstract!NoCall THEN seen[d]
                    ELSE seen[d] \cup {Entries(file').values}
    <3>1. CASE call[d] = NoCall
      BY <3>1, SameNoCall
    <3>2. CASE call[d] # NoCall
      <4>1. history'[d] = history[d] \cup {words} /\ file' = words
        BY <3>2
      <4>2. QED
        BY <3>2, <4>1, SameNoCall
    <3>3. QED
      BY <3>1, <3>2
  <2>2. QED
    BY <2>1
<1>6. [d \in Client |-> IF reply'[d] = "died" THEN "error" ELSE reply'[d]]
         = [d \in Client |-> IF reply[d] = "died" THEN "error" ELSE reply[d]]
  OBVIOUS
<1>7. Abstract!TakeEffect(c)
  BY <1>1, <1>2, <1>3, <1>4, <1>5, <1>6 DEF Abstract!TakeEffect
<1>8. QED
  BY <1>7 DEF Abstract!Next

LEMMA UploadRefines ==
  ASSUME IInv, NEW c \in Client, Upload(c)
  PROVE  Abstract!Next
<1>1. /\ pc[c] = "upload" /\ Replace(buf[c]) /\ Goto(c, "answer")
      /\ UNCHANGED <<call, reply, got>>
  BY DEF Upload
<1>2. /\ call[c] \in Abstract!Call /\ call[c].kind \in {"put", "set"}
  BY <1>1, InCall DEF IInv, TypeOK
<1>3. call[c].value \in Value
  BY <1>2, CallTypes
<1>4. Entries(buf[c]).values = Abstract!Effect(call[c])
  <2>1. CASE call[c].kind = "put"
    <3>1. buf[c] = file \o Encode(call[c].value)
      BY <1>1, <2>1 DEF IInv, UploadInv
    <3>2. file \in Seq(Nat) /\ Entries(file).complete
      BY DEF IInv, TypeOK
    <3>3. Entries(buf[c]).values = Append(Entries(file).values, call[c].value)
      BY <1>3, <3>1, <3>2, EntriesAppend
    <3>4. "put" # "set" /\ "put" # "delete"
      OBVIOUS
    <3>5. QED
      BY <2>1, <3>3, <3>4, Zenon DEF Abstract!Effect
  <2>2. CASE call[c].kind = "set"
    <3>1. buf[c] = Encode(call[c].value)
      BY <1>1, <2>2 DEF IInv, UploadInv
    <3>2. Entries(buf[c]).values = <<call[c].value>>
      BY <1>3, <3>1, EntriesEncode
    <3>3. "set" # "put" /\ "set" # "delete"
      OBVIOUS
    <3>4. QED
      BY <2>2, <3>2, <3>3, Zenon DEF Abstract!Effect
  <2>3. QED
    BY <1>2, <2>1, <2>2
<1>5. QED
  BY <1>1, <1>4, TakesEffect

LEMMA RemoveRefines ==
  ASSUME IInv, NEW c \in Client, Remove(c)
  PROVE  Abstract!Next
<1>1. /\ pc[c] = "delete" /\ Replace(<<>>) /\ Goto(c, "answer")
      /\ UNCHANGED <<call, reply, got>>
  BY DEF Remove
<1>2. call[c].kind = "delete"
  BY <1>1 DEF IInv, CallInv
<1>3. "delete" # "put" /\ "delete" # "set"
  OBVIOUS
<1>4. Entries(<<>>).values = Abstract!Effect(call[c])
  BY <1>2, <1>3, EmptyFile, Zenon DEF Abstract!Effect
<1>5. QED
  BY <1>1, <1>4, TakesEffect

(* What a get reads from its buffer: a content the file had during the     *)
(* call, or the beginning of what it has now followed by empty values, and *)
(* then it had another content too.                                        *)
LEMMA Downloaded ==
  ASSUME IInv, NEW c \in Client, pc[c] = "read", Len(file) > 0
  PROVE  LET e == Entries(Buffer(file, size[c]))
             v == Entries(file).values
         IN  /\ e.values \in Seq(Seq(Nat))
             /\ Len(e.values) <= MaxWords
             /\ e.complete => \E x \in history[c] : Entries(x).values = e.values
             /\ ~ e.complete => \E x \in history[c] : Entries(x).values # v
             /\ \A k \in 1..Len(e.values) :
                   e.values[k] = IF k <= Len(v) THEN v[k] ELSE <<>>
<1> DEFINE s == size[c]
           b == Buffer(file, s)
           e == Entries(b)
           v == Entries(file).values
<1>1. file \in Seq(Nat) /\ Len(file) \in Nat /\ s \in Nat /\ Entries(file).complete
  BY DEF IInv, TypeOK
<1>2. PICK f \in history[c] : Len(f) = s
  BY DEF IInv, SizeInv
<1>3. f \in Seq(Nat) /\ Entries(f).complete /\ Len(f) <= MaxWords /\ file \in history[c]
  BY <1>2 DEF IInv, TypeOK, HistoryInv
<1>4. b \in Seq(Nat) /\ Len(b) = s
  BY ReadBuffer
<1> HIDE DEF b, v
<1>5. /\ e.values \in Seq(Seq(Nat)) /\ e.complete \in BOOLEAN
      /\ Len(e.values) \in Nat /\ Len(e.values) <= Len(b)
  BY <1>4, EntriesType
<1>6. Len(e.values) <= MaxWords
  BY <1>1, <1>2, <1>3, <1>4, <1>5, BoundAssumption
<1>7. s # Len(file) => Entries(f).values # v
  BY <1>1, <1>2, <1>3, EntriesLength DEF v
<1>8. CASE s <= Len(file)
  <2>1. s \in 0..Len(file)
    BY <1>1, <1>8
  <2>2. b = SubSeq(file, 1, s)
    BY <1>1, <2>1, BufferOfLonger DEF b
  <2>3. Begins(e.values, v)
    BY <1>1, <2>1, <2>2, EntriesOfBeginning DEF v
  <2>4. \A k \in 1..Len(e.values) : e.values[k] = IF k <= Len(v) THEN v[k] ELSE <<>>
    <3>1. v \in Seq(Seq(Nat)) /\ Len(v) \in Nat
      BY <1>1, EntriesType DEF v
    <3> HIDE DEF e
    <3>2. QED
      BY <1>5, <2>3, <3>1 DEF Begins
  <2>5. ASSUME e.complete PROVE b \in history[c]
    <3>1. \/ SubSeq(file, 1, s) \in history[c]
          \/ \A words \in history[c] : s < Len(words)
      BY <2>1, <2>2, <2>5 DEF IInv, HistoryInv
    <3>2. ~ (s < Len(f))
      BY <1>1, <1>2
    <3>3. QED
      BY <1>2, <2>2, <3>1, <3>2
  <2>6. ASSUME ~ e.complete PROVE Entries(f).values # v
    <3>1. CASE s = Len(file)
      <4>1. b = file
        BY <1>1, <2>1, <2>2, <3>1, FirstWords
      <4>2. QED
        BY <1>1, <2>6, <4>1
    <3>2. QED
      BY <1>7, <3>1
  <2> HIDE DEF e
  <2>7. QED
    BY <1>2, <1>5, <1>6, <2>4, <2>5, <2>6 DEF b, v, e
<1>9. CASE Len(file) < s
  <2>1. file # <<>>
    BY <1>1, EmptySeq
  <2>2. /\ e.complete = FALSE
        /\ \A k \in 1..Len(e.values) : e.values[k] = IF k <= Len(v) THEN v[k] ELSE <<>>
    BY <1>1, <1>9, <2>1, EntriesPadded DEF b, v
  <2>3. Entries(f).values # v
    BY <1>1, <1>7, <1>9
  <2> HIDE DEF e
  <2>4. QED
    BY <1>2, <1>5, <1>6, <2>2, <2>3 DEF b, v, e
<1>10. QED
  BY <1>1, <1>8, <1>9

(* A get that delivers a whole list of values.                             *)
LEMMA DeliversAll ==
  ASSUME IInv, NEW c \in Client, pc[c] # "idle", call[c].kind = "get",
         NEW x \in history[c],
         Finish(c, "ok", Entries(x).values), UNCHANGED <<file, history>>
  PROVE  Abstract!Next
<1> DEFINE seen == [d \in Client |-> {Entries(w).values : w \in history[d]}]
<1>1. Abstract!Return(c, "ok") /\ got' = [got EXCEPT ![c] = Entries(x).values]
  BY Returns
<1>2. Entries(x).values \in seen[c]
  OBVIOUS
<1>3. Abstract!DeliverValues(c)
  BY <1>1, <1>2 DEF Abstract!DeliverValues
<1>4. QED
  BY <1>3 DEF Abstract!Next

(* A get that delivers a part of one.                                      *)
LEMMA DeliversSome ==
  ASSUME IInv, NEW c \in Client, pc[c] # "idle", call[c].kind = "get",
         NEW x \in history[c], NEW r \in {"stopped", "error"},
         NEW vals \in Seq(Seq(Nat)), Len(vals) \in 1..MaxWords,
         \A k \in 1..Len(vals) :
            vals[k] = IF k <= Len(Entries(x).values) THEN Entries(x).values[k] ELSE <<>>,
         \/ r = "stopped" /\ ~ (Len(vals) > Len(Entries(x).values))
         \/ \E y \in history[c] : Entries(y).values # Entries(x).values,
         Finish(c, r, vals), UNCHANGED <<file, history>>
  PROVE  Abstract!Next
<1> DEFINE seen == [d \in Client |-> {Entries(w).values : w \in history[d]}]
           v == Entries(x).values
           k == Len(vals)
<1>1. Abstract!Return(c, r) /\ got' = [got EXCEPT ![c] = vals]
  <2>1. r # "died"
    OBVIOUS
  <2>2. QED
    BY <2>1, Returns
<1>2. v \in seen[c]
  OBVIOUS
<1>3. \/ r = "stopped" /\ ~ (k > Len(v))
      \/ seen[c] # {v}
  OBVIOUS
<1>4. vals = Abstract!Padded(v, k)
  <2>1. vals = [i \in 1..k |-> vals[i]]
    BY SeqDef
  <2>2. QED
    BY <2>1 DEF Abstract!Padded
<1>5. k \in 1..MaxWords
  OBVIOUS
<1> HIDE DEF v, k, seen
<1>6. /\ \/ Abstract!Return(c, "stopped") /\ (k > Len(v) => seen[c] # {v})
         \/ Abstract!Return(c, "error") /\ seen[c] # {v}
      /\ got' = [got EXCEPT ![c] = Abstract!Padded(v, k)]
  <2>1. r = "stopped" \/ r = "error"
    OBVIOUS
  <2>2. "stopped" # "error"
    OBVIOUS
  <2>3. QED
    BY <1>1, <1>3, <1>4, <2>1, <2>2
<1>7. Abstract!DeliverValues(c)
  BY <1>2, <1>5, <1>6 DEF Abstract!DeliverValues, seen
<1>8. QED
  BY <1>7 DEF Abstract!Next

LEMMA DeliverRefines ==
  ASSUME IInv, NEW c \in Client, pc[c] = "read", Len(file) > 0,
         call[c].kind = "get", Deliver(c, Buffer(file, size[c])),
         UNCHANGED <<file, history>>
  PROVE  Abstract!Next
<1> DEFINE e == Entries(Buffer(file, size[c]))
           v == Entries(file).values
<1>1. /\ e.values \in Seq(Seq(Nat))
      /\ Len(e.values) <= MaxWords
      /\ e.complete => \E x \in history[c] : Entries(x).values = e.values
      /\ ~ e.complete => \E x \in history[c] : Entries(x).values # v
      /\ \A k \in 1..Len(e.values) :
            e.values[k] = IF k <= Len(v) THEN v[k] ELSE <<>>
  BY Downloaded
<1>2. \/ Finish(c, IF e.complete THEN "ok" ELSE "error", e.values)
      \/ \E k \in 1..Len(e.values) : Finish(c, "stopped", SubSeq(e.values, 1, k))
  BY DEF Deliver
<1>3. file \in history[c]
  BY DEF IInv, HistoryInv
<1>4. Len(e.values) \in Nat /\ MaxWords \in Nat
  BY <1>1, BoundAssumption
<1> HIDE DEF e, v
<1>5. CASE Finish(c, "ok", e.values) /\ e.complete
  <2>1. PICK x \in history[c] : Entries(x).values = e.values
    BY <1>1, <1>5
  <2>2. QED
    BY <1>5, <2>1, DeliversAll
<1>6. CASE Finish(c, "error", e.values) /\ ~ e.complete
  <2>1. CASE e.values = <<>>
    BY <1>6, <2>1, Fails
  <2>2. CASE e.values # <<>>
    <3>1. Len(e.values) \in 1..MaxWords
      BY <1>1, <1>4, <2>2, EmptySeq
    <3>2. QED
      BY <1>1, <1>3, <1>6, <3>1, DeliversSome DEF v
  <2>3. QED
    BY <2>1, <2>2
<1>7. CASE \E k \in 1..Len(e.values) : Finish(c, "stopped", SubSeq(e.values, 1, k))
  <2>1. PICK k \in 1..Len(e.values) : Finish(c, "stopped", SubSeq(e.values, 1, k))
    BY <1>7
  <2> DEFINE vals == SubSeq(e.values, 1, k)
  <2>2. /\ vals \in Seq(Seq(Nat)) /\ Len(vals) = k
        /\ \A j \in 1..k : vals[j] = e.values[j]
    BY <1>1, <1>4
  <2>3. k \in 1..MaxWords /\ \A j \in 1..k : j \in 1..Len(e.values)
    BY <1>1, <1>4
  <2> HIDE DEF vals
  <2>4. CASE e.complete
    <3>1. PICK x \in history[c] : Entries(x).values = e.values
      BY <1>1, <2>4
    <3>2. \A j \in 1..Len(vals) :
             vals[j] = IF j <= Len(Entries(x).values) THEN Entries(x).values[j] ELSE <<>>
      BY <1>4, <2>2, <2>3, <3>1
    <3>3. Len(vals) \in 1..MaxWords /\ ~ (Len(vals) > Len(Entries(x).values))
      BY <1>4, <2>2, <2>3, <3>1
    <3>4. Finish(c, "stopped", vals)
      BY <2>1 DEF vals
    <3>5. QED
      BY <2>2, <3>2, <3>3, <3>4, DeliversSome
  <2>5. CASE ~ e.complete
    <3>1. \A j \in 1..Len(vals) :
             vals[j] = IF j <= Len(Entries(file).values) THEN Entries(file).values[j] ELSE <<>>
      BY <1>1, <2>2, <2>3 DEF v
    <3>2. \E x \in history[c] : Entries(x).values # Entries(file).values
      BY <1>1, <2>5 DEF v
    <3>3. Finish(c, "stopped", vals) /\ Len(vals) \in 1..MaxWords
      BY <2>1, <2>2, <2>3 DEF vals
    <3>4. QED
      BY <1>3, <2>2, <3>1, <3>2, <3>3, DeliversSome
  <2>6. QED
    BY <2>4, <2>5
<1>8. QED
  BY <1>2, <1>5, <1>6, <1>7

LEMMA LengthRefines ==
  ASSUME IInv, NEW c \in Client, Length(c)
  PROVE  Abstract!Next \/ UNCHANGED Abstract!vars
<1>1. pc[c] = "length" /\ UNCHANGED <<file, history>>
  BY DEF Length
<1>2. CASE Goto(c, "info") /\ UNCHANGED <<call, reply, got>>
  BY <1>1, <1>2, Stutters
<1>3. CASE Goto(c, "upload") /\ UNCHANGED <<call, reply, got>>
  BY <1>1, <1>3, Stutters
<1>4. CASE /\ call[c].kind = "get"
           /\ Finish(c, IF file = <<>> THEN "ok" ELSE "error", <<>>)
  <2>1. CASE file = <<>>
    <3>1. file \in history[c] /\ Entries(file).values = <<>>
      BY <1>1, <2>1, EmptyFile DEF IInv, HistoryInv
    <3>2. QED
      BY <1>1, <1>4, <2>1, <3>1, DeliversAll
  <2>2. CASE file # <<>>
    BY <1>1, <1>4, <2>2, Fails
  <2>3. QED
    BY <2>1, <2>2
<1>5. QED
  BY <1>2, <1>3, <1>4 DEF Length

LEMMA ReadRefines ==
  ASSUME IInv, NEW c \in Client, Read(c)
  PROVE  Abstract!Next \/ UNCHANGED Abstract!vars
<1>1. pc[c] = "read" /\ Len(file) > 0 /\ UNCHANGED <<file, history>>
  BY DEF Read
<1>2. \/ Goto(c, "upload") /\ UNCHANGED <<call, reply, got>>
      \/ call[c].kind = "get" /\ Deliver(c, Buffer(file, size[c]))
      \/ Finish(c, "error", <<>>)
  BY DEF Read
<1>3. CASE Goto(c, "upload") /\ UNCHANGED <<call, reply, got>>
  BY <1>1, <1>3, Stutters
<1>4. CASE call[c].kind = "get" /\ Deliver(c, Buffer(file, size[c]))
  BY <1>1, <1>4, DeliverRefines
<1>5. CASE Finish(c, "error", <<>>)
  BY <1>1, <1>5, Fails
<1>6. QED
  BY <1>2, <1>3, <1>4, <1>5

(* With one writer every step of the operations, of any client, is a step  *)
(* of the abstract store or changes nothing it sees.                       *)
THEOREM NextRefines ==
  ASSUME IInv, [Next]_vars PROVE [Abstract!Next]_(Abstract!vars)
<1>1. CASE UNCHANGED vars
  BY <1>1 DEF vars, Abstract!vars
<1>2. CASE Next
  <2> SUFFICES ASSUME NEW c \in Client,
                      \/ Put(c) \/ Set(c) \/ Get(c) \/ Delete(c)
                      \/ Length(c) \/ Info(c) \/ Read(c) \/ Overrun(c)
                      \/ Upload(c) \/ Remove(c) \/ Answer(c)
                      \/ RequestFails(c) \/ EmptyAnswer(c)
               PROVE  Abstract!Next \/ UNCHANGED Abstract!vars
    BY <1>2 DEF Next
  <2>1. CASE Put(c)
    <3>1. PICK v \in Value : Begin(c, "put", v, "length")
      BY <2>1 DEF Put
    <3>2. [kind |-> "put", value |-> v] \in Abstract!Call
      BY DEF Abstract!Call
    <3>3. QED
      BY <3>1, <3>2, Invokes
  <2>2. CASE Set(c)
    <3>1. PICK v \in Value : Begin(c, "set", v, "upload")
      BY <2>2 DEF Set
    <3>2. [kind |-> "set", value |-> v] \in Abstract!Call
      BY DEF Abstract!Call
    <3>3. QED
      BY <3>1, <3>2, Invokes
  <2>3. CASE Get(c)
    <3>1. [kind |-> "get", value |-> NoValue] \in Abstract!Call
      BY DEF Abstract!Call
    <3>2. QED
      BY <2>3, <3>1, Invokes DEF Get
  <2>4. CASE Delete(c)
    <3>1. [kind |-> "delete", value |-> NoValue] \in Abstract!Call
      BY DEF Abstract!Call
    <3>2. QED
      BY <2>4, <3>1, Invokes DEF Delete
  <2>5. CASE Length(c)
    BY <2>5, LengthRefines
  <2>6. CASE Info(c)
    <3>1. pc[c] = "info" /\ UNCHANGED <<file, history>>
      BY <2>6 DEF Info
    <3>2. CASE Goto(c, "read") /\ UNCHANGED <<call, reply, got>>
      BY <3>1, <3>2, Stutters
    <3>3. CASE Finish(c, "error", <<>>)
      BY <3>1, <3>3, Fails
    <3>4. QED
      BY <2>6, <3>2, <3>3 DEF Info
  <2>7. CASE Read(c)
    BY <2>7, ReadRefines
  <2>8. CASE Overrun(c)
    BY <2>8, Fails DEF Overrun
  <2>9. CASE Upload(c)
    BY <2>9, UploadRefines
  <2>10. CASE Remove(c)
    BY <2>10, RemoveRefines
  <2>11. CASE Answer(c)
    BY <2>11, Succeeds DEF Answer
  <2>12. CASE RequestFails(c)
    BY <2>12, Fails DEF RequestFails
  <2>13. CASE EmptyAnswer(c)
    <3>1. pc[c] # "idle"
      BY <2>13 DEF EmptyAnswer
    <3>2. QED
      BY <2>13, <3>1, Fails DEF EmptyAnswer
  <2>14. QED
    BY <2>1, <2>2, <2>3, <2>4, <2>5, <2>6, <2>7, <2>8, <2>9, <2>10, <2>11, <2>12, <2>13
<1>3. QED
  BY <1>1, <1>2

(* With one writer and any number of readers put, set, get and delete, of  *)
(* which each is several requests that interleave with those of the others *)
(* and of which any may fail, are operations on one list of values that    *)
(* take effect at one instant.                                             *)
THEOREM Refinement == ASSUME OneWriter PROVE Spec => KeyValuesSpec
<1>1. IInv /\ [Next]_vars => IInv'
  BY NextIInv
<1>2. IInv /\ [Next]_vars => [Abstract!Next]_(Abstract!vars)
  BY NextRefines
<1>3. QED
  BY <1>1, <1>2, InitIInv, InitRefines, PTL DEF Spec, KeyValuesSpec, Abstract!Spec
=============================================================================
