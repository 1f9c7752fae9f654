------------------------ MODULE RegisterAccessProofs ------------------------
(***************************************************************************)
(* What RegisterAccess.tla promises of the fields that are written and of  *)
(* the writes that are reported, for any number of clients, registers and  *)
(* values, and for words, cells and fields of any size.                    *)
(***************************************************************************)
EXTENDS RegisterAccess, WellFoundedInduction, TLAPS

-----------------------------------------------------------------------------
(* Numbers. *)

\* A set of numbers that has 0 and, with each number, the next one, has all: what induction
\* amounts to for a set.
LEMMA InductiveSet ==
  ASSUME NEW S \in SUBSET Nat, 0 \in S, \A n \in S : n + 1 \in S
  PROVE  S = Nat
<1> DEFINE R == {ss \in Nat \X Nat : ss[1] < ss[2]}
           T == Nat \ S
<1>1. IsWellFoundedOn(R, Nat)
  BY NatLessThanWellFounded DEF OpToRel
<1> SUFFICES ASSUME T # {} PROVE FALSE
  OBVIOUS
<1>2. T \subseteq Nat
  OBVIOUS
<1> HIDE DEF T, R
<1>3. PICK x \in T : \A y \in T : ~(<<y, x>> \in R)
  BY <1>1, <1>2, WFMin
<1>4. x - 1 \in Nat /\ x - 1 + 1 = x /\ x - 1 < x /\ x \in Nat
  BY DEF T
<1>5. x - 1 \in T
  BY <1>4 DEF T
<1>6. <<x - 1, x>> \in R
  BY <1>4 DEF R
<1> QED BY <1>3, <1>5, <1>6

\* G makes the next value of a sequence from the number and the value before.
IsStep(G, V) == G \in [Nat \X V -> V]

\* The sequence that begins with a value and goes on with the step.
IsSequenceOf(f, V, first, G) ==
  f \in [Nat -> V] /\ f[0] = first /\ \A n \in Nat : f[n + 1] = G[<<n, f[n]>>]

\* A value and a step define a sequence of values.
LEMMA Recursion ==
  ASSUME NEW V, NEW first \in V, NEW G, IsStep(G, V)
  PROVE  \E f : IsSequenceOf(f, V, first, G)
<1> USE DEF IsStep
<1> DEFINE Starts(g, k) == g[0] = first /\ \A i \in 0..(k - 1) : g[i + 1] = G[<<i, g[i]>>]
           S == {k \in Nat : \E g \in [0..k -> V] : Starts(g, k)}
<1>1. 0 \in S
  <2> DEFINE g == [i \in 0..0 |-> first]
  <2>1. g \in [0..0 -> V] /\ Starts(g, 0)
    OBVIOUS
  <2> QED BY <2>1
<1>2. ASSUME NEW k \in S
      PROVE  k + 1 \in S
  <2>1. PICK g \in [0..k -> V] : Starts(g, k)
    OBVIOUS
  <2> DEFINE h == [i \in 0..(k + 1) |-> IF i = k + 1 THEN G[<<k, g[k]>>] ELSE g[i]]
  <2>2. k \in Nat /\ g[k] \in V /\ G[<<k, g[k]>>] \in V
    OBVIOUS
  <2>3. h \in [0..(k + 1) -> V]
    BY <2>2
  <2>4. h[0] = first
    BY <2>1, <2>2
  <2>5. ASSUME NEW i \in 0..k
        PROVE  h[i + 1] = G[<<i, h[i]>>]
    <3>1. i \in Nat /\ h[i] = g[i]
      BY <2>2
    <3>2. CASE i = k
      <4>1. h[k + 1] = G[<<k, g[k]>>]
        BY <2>2
      <4> HIDE DEF h
      <4> QED BY <3>1, <3>2, <4>1
    <3>3. CASE i # k
      <4>1. i \in 0..(k - 1) /\ i + 1 \in 0..k /\ i + 1 # k + 1
        BY <2>2, <3>3
      <4>2. h[i + 1] = g[i + 1]
        BY <2>2, <4>1
      <4> QED BY <2>1, <3>1, <4>1, <4>2
    <3> QED BY <3>2, <3>3
  <2> HIDE DEF h
  <2>6. Starts(h, k + 1)
    <3>1. k + 1 - 1 = k
      BY <2>2
    <3> QED BY <2>4, <2>5, <3>1
  <2> QED BY <2>2, <2>3, <2>6
<1> HIDE DEF S
<1>3. S = Nat
  <2>1. S \in SUBSET Nat
    BY DEF S
  <2> QED BY <1>1, <1>2, <2>1, InductiveSet
<1>4. ASSUME NEW k \in Nat, NEW g \in [0..k -> V], Starts(g, k),
             NEW l \in Nat, NEW h \in [0..l -> V], Starts(h, l)
      PROVE  \A n \in Nat : n <= k /\ n <= l => g[n] = h[n]
  <2> DEFINE E == {n \in Nat : n <= k /\ n <= l => g[n] = h[n]}
  <2>1. 0 \in E
    BY <1>4
  <2>2. ASSUME NEW n \in E
        PROVE  n + 1 \in E
    <3> SUFFICES ASSUME n + 1 <= k, n + 1 <= l PROVE g[n + 1] = h[n + 1]
      OBVIOUS
    <3>1. n \in 0..(k - 1) /\ n \in 0..(l - 1) /\ n <= k /\ n <= l
      OBVIOUS
    <3>2. g[n] = h[n]
      BY <3>1
    <3>3. g[n + 1] = G[<<n, g[n]>>] /\ h[n + 1] = G[<<n, h[n]>>]
      BY <1>4, <3>1
    <3> QED BY <3>2, <3>3
  <2>3. E \in SUBSET Nat
    OBVIOUS
  <2> HIDE DEF E
  <2>4. E = Nat
    BY <2>1, <2>2, <2>3, InductiveSet
  <2> QED BY <2>4 DEF E
<1> HIDE DEF Starts
<1> DEFINE C(k) == CHOOSE g \in [0..k -> V] : Starts(g, k)
           f == [n \in Nat |-> C(n)[n]]
<1>5. ASSUME NEW k \in Nat
      PROVE  C(k) \in [0..k -> V] /\ Starts(C(k), k)
  <2>1. k \in S
    BY <1>3
  <2>2. \E g \in [0..k -> V] : Starts(g, k)
    BY <2>1 DEF S
  <2> QED BY <2>2
<1> HIDE DEF C
<1>6. f \in [Nat -> V]
  BY <1>5
<1>7. f[0] = first
  BY <1>5 DEF Starts
<1>8. ASSUME NEW n \in Nat
      PROVE  f[n + 1] = G[<<n, f[n]>>]
  <2>1. n + 1 \in Nat /\ n \in 0..(n + 1 - 1) /\ n <= n + 1
    OBVIOUS
  <2>2. C(n + 1)[n + 1] = G[<<n, C(n + 1)[n]>>]
    BY <1>5, <2>1 DEF Starts
  <2>3. C(n + 1)[n] = C(n)[n]
    BY <1>4, <1>5, <2>1
  <2> QED BY <2>1, <2>2, <2>3
<1> QED BY <1>6, <1>7, <1>8 DEF IsSequenceOf

\* What the function of the powers computes.
LEMMA Powers ==
  /\ Pow2 \in [Nat -> Nat \ {0}]
  /\ Pow2[0] = 1
  /\ \A n \in Nat : Pow2[n + 1] = 2 * Pow2[n]
<1> DEFINE V == Nat \ {0}
           G == [p \in Nat \X V |-> 2 * p[2]]
<1>1. G \in [Nat \X V -> V] /\ 1 \in V
  OBVIOUS
<1>2. \A n \in Nat, v \in V : G[<<n, v>>] = 2 * v
  OBVIOUS
<1> HIDE DEF G, V
<1>3. PICK f \in [Nat -> V] : f[0] = 1 /\ \A n \in Nat : f[n + 1] = G[<<n, f[n]>>]
  <2>1. \E f : IsSequenceOf(f, V, 1, G)
    BY <1>1, Recursion DEF IsStep
  <2> QED BY <2>1 DEF IsSequenceOf
<1>4. f[0] = 1 /\ \A n \in Nat : f[n + 1] = 2 * f[n]
  BY <1>2, <1>3
<1>5. f = [n \in Nat |-> IF n = 0 THEN 1 ELSE 2 * f[n - 1]]
  <2>1. ASSUME NEW n \in Nat, n # 0
        PROVE  f[n] = 2 * f[n - 1]
    <3>1. n - 1 \in Nat /\ n - 1 + 1 = n
      BY <2>1
    <3> QED BY <1>4, <3>1
  <2> QED BY <1>3, <1>4, <2>1
<1>6. Pow2 = [n \in Nat |-> IF n = 0 THEN 1 ELSE 2 * Pow2[n - 1]]
  BY <1>5 DEF Pow2
<1>7. Pow2[0] = 1 /\ \A n \in Nat : Pow2[n + 1] = 2 * Pow2[n]
  BY <1>6
<1>8. \A n \in Nat : Pow2[n] \in V
  <2> DEFINE S == {n \in Nat : Pow2[n] \in V}
  <2>1. 0 \in S
    BY <1>1, <1>7
  <2>2. ASSUME NEW n \in S PROVE n + 1 \in S
    BY <1>7 DEF V
  <2>3. S \in SUBSET Nat
    OBVIOUS
  <2> HIDE DEF S
  <2>4. S = Nat
    BY <2>1, <2>2, <2>3, InductiveSet
  <2> QED BY <2>4 DEF S
<1> QED BY <1>6, <1>7, <1>8 DEF V

\* Exponents add up.
LEMMA PowerOfSum ==
  ASSUME NEW m \in Nat, NEW n \in Nat
  PROVE  Pow2[m + n] = Pow2[m] * Pow2[n]
<1> DEFINE S == {k \in Nat : Pow2[m + k] = Pow2[m] * Pow2[k]}
<1>1. 0 \in S
  BY Powers
<1>2. ASSUME NEW k \in S
      PROVE  k + 1 \in S
  <2>1. k \in Nat /\ m + k \in Nat /\ m + (k + 1) = (m + k) + 1
    OBVIOUS
  <2>2. Pow2[m + (k + 1)] = 2 * Pow2[m + k]
    BY <2>1, Powers
  <2>3. Pow2[k + 1] = 2 * Pow2[k] /\ Pow2[k] \in Nat /\ Pow2[m] \in Nat
    BY <2>1, Powers
  <2>4. 2 * (Pow2[m] * Pow2[k]) = Pow2[m] * (2 * Pow2[k])
    BY <2>3
  <2> QED BY <2>2, <2>3, <2>4
<1>3. S \in SUBSET Nat
  OBVIOUS
<1> HIDE DEF S
<1>4. S = Nat
  BY <1>1, <1>2, <1>3, InductiveSet
<1> QED BY <1>4 DEF S

\* Quotient and remainder, and that they are the only ones.
LEMMA Quotient ==
  ASSUME NEW x \in Int, NEW p \in Nat \ {0}
  PROVE  /\ x \div p \in Int /\ x % p \in 0..(p - 1) /\ x = (x \div p) * p + (x % p)
         /\ x >= 0 => x \div p >= 0
OBVIOUS

LEMMA QuotientOf ==
  ASSUME NEW p \in Nat \ {0}, NEW q \in Int, NEW r \in 0..(p - 1)
  PROVE  (q * p + r) \div p = q /\ (q * p + r) % p = r
OBVIOUS

\* The remainder by a product.
LEMMA RemainderOfProduct ==
  ASSUME NEW x \in Int, NEW p \in Nat \ {0}, NEW q \in Nat \ {0}
  PROVE  x % (p * q) = (x % p) + ((x \div p) % q) * p
<1> DEFINE a == x \div p
           b == x % p
           c == a \div q
           d == a % q
<1>1. a \in Int /\ b \in 0..(p - 1) /\ x = a * p + b
  BY Quotient
<1>2. c \in Int /\ d \in 0..(q - 1) /\ a = c * q + d
  BY <1>1, Quotient
<1> HIDE DEF a, b, c, d
<1>3. x = c * (p * q) + (d * p + b)
  <2>1. (c * q + d) * p = c * (p * q) + d * p
    BY <1>2
  <2> QED BY <1>1, <1>2, <2>1
<1>4. d * p + b \in 0..(p * q - 1)
  <2>1. d * p \in Nat /\ d * p + p <= q * p /\ q * p = p * q
    <3>1. (d + 1) * p <= q * p
      BY <1>2
    <3> QED BY <1>2, <3>1
  <2> QED BY <1>1, <2>1
<1>5. p * q \in Nat \ {0}
  OBVIOUS
<1>6. x % (p * q) = d * p + b
  <2> DEFINE r == d * p + b
             pq == p * q
  <2>1. r \in 0..(pq - 1) /\ pq \in Nat \ {0} /\ x = c * pq + r
    BY <1>3, <1>4, <1>5
  <2> HIDE DEF r, pq
  <2>2. x % pq = r
    BY <1>2, <2>1, QuotientOf
  <2> QED BY <2>2 DEF r, pq
<1> QED BY <1>1, <1>2, <1>6 DEF a, b, c, d

-----------------------------------------------------------------------------
(* Words and fields. *)

\* The values of a cell, and the memories.
Cell == 0..(Pow2[CellBits] - 1)
Memories == [0..(CellCount - 1) -> Cell]

\* Where a word may begin.
Addresses == 0..(CellCount - WordCells)

\* The sums that a word is computed by.
IsSumOf(low, m, a) ==
  /\ low \in [0..WordCells -> Int]
  /\ low[0] = 0
  /\ \A n \in 0..(WordCells - 1) : low[n + 1] = low[n] + m[a + n] * Pow2[CellBits * n]

\* Sizes are numbers, and so are powers.
LEMMA Sizes ==
  /\ WordCells \in Nat \ {0} /\ CellBits \in Nat \ {0} /\ CellCount \in Nat /\ WordCells <= CellCount
  /\ \A n \in Nat : Pow2[n] \in Nat \ {0} /\ CellBits * n \in Nat
  /\ WordLimit \in Nat \ {0}
<1>1. WordCells \in Nat \ {0} /\ CellBits \in Nat \ {0} /\ CellCount \in Nat /\ WordCells <= CellCount
  BY AccessAssumption
<1>2. \A n \in Nat : CellBits * n \in Nat
  BY <1>1
<1>3. WordCells * CellBits \in Nat
  BY <1>1
<1> QED BY <1>1, <1>2, <1>3, Powers DEF WordLimit

\* A word is the sum of its cells.
LEMMA WordIsSum ==
  ASSUME NEW m \in [0..(CellCount - 1) -> Int], NEW a \in Addresses
  PROVE  \E low : IsSumOf(low, m, a) /\ Word(m, a) = low[WordCells]
<1> DEFINE part(n) == IF n < WordCells THEN m[a + n] * Pow2[CellBits * n] ELSE 0
           G == [p \in Nat \X Int |-> p[2] + part(p[1])]
           Is(g) == g = [n \in 0..WordCells |->
                           IF n = 0 THEN 0
                           ELSE g[n - 1] + m[a + n - 1] * Pow2[CellBits * (n - 1)]]
<1>1. ASSUME NEW n \in Nat
      PROVE  part(n) \in Int
  <2> SUFFICES ASSUME n < WordCells PROVE m[a + n] * Pow2[CellBits * n] \in Int
    OBVIOUS
  <2>1. a + n \in 0..(CellCount - 1)
    BY Sizes DEF Addresses
  <2>2. m[a + n] \in Int /\ Pow2[CellBits * n] \in Int
    BY <2>1, Sizes
  <2> QED BY <2>2
<1> HIDE DEF part
<1>2. IsStep(G, Int) /\ \A n \in Nat, v \in Int : G[<<n, v>>] = v + part(n)
  BY <1>1 DEF IsStep
<1> HIDE DEF G
<1>3. PICK f : IsSequenceOf(f, Int, 0, G)
  <2> DEFINE V == Int
             first == 0
  <2>1. IsStep(G, V) /\ first \in V
    BY <1>2
  <2> HIDE DEF V, first
  <2>2. \E f : IsSequenceOf(f, V, first, G)
    BY <2>1, Recursion
  <2> QED BY <2>2 DEF V, first
<1>4. f \in [Nat -> Int] /\ f[0] = 0 /\ \A n \in Nat : f[n + 1] = f[n] + part(n)
  BY <1>2, <1>3 DEF IsSequenceOf
<1> DEFINE g == [n \in 0..WordCells |-> f[n]]
<1>5. Is(g)
  <2>1. ASSUME NEW n \in 0..WordCells, n # 0
        PROVE  g[n] = g[n - 1] + m[a + n - 1] * Pow2[CellBits * (n - 1)]
    <3>1. n - 1 \in Nat /\ n - 1 + 1 = n /\ n - 1 < WordCells /\ n - 1 \in 0..WordCells
          /\ a + (n - 1) = a + n - 1
      BY <2>1, Sizes DEF Addresses
    <3>2. f[n] = f[n - 1] + part(n - 1)
      BY <1>4, <3>1
    <3> QED BY <3>1, <3>2 DEF part
  <2>2. g[0] = 0 /\ 0 \in 0..WordCells
    BY <1>4, Sizes
  <2> HIDE DEF g
  <2>3. g = [n \in 0..WordCells |-> g[n]]
    BY DEF g
  <2> QED BY <2>1, <2>2, <2>3
<1> DEFINE low == CHOOSE h : Is(h)
<1>6. Is(low)
  BY <1>5
<1>7. Word(m, a) = low[WordCells]
  BY DEF Word
<1> HIDE DEF low
<1>8. low[0] = 0
  BY <1>6, Sizes
<1>9. ASSUME NEW n \in 0..(WordCells - 1)
      PROVE  low[n + 1] = low[n] + m[a + n] * Pow2[CellBits * n]
  <2>1. PICK k : k = n + 1
    OBVIOUS
  <2>2. k \in 0..WordCells /\ k # 0 /\ k - 1 = n /\ a + k - 1 = a + n
    BY <2>1, Sizes DEF Addresses
  <2>3. low[k] = low[k - 1] + m[a + k - 1] * Pow2[CellBits * (k - 1)]
    BY <1>6, <2>2
  <2> QED BY <2>1, <2>2, <2>3
<1>10. low \in [0..WordCells -> Int]
  <2> DEFINE S == {n \in Nat : n <= WordCells => low[n] \in Int}
  <2>1. 0 \in S
    BY <1>8
  <2>2. ASSUME NEW n \in S PROVE n + 1 \in S
    <3> SUFFICES ASSUME n + 1 <= WordCells PROVE low[n + 1] \in Int
      OBVIOUS
    <3>1. n \in 0..(WordCells - 1) /\ n < WordCells /\ low[n] \in Int
      BY Sizes
    <3>2. part(n) \in Int /\ part(n) = m[a + n] * Pow2[CellBits * n]
      BY <1>1, <3>1 DEF part
    <3> QED BY <1>9, <3>1, <3>2
  <2>3. S \in SUBSET Nat
    OBVIOUS
  <2> HIDE DEF S
  <2>4. S = Nat
    BY <2>1, <2>2, <2>3, InductiveSet
  <2>5. \A n \in 0..WordCells : low[n] \in Int
    BY <2>4, Sizes DEF S
  <2>6. DOMAIN low = 0..WordCells
    BY <1>6
  <2>7. low = [n \in 0..WordCells |-> low[n]]
    BY <1>6
  <2> QED BY <2>5, <2>7
<1> QED BY <1>7, <1>8, <1>9, <1>10 DEF IsSumOf

\* The power at a cell's place, times a cell, is that at the next.
LEMMA NextPower ==
  ASSUME NEW n \in Nat
  PROVE  Pow2[CellBits * (n + 1)] = Pow2[CellBits * n] * Pow2[CellBits]
<1>1. CellBits * (n + 1) = CellBits * n + CellBits /\ CellBits * n \in Nat /\ CellBits \in Nat
  BY Sizes
<1> QED BY <1>1, PowerOfSum

\* A word of cells fits in a word.
LEMMA WordFits ==
  ASSUME NEW m \in Memories, NEW a \in Addresses
  PROVE  Word(m, a) \in 0..(WordLimit - 1)
<1>1. m \in [0..(CellCount - 1) -> Int]
  BY Sizes DEF Memories, Cell
<1>2. PICK low : IsSumOf(low, m, a) /\ Word(m, a) = low[WordCells]
  BY <1>1, WordIsSum
<1> DEFINE S == {n \in Nat : n <= WordCells => low[n] \in 0..(Pow2[CellBits * n] - 1)}
<1>3. 0 \in S
  <2>1. CellBits * 0 = 0 /\ Pow2[0] = 1
    BY Sizes, Powers
  <2> QED BY <1>2, <2>1 DEF IsSumOf
<1>4. ASSUME NEW n \in S PROVE n + 1 \in S
  <2> SUFFICES ASSUME n + 1 <= WordCells PROVE low[n + 1] \in 0..(Pow2[CellBits * (n + 1)] - 1)
    OBVIOUS
  <2> DEFINE p == Pow2[CellBits * n]
             q == Pow2[CellBits]
             c == m[a + n]
  <2>1. n \in 0..(WordCells - 1) /\ a + n \in 0..(CellCount - 1) /\ low[n] \in 0..(p - 1)
    BY Sizes DEF Addresses
  <2>2. c \in 0..(q - 1) /\ p \in Nat \ {0} /\ q \in Nat \ {0}
    BY <2>1, Sizes DEF Memories, Cell
  <2>3. low[n + 1] = low[n] + c * p
    BY <1>2, <2>1 DEF IsSumOf
  <2>4. Pow2[CellBits * (n + 1)] = p * q
    BY NextPower
  <2> HIDE DEF p, q, c
  <2>5. c * p \in Nat /\ c * p + p <= p * q
    <3>1. (c + 1) * p <= q * p
      BY <2>2
    <3> QED BY <2>2, <3>1
  <2>6. p * q \in Nat
    BY <2>2
  <2> QED BY <2>1, <2>2, <2>3, <2>4, <2>5, <2>6
<1>5. S \in SUBSET Nat
  OBVIOUS
<1> HIDE DEF S
<1>6. S = Nat
  BY <1>3, <1>4, <1>5, InductiveSet
<1>7. low[WordCells] \in 0..(Pow2[CellBits * WordCells] - 1) /\ CellBits * WordCells = WordCells * CellBits
  BY <1>6, Sizes DEF S
<1> QED BY <1>2, <1>7 DEF WordLimit

\* What is stored in a memory are cells, and nothing changes but the word.
LEMMA StoresCells ==
  ASSUME NEW m \in Memories, NEW a \in Addresses, NEW v \in Int
  PROVE  /\ Stores(m, a, v) \in Memories
         /\ \A n \in 0..(WordCells - 1) :
              Stores(m, a, v)[a + n] = (v \div Pow2[CellBits * n]) % Pow2[CellBits]
         /\ \A x \in (DOMAIN m) \ (a..(a + WordCells - 1)) : Stores(m, a, v)[x] = m[x]
<1> DEFINE s == Stores(m, a, v)
<1>1. s = [x \in 0..(CellCount - 1) |->
             IF x \in a..(a + WordCells - 1)
             THEN (v \div Pow2[CellBits * (x - a)]) % Pow2[CellBits] ELSE m[x]]
  BY DEF Stores, Memories
<1>2. ASSUME NEW n \in Nat
      PROVE  (v \div Pow2[CellBits * n]) % Pow2[CellBits] \in Cell
  <2>1. Pow2[CellBits * n] \in Nat \ {0} /\ Pow2[CellBits] \in Nat \ {0}
    BY Sizes
  <2>2. v \div Pow2[CellBits * n] \in Int
    BY <2>1, Quotient
  <2> QED BY <2>1, <2>2, Quotient DEF Cell
<1> HIDE DEF s
<1>3. ASSUME NEW x \in 0..(CellCount - 1)
      PROVE  s[x] \in Cell
  <2>1. CASE x \in a..(a + WordCells - 1)
    <3>1. x - a \in Nat
      BY <2>1, Sizes DEF Addresses
    <3> QED BY <1>1, <1>2, <2>1, <3>1
  <2>2. CASE x \notin a..(a + WordCells - 1)
    BY <1>1, <2>2 DEF Memories
  <2> QED BY <2>1, <2>2
<1>4. s \in Memories
  BY <1>1, <1>3 DEF Memories
<1>5. ASSUME NEW n \in 0..(WordCells - 1)
      PROVE  s[a + n] = (v \div Pow2[CellBits * n]) % Pow2[CellBits]
  <2>1. PICK x : x = a + n
    OBVIOUS
  <2>2. x \in a..(a + WordCells - 1) /\ x - a = n /\ x \in 0..(CellCount - 1)
    BY <2>1, Sizes DEF Addresses
  <2>3. s[x] = (v \div Pow2[CellBits * (x - a)]) % Pow2[CellBits]
    BY <1>1, <2>2
  <2> QED BY <2>1, <2>2, <2>3
<1>6. \A x \in (DOMAIN m) \ (a..(a + WordCells - 1)) : s[x] = m[x]
  BY <1>1 DEF Memories
<1> QED BY <1>4, <1>5, <1>6 DEF s

\* The word that is stored is the word that is read.
LEMMA StoredIsRead ==
  ASSUME NEW m \in Memories, NEW a \in Addresses, NEW v \in 0..(WordLimit - 1)
  PROVE  Word(Stores(m, a, v), a) = v
<1> DEFINE s == Stores(m, a, v)
<1>1. v \in Int /\ WordLimit \in Nat \ {0}
  BY Sizes
<1>2. s \in [0..(CellCount - 1) -> Int]
  <2>1. s \in Memories
    BY <1>1, StoresCells
  <2>2. Cell \subseteq Int
    BY Sizes DEF Cell
  <2> HIDE DEF s
  <2> QED BY <2>1, <2>2 DEF Memories
<1>3. \A n \in 0..(WordCells - 1) : s[a + n] = (v \div Pow2[CellBits * n]) % Pow2[CellBits]
  BY <1>1, StoresCells
<1> HIDE DEF s
<1>4. PICK low : IsSumOf(low, s, a) /\ Word(s, a) = low[WordCells]
  BY <1>2, WordIsSum
<1> DEFINE S == {n \in Nat : n <= WordCells => low[n] = v % Pow2[CellBits * n]}
<1>5. 0 \in S
  <2>1. CellBits * 0 = 0 /\ Pow2[0] = 1 /\ v % 1 = 0
    BY <1>1, Sizes, Powers
  <2> QED BY <1>4, <2>1 DEF IsSumOf
<1>6. ASSUME NEW n \in S PROVE n + 1 \in S
  <2> SUFFICES ASSUME n + 1 <= WordCells PROVE low[n + 1] = v % Pow2[CellBits * (n + 1)]
    OBVIOUS
  <2> DEFINE p == Pow2[CellBits * n]
             q == Pow2[CellBits]
  <2>1. n \in 0..(WordCells - 1) /\ low[n] = v % p
    BY Sizes
  <2>2. p \in Nat \ {0} /\ q \in Nat \ {0}
    BY Sizes
  <2>3. low[n + 1] = low[n] + ((v \div p) % q) * p
    BY <1>3, <1>4, <2>1 DEF IsSumOf
  <2>4. Pow2[CellBits * (n + 1)] = p * q
    BY NextPower
  <2> HIDE DEF p, q
  <2> QED BY <1>1, <2>1, <2>2, <2>3, <2>4, RemainderOfProduct
<1>7. S \in SUBSET Nat
  OBVIOUS
<1> HIDE DEF S
<1>8. S = Nat
  BY <1>5, <1>6, <1>7, InductiveSet
<1>9. low[WordCells] = v % Pow2[CellBits * WordCells] /\ CellBits * WordCells = WordCells * CellBits
  BY <1>8, Sizes DEF S
<1>10. low[WordCells] = v % WordLimit
  BY <1>9 DEF WordLimit
<1>11. v % WordLimit = v
  <2> DEFINE w == WordLimit
  <2>1. w \in Nat \ {0} /\ v \in 0..(w - 1) /\ v = 0 * w + v
    BY <1>1
  <2> HIDE DEF w
  <2>2. v % w = v
    BY <2>1, QuotientOf
  <2> QED BY <2>2 DEF w
<1> QED BY <1>4, <1>10, <1>11 DEF s

\* Replacing a field: the field is the new value, cut to its width, and the rest stays.
LEMMA EncodeReplaces ==
  ASSUME NEW f \in [offset : Nat, width : Nat], NEW value \in Int, NEW current \in Nat
  PROVE  /\ Encode(f, value, current) \in Nat
         /\ Decode(f, Encode(f, value, current)) = value % Pow2[f.width]
         /\ Rest(f, Encode(f, value, current)) = Rest(f, current)
<1> DEFINE p == Pow2[f.offset]
           q == Pow2[f.width]
           a == current \div p
           b == current % p
           c == a \div q
           d == a % q
           e == value % q
           new == Encode(f, value, current)
<1>1. p \in Nat \ {0} /\ q \in Nat \ {0}
  BY Sizes
<1> HIDE DEF p, q
<1>2. a \in Nat /\ b \in 0..(p - 1) /\ current = a * p + b
  <2>1. current \in Int /\ current >= 0
    OBVIOUS
  <2>2. a \in Int /\ a >= 0 /\ b \in 0..(p - 1) /\ current = a * p + b
    BY <1>1, <2>1, Quotient
  <2> QED BY <2>2
<1> HIDE DEF a, b
<1>3. c \in Nat /\ d \in 0..(q - 1) /\ a = c * q + d
  <2>1. a \in Int /\ a >= 0
    BY <1>2
  <2>2. c \in Int /\ c >= 0 /\ d \in 0..(q - 1) /\ a = c * q + d
    BY <1>1, <2>1, Quotient
  <2> QED BY <2>2
<1>4. e \in 0..(q - 1)
  BY <1>1, Quotient
<1>5. Decode(f, current) = d /\ new = current - d * p + e * p /\ Rest(f, current) = current - d * p
  BY DEF Decode, Encode, Rest, p, q, a
<1>6. \A w : Decode(f, w) = (w \div p) % q /\ Rest(f, w) = w - Decode(f, w) * p
  BY DEF Decode, Rest, p, q
<1> HIDE DEF c, d, e, new
<1>7. c * q + e \in Nat
  BY <1>1, <1>3, <1>4
<1>8. new = (c * q + e) * p + b
  <2>1. (c * q + d) * p = (c * q) * p + d * p /\ (c * q + e) * p = (c * q) * p + e * p
        /\ (c * q) * p \in Int /\ d * p \in Int /\ e * p \in Int
    <3>1. c * q \in Int
      BY <1>1, <1>3
    <3> QED BY <1>1, <1>3, <1>4, <3>1
  <2> QED BY <1>2, <1>3, <1>5, <2>1
<1>9. new \in Nat /\ new \div p = c * q + e
  <2> DEFINE k == c * q + e
  <2>1. k \in Nat /\ new = k * p + b
    BY <1>7, <1>8
  <2> HIDE DEF k
  <2>2. new \in Nat /\ new \div p = k
    BY <1>1, <1>2, <2>1, QuotientOf
  <2> QED BY <2>2 DEF k
<1>10. (c * q + e) % q = e
  BY <1>1, <1>3, <1>4, QuotientOf
<1>11. Decode(f, new) = e
  BY <1>6, <1>9, <1>10
<1>12. Rest(f, new) = Rest(f, current)
  <2>1. d * p \in Int /\ e * p \in Int
    BY <1>1, <1>3, <1>4
  <2> QED BY <1>5, <1>6, <1>11, <2>1
<1> QED BY <1>9, <1>11, <1>12 DEF new, e, q

-----------------------------------------------------------------------------
(* Types: what the variables hold, the commands on their way included. *)

WordValues == 0..(WordLimit - 1)

Commands ==
  [client : Clients \cup {Nobody}, op : Calls, cmd : {"read", "write", "set", "file", "compare"},
   address : Addresses, value : WordValues, base : WordValues]

Replies == {Nothing, GdbError, TimedOut, Done} \cup {Answered(v) : v \in WordValues}

Types ==
  /\ mem \in Memories
  /\ running \in BOOLEAN
  /\ runs \in 0..MaxRuns
  /\ timeouts \in 0..MaxTimeouts
  /\ pipe \in Seq(Commands \cup {Interrupt})
  /\ reply \in [Clients -> Replies]
  /\ pc \in [Clients -> Phases]
  /\ op \in [Clients -> Calls \cup {NoCall}]
  /\ left \in [Clients -> SUBSET Registers]
  /\ stored \in [Clients -> BOOLEAN]
  /\ result \in [Clients -> Results]

\* A client that is not idle is in a call, and only flash_write names a file.
Open == \A c \in Clients : pc[c] # "idle" => op[c] \in Calls /\ (pc[c] = "file" => op[c].tool = "flash")

\* The value that a field write sends is made of the word that it has read.
IsComputed(q) == q.cmd = "write" /\ q.op.tool = "field" => q.value = Encode(q.op.field, q.op.value, q.base)
Computed == \A i \in DOMAIN pipe : IsComputed(pipe[i])

TInv == Types /\ Open /\ Computed

\* What the calls of each tool carry.
LEMMA CallsCarry ==
  ASSUME NEW o \in Calls
  PROVE  /\ o.tool \in {"field", "value", "memory", "core", "flash", "read", "read_all"}
         /\ o.tool = "field" => o.field \in [offset : Nat, width : Nat] /\ o.value \in Int
         /\ o.tool \in {"field", "value", "memory", "read"} => AddressOf(o) \in Addresses
         /\ o.tool = "flash" => o.image \in WordValues
<1>1. CASE o \in FieldWrites
  <2>1. PICK r \in Registers : o \in [tool : {"field"}, reg : {r}, field : Fields[r], value : Values]
    BY <1>1 DEF FieldWrites
  <2>2. o.tool = "field" /\ o.reg = r /\ o.field \in Fields[r] /\ o.value \in Values
    BY <2>1
  <2> QED BY <2>2, AccessAssumption DEF AddressOf, Addresses
<1>2. CASE o \in ValueWrites
  <2>1. o.tool = "value" /\ o.reg \in Registers
    BY <1>2 DEF ValueWrites
  <2> QED BY <2>1, AccessAssumption DEF AddressOf, Addresses
<1>3. CASE o \in MemoryWrites
  <2>1. o.tool = "memory" /\ o.address \in Addresses
    BY <1>3 DEF MemoryWrites, Addresses
  <2> QED BY <2>1 DEF AddressOf
<1>4. CASE o \in CoreWrites
  BY <1>4 DEF CoreWrites
<1>5. CASE o \in Flashes
  <2>1. o.tool = "flash" /\ o.image \in Images
    BY <1>5 DEF Flashes
  <2> QED BY <2>1, AccessAssumption DEF WordValues
<1>6. CASE o \in [tool : {"read"}, reg : Registers]
  <2>1. o.tool = "read" /\ o.reg \in Registers
    BY <1>6
  <2> QED BY <2>1, AccessAssumption DEF AddressOf, Addresses
<1>7. CASE o \in [tool : {"read_all"}]
  BY <1>7
<1> QED BY <1>1, <1>2, <1>3, <1>4, <1>5, <1>6, <1>7 DEF Calls, Reads

\* The commands in the pipe keep to what they are when nobody waits for one any more.
LEMMA Forgotten ==
  ASSUME NEW p \in Seq(Commands \cup {Interrupt}), \A k \in DOMAIN p : IsComputed(p[k]),
         NEW i \in DOMAIN p, p[i].client # Nobody
  PROVE  /\ p[i].client \in Clients
         /\ [p EXCEPT ![i].client = Nobody] \in Seq(Commands \cup {Interrupt})
         /\ Len([p EXCEPT ![i].client = Nobody]) = Len(p)
         /\ \A k \in DOMAIN p : IsComputed([p EXCEPT ![i].client = Nobody][k])
<1> DEFINE C == Commands \cup {Interrupt}
           new == [p[i] EXCEPT !.client = Nobody]
           q == [p EXCEPT ![i].client = Nobody]
<1>1. p[i] \in Commands
  BY DEF Interrupt
<1>2. new \in Commands /\ new.cmd = p[i].cmd /\ new.op = p[i].op /\ new.value = p[i].value
      /\ new.base = p[i].base /\ p[i].client \in Clients
  BY <1>1 DEF Commands
<1>3. q = [k \in DOMAIN p |-> IF k = i THEN new ELSE p[k]]
  OBVIOUS
<1> HIDE DEF new, q, C
<1>4. \A k \in DOMAIN p : q[k] = IF k = i THEN new ELSE p[k]
  BY <1>3
<1>5. \A k \in DOMAIN p : q[k] \in C
  <2>1. \A k \in DOMAIN p : p[k] \in C
    BY DEF C
  <2> QED BY <1>2, <1>4, <2>1 DEF C
<1>6. DOMAIN p = 1..Len(p) /\ Len(p) \in Nat
  OBVIOUS
<1>7. q \in Seq(C) /\ Len(q) = Len(p)
  BY <1>3, <1>5, <1>6
<1>8. \A k \in DOMAIN p : IsComputed(q[k])
  BY <1>2, <1>4 DEF IsComputed
<1> QED BY <1>2, <1>7, <1>8 DEF q, C

\* The smallest number of a set is in the set.
LEMMA MinOfSome ==
  ASSUME NEW S \in SUBSET Nat, S # {}
  PROVE  Min(S) \in S
<1> DEFINE L == {n \in Nat : \A k \in 0..n : k \notin S}
<1>1. \E x \in S : \A y \in S : x <= y
  <2> SUFFICES ASSUME \A x \in S : \E y \in S : y < x PROVE FALSE
    OBVIOUS
  <2>1. 0 \in L
    OBVIOUS
  <2>2. ASSUME NEW n \in L PROVE n + 1 \in L
    OBVIOUS
  <2>3. L \in SUBSET Nat
    OBVIOUS
  <2> HIDE DEF L
  <2>4. L = Nat
    BY <2>1, <2>2, <2>3, InductiveSet
  <2>5. \A n \in Nat : n \notin S
    BY <2>4 DEF L
  <2> QED BY <2>5
<1> QED BY <1>1 DEF Min

\* An answer goes to a client, and takes one command away.
LEMMA AnswerTypes ==
  ASSUME TInv, pipe # <<>>, NEW answer \in Replies, Answers(answer)
  PROVE  pipe' \in Seq(Commands \cup {Interrupt}) /\ Computed' /\ reply' \in [Clients -> Replies]
<1> DEFINE C == Commands \cup {Interrupt}
<1>1. pipe \in Seq(C) /\ Len(pipe) \in Nat \ {0} /\ DOMAIN pipe = 1..Len(pipe)
  BY DEF TInv, Types
<1>2. ASSUME NEW q \in Seq(C), Len(q) = Len(pipe), \A k \in DOMAIN pipe : IsComputed(q[k]),
             pipe' = Tail(q)
      PROVE  pipe' \in Seq(C) /\ Computed'
  <2> HIDE DEF C
  <2>1. pipe' \in Seq(C) /\ DOMAIN pipe' = 1..(Len(pipe) - 1) /\ \A k \in DOMAIN pipe' : pipe'[k] = q[k + 1]
    BY <1>1, <1>2
  <2>2. \A k \in DOMAIN pipe' : k + 1 \in DOMAIN pipe
    BY <1>1, <2>1
  <2>3. \A k \in DOMAIN pipe' : IsComputed(q[k + 1])
    BY <1>2, <2>2
  <2> QED BY <2>1, <2>3 DEF Computed, IsComputed
<1>3. CASE Waiting = {}
  <2>1. pipe' = Tail(pipe) /\ reply' = reply
    BY <1>3 DEF Answers
  <2> QED BY <1>1, <1>2, <2>1 DEF TInv, Computed, Types
<1>4. CASE Waiting # {}
  <2>1. PICK i : i = Min(Waiting)
    OBVIOUS
  <2>2. i \in DOMAIN pipe /\ pipe[i].client # Nobody
    <3>1. Waiting \subseteq Nat
      BY <1>1 DEF Waiting
    <3>2. i \in Waiting
      BY <1>4, <2>1, <3>1, MinOfSome
    <3> QED BY <3>2 DEF Waiting
  <2>3. pipe' = Tail([pipe EXCEPT ![i].client = Nobody]) /\ reply' = [reply EXCEPT ![pipe[i].client] = answer]
    BY <1>4, <2>1 DEF Answers
  <2>4. /\ pipe[i].client \in Clients
        /\ [pipe EXCEPT ![i].client = Nobody] \in Seq(C)
        /\ Len([pipe EXCEPT ![i].client = Nobody]) = Len(pipe)
        /\ \A k \in DOMAIN pipe : IsComputed([pipe EXCEPT ![i].client = Nobody][k])
    BY <1>1, <2>2, Forgotten DEF TInv, Computed
  <2>5. pipe' \in Seq(C) /\ Computed'
    BY <1>2, <2>3, <2>4
  <2> QED BY <2>3, <2>4, <2>5 DEF TInv, Types
<1> QED BY <1>3, <1>4

\* No step of a call touches the target or times out.
TargetStays == UNCHANGED <<mem, running, runs, timeouts>>

\* A client that is not in a call, or that has its answer, sends a command.
LEMMA SentTypes ==
  ASSUME TInv, TargetStays, NEW c \in Clients, NEW phase \in Phases,
         NEW cmd \in {"read", "write", "set", "file", "compare"},
         NEW a \in Addresses, NEW v \in WordValues,
         Sent(c, phase, cmd, a, v),
         op' \in [Clients -> Calls \cup {NoCall}], op'[c] \in Calls,
         \A d \in Clients \ {c} : op'[d] = op[d],
         phase = "file" => op'[c].tool = "flash",
         cmd = "write" /\ op'[c].tool = "field" => v = Encode(op'[c].field, op'[c].value, Base(c)),
         left' \in [Clients -> SUBSET Registers], stored' \in [Clients -> BOOLEAN],
         result' \in [Clients -> Results]
  PROVE  TInv'
<1> DEFINE C == Commands \cup {Interrupt}
<1>1. PICK o : o = op'[c]
  OBVIOUS
<1>2. Base(c) \in WordValues
  <2>1. reply[c] \in Replies
    BY DEF TInv, Types
  <2>2. 0 \in WordValues
    BY Sizes DEF WordValues
  <2> QED BY <2>1, <2>2 DEF Base, HasWord, Replies, Nothing, GdbError, TimedOut, Done, Answered
<1>3. PICK q : q = [client |-> c, op |-> o, cmd |-> cmd, address |-> a, value |-> v, base |-> Base(c)]
  OBVIOUS
<1>4. pipe' = Append(pipe, q) /\ pc' = [pc EXCEPT ![c] = phase] /\ reply' = [reply EXCEPT ![c] = Nothing]
  BY <1>1, <1>3 DEF Sent
<1>5. q \in C
  BY <1>1, <1>2, <1>3 DEF Commands
<1>6. IsComputed(q)
  BY <1>1, <1>3 DEF IsComputed
<1>7. pipe \in Seq(C) /\ Computed
  BY DEF TInv, Types
<1>8. pipe' \in Seq(C) /\ Computed'
  <2> HIDE DEF C
  <2>1. pipe' \in Seq(C)
    BY <1>4, <1>5, <1>7
  <2>2. \A k \in DOMAIN pipe' : pipe'[k] = q \/ (k \in DOMAIN pipe /\ pipe'[k] = pipe[k])
    BY <1>4, <1>5, <1>7
  <2>3. \A k \in DOMAIN pipe' : IsComputed(pipe'[k])
    BY <1>6, <1>7, <2>2 DEF Computed
  <2> QED BY <2>1, <2>3 DEF Computed, IsComputed
<1>9. Types'
  <2>1. reply' \in [Clients -> Replies]
    BY <1>4 DEF TInv, Types, Replies
  <2>2. pc' \in [Clients -> Phases]
    BY <1>4 DEF TInv, Types
  <2> QED BY <1>8, <2>1, <2>2 DEF TInv, Types, TargetStays, Memories, Cell
<1>10. Open'
  <2>1. pc'[c] = phase /\ \A d \in Clients \ {c} : pc'[d] = pc[d]
    BY <1>4 DEF TInv, Types
  <2> QED BY <2>1 DEF TInv, Open
<1> QED BY <1>8, <1>9, <1>10 DEF TInv

\* A call ends.
LEMMA EndsTypes ==
  ASSUME TInv, TargetStays, NEW c \in Clients, NEW r \in Results, Ends(c, r)
  PROVE  TInv'
<1>1. /\ pc' = [pc EXCEPT ![c] = "idle"] /\ op' = [op EXCEPT ![c] = NoCall]
      /\ left' = [left EXCEPT ![c] = {}] /\ reply' = [reply EXCEPT ![c] = Nothing]
      /\ result' = [result EXCEPT ![c] = r] /\ stored' = [stored EXCEPT ![c] = FALSE]
      /\ pipe' = pipe
  BY DEF Ends
<1>2. "idle" \in Phases /\ Nothing \in Replies
  BY DEF Phases, Replies
<1>3. Types'
  <2>1. stored' \in [Clients -> BOOLEAN]
    BY <1>1 DEF TInv, Types
  <2>2. left' \in [Clients -> SUBSET Registers] /\ result' \in [Clients -> Results]
        /\ pc' \in [Clients -> Phases] /\ op' \in [Clients -> Calls \cup {NoCall}]
    BY <1>1, <1>2 DEF TInv, Types
  <2>3. reply' \in [Clients -> Replies]
    BY <1>1, <1>2 DEF TInv, Types
  <2> QED BY <1>1, <2>1, <2>2, <2>3 DEF TInv, Types, TargetStays
<1>4. Open'
  <2>1. \A d \in Clients : pc'[d] = "idle" \/ (pc'[d] = pc[d] /\ op'[d] = op[d])
    BY <1>1 DEF TInv, Types
  <2> QED BY <2>1 DEF TInv, Open
<1>5. Computed'
  BY <1>1 DEF TInv, Computed, IsComputed
<1> QED BY <1>3, <1>4, <1>5 DEF TInv

\* A step of peripheral_read_all that sends nothing.
LEMMA NextTypes ==
  ASSUME TInv, TargetStays, NEW c \in Clients, UNCHANGED <<pipe, stored>>,
         pc' = [pc EXCEPT ![c] = "next"], op' \in [Clients -> Calls \cup {NoCall}], op'[c] \in Calls,
         \A d \in Clients \ {c} : op'[d] = op[d],
         reply' \in [Clients -> Replies], left' \in [Clients -> SUBSET Registers],
         result' \in [Clients -> Results]
  PROVE  TInv'
<1>1. Types'
  <2>1. "next" \in Phases
    BY DEF Phases
  <2>2. pc' \in [Clients -> Phases]
    BY <2>1 DEF TInv, Types
  <2> QED BY <2>2 DEF TInv, Types, TargetStays
<1>2. Open'
  <2>1. pc'[c] = "next" /\ \A d \in Clients \ {c} : pc'[d] = pc[d]
    BY DEF TInv, Types
  <2> QED BY <2>1 DEF TInv, Open
<1>3. Computed'
  BY DEF TInv, Computed, IsComputed
<1> QED BY <1>1, <1>2, <1>3 DEF TInv

\* A call that begins.
LEMMA CallTypes ==
  ASSUME TInv, NEW c \in Clients, Call(c)
  PROVE  TInv'
<1>1. ASSUME NEW r \in {"warned", "error"}, Ends(c, r), TargetStays
      PROVE  TInv'
  BY <1>1, EndsTypes DEF Results
<1>2. CASE Warned(c)
  BY <1>1, <1>2 DEF Warned, TargetStays
<1>3. ASSUME NEW o \in Calls, Refused(c, o)
      PROVE  TInv'
  BY <1>1, <1>3 DEF Refused, TargetStays
<1>4. "none" \in Results /\ {"read", "write", "file"} \subseteq Phases /\ 0 \in WordValues /\ 0 \in Addresses
  BY Sizes DEF Results, Phases, WordValues, Addresses
<1>5. ASSUME NEW o \in Calls, Begin(c, o)
      PROVE  TInv'
  <2>1. TargetStays /\ op' = [op EXCEPT ![c] = o] /\ left' = left /\ stored' = stored
        /\ result' = [result EXCEPT ![c] = "none"]
    BY <1>5 DEF Begin, TargetStays
  <2>2. /\ left' \in [Clients -> SUBSET Registers] /\ result' \in [Clients -> Results]
        /\ op' \in [Clients -> Calls \cup {NoCall}] /\ op'[c] = o
        /\ \A d \in Clients \ {c} : op'[d] = op[d]
    BY <1>4, <2>1 DEF TInv, Types
  <2>3. stored' \in [Clients -> BOOLEAN]
    BY <2>1 DEF TInv, Types
  <2>4. CASE o.tool \in {"value", "memory"} /\ Packs(o.value) /\ Sends(c, "write", "write", AddressOf(o), o.value)
    <3>1. AddressOf(o) \in Addresses /\ o.value \in WordValues
      BY <2>4, CallsCarry DEF Packs, WordValues
    <3>2. Sent(c, "write", "write", AddressOf(o), o.value) /\ op'[c].tool # "field" /\ op'[c] \in Calls
      BY <2>2, <2>4 DEF Sends
    <3> QED BY <1>4, <2>1, <2>2, <2>3, <3>1, <3>2, SentTypes
  <2>5. CASE o.tool \in {"field", "read"} /\ Sends(c, "read", "read", AddressOf(o), 0)
    <3>1. AddressOf(o) \in Addresses
      BY <2>5, CallsCarry
    <3>2. Sent(c, "read", "read", AddressOf(o), 0) /\ op'[c] \in Calls
      BY <2>2, <2>5 DEF Sends
    <3> QED BY <1>4, <2>1, <2>2, <2>3, <3>1, <3>2, SentTypes
  <2>6. CASE Sent(c, "write", "set", 0, 0)
    <3>1. op'[c] \in Calls
      BY <2>2
    <3> QED BY <1>4, <2>1, <2>2, <2>3, <2>6, <3>1, SentTypes
  <2>7. CASE o.tool = "flash" /\ Sent(c, "file", "file", 0, 0)
    <3>1. op'[c] \in Calls /\ op'[c].tool = "flash"
      BY <2>2, <2>7
    <3> QED BY <1>4, <2>1, <2>2, <2>3, <2>7, <3>1, SentTypes
  <2> QED BY <1>5, <2>4, <2>5, <2>6, <2>7 DEF Begin
<1>6. ASSUME NEW o \in Calls, BeginAll(c, o)
      PROVE  TInv'
  <2>1. /\ TargetStays /\ UNCHANGED <<pipe, stored, reply>> /\ pc' = [pc EXCEPT ![c] = "next"]
        /\ op' = [op EXCEPT ![c] = o] /\ left' = [left EXCEPT ![c] = Registers]
        /\ result' = [result EXCEPT ![c] = "none"]
    BY <1>6 DEF BeginAll, TargetStays, linkVars
  <2>2. /\ left' \in [Clients -> SUBSET Registers] /\ result' \in [Clients -> Results]
        /\ op' \in [Clients -> Calls \cup {NoCall}] /\ op'[c] \in Calls
        /\ \A d \in Clients \ {c} : op'[d] = op[d]
        /\ reply' \in [Clients -> Replies]
    BY <1>4, <2>1 DEF TInv, Types
  <2> QED BY <2>1, <2>2, NextTypes
<1> QED BY <1>2, <1>3, <1>5, <1>6 DEF Call

\* A call that goes on with the answer that it waited for.
LEMMA ContinueTypes ==
  ASSUME TInv, NEW c \in Clients, Continue(c)
  PROVE  TInv'
<1> DEFINE Kept == UNCHANGED <<op, stored, result>>
<1>1. ASSUME NEW r \in Results, Ends(c, r), TargetStays
      PROVE  TInv'
  BY <1>1, EndsTypes
<1>2. {"warned", "written", "verified", "read", "error"} \subseteq Results
      /\ {"read", "write", "readback", "file", "compare"} \subseteq Phases
      /\ 0 \in WordValues /\ 0 \in Addresses
  BY Sizes DEF Results, Phases, WordValues, Addresses
<1>3. /\ reply[c] \in Replies /\ op \in [Clients -> Calls \cup {NoCall}]
      /\ left \in [Clients -> SUBSET Registers] /\ result \in [Clients -> Results]
      /\ pc[c] # "idle" => op[c] \in Calls
  BY DEF TInv, Types, Open
<1>4. stored \in [Clients -> BOOLEAN]
  BY DEF TInv, Types
<1>5. ASSUME NEW phase \in {"read", "write", "readback", "compare"},
             NEW cmd \in {"read", "write", "set", "file", "compare"},
             NEW a \in Addresses, NEW v \in WordValues, Sent(c, phase, cmd, a, v),
             cmd = "write" /\ op[c].tool = "field" => v = Encode(op[c].field, op[c].value, Base(c)),
             TargetStays, Kept, left' \in [Clients -> SUBSET Registers], pc[c] # "idle"
      PROVE  TInv'
  <2>1. phase \in Phases /\ phase # "file"
    BY <1>2, <1>5
  <2>2. op' \in [Clients -> Calls \cup {NoCall}] /\ op'[c] \in Calls /\ op' = op
        /\ \A d \in Clients \ {c} : op'[d] = op[d]
    BY <1>3, <1>5
  <2>3. stored' \in [Clients -> BOOLEAN] /\ result' \in [Clients -> Results]
    BY <1>3, <1>4, <1>5
  <2>4. cmd = "write" /\ op'[c].tool = "field" => v = Encode(op'[c].field, op'[c].value, Base(c))
    BY <1>5, <2>2
  <2> QED BY <1>5, <2>1, <2>2, <2>3, <2>4, SentTypes
<1>6. CASE ReadNext(c)
  <2>1. TargetStays /\ pc[c] # "idle"
    BY <1>6 DEF ReadNext, TargetStays
  <2>2. CASE Ends(c, "read")
    BY <1>1, <1>2, <2>1, <2>2
  <2>3. ASSUME NEW r \in left[c], left' = [left EXCEPT ![c] = @ \ {r}], Kept,
               UNCHANGED <<pc, pipe, reply>>
        PROVE  TInv'
    <3>1. left' \in [Clients -> SUBSET Registers]
      BY <1>3, <2>3
    <3> QED BY <2>1, <2>3, <3>1 DEF TInv, Types, Open, Computed, IsComputed, TargetStays
  <2>4. ASSUME NEW r \in left[c], left' = [left EXCEPT ![c] = @ \ {r}], Kept,
               Sends(c, "read", "read", Layout[r].address, 0)
        PROVE  TInv'
    <3>1. left' \in [Clients -> SUBSET Registers] /\ r \in Registers
      BY <1>3, <2>4
    <3>2. Layout[r].address \in Addresses /\ Sent(c, "read", "read", Layout[r].address, 0)
      BY <2>4, <3>1, AccessAssumption DEF Addresses, Sends
    <3> QED BY <1>2, <1>5, <2>1, <2>4, <3>1, <3>2
  <2> QED BY <1>6, <2>2, <2>3, <2>4 DEF ReadNext
<1>7. CASE ReadReturned(c)
  <2>1. TargetStays /\ pc[c] # "idle" /\ op[c] \in Calls
    BY <1>3, <1>7 DEF ReadReturned, TargetStays
  <2>2. CASE Ends(c, "error") \/ Ends(c, "read")
    BY <1>1, <1>2, <2>1, <2>2
  <2>3. CASE pc' = [pc EXCEPT ![c] = "next"] /\ reply' = [reply EXCEPT ![c] = Nothing]
             /\ UNCHANGED <<pipe, op, left, stored, result>>
    <3>1. reply' \in [Clients -> Replies]
      BY <2>3 DEF TInv, Types, Replies
    <3> QED BY <1>3, <2>1, <2>3, <3>1, NextTypes
  <2>4. CASE /\ HasWord(reply[c]) /\ op[c].tool = "field" /\ Packs(NewValue(c))
             /\ UNCHANGED <<op, left, stored, result>>
             /\ Sends(c, "write", "write", AddressOf(op[c]), NewValue(c))
    <3>1. AddressOf(op[c]) \in Addresses /\ NewValue(c) \in WordValues
      BY <2>1, <2>4, CallsCarry DEF Packs, WordValues
    <3>2. Sent(c, "write", "write", AddressOf(op[c]), NewValue(c))
      BY <2>4 DEF Sends
    <3>3. NewValue(c) = Encode(op[c].field, op[c].value, Base(c))
      BY <2>4 DEF NewValue, Base
    <3> QED BY <1>3, <1>5, <2>1, <2>4, <3>1, <3>2, <3>3
  <2> QED BY <1>7, <2>2, <2>3, <2>4 DEF ReadReturned
<1>8. CASE WriteReturned(c)
  <2>1. TargetStays /\ pc[c] # "idle" /\ op[c] \in Calls
    BY <1>3, <1>8 DEF WriteReturned, TargetStays
  <2>2. CASE Ends(c, "error") \/ Ends(c, "written")
    BY <1>1, <1>2, <2>1, <2>2
  <2>3. CASE /\ op[c].tool \in {"field", "value"} /\ UNCHANGED <<op, left, stored, result>>
             /\ Sends(c, "readback", "read", AddressOf(op[c]), 0)
    <3>1. AddressOf(op[c]) \in Addresses /\ Sent(c, "readback", "read", AddressOf(op[c]), 0)
      BY <2>1, <2>3, CallsCarry DEF Sends
    <3> QED BY <1>2, <1>3, <1>5, <2>1, <2>3, <3>1
  <2>4. CASE UNCHANGED <<op, left, stored, result>> /\ Sent(c, "compare", "compare", 0, 0)
    BY <1>2, <1>3, <1>5, <2>1, <2>4
  <2> QED BY <1>8, <2>2, <2>3, <2>4 DEF WriteReturned
<1>9. CASE ReadbackReturned(c)
  BY <1>1, <1>2, <1>9 DEF ReadbackReturned, TargetStays
<1>10. CASE FileReturned(c)
  <2>1. TargetStays /\ pc[c] = "file" /\ op[c] \in Calls /\ op[c].tool = "flash"
    BY <1>3, <1>10 DEF FileReturned, TargetStays, TInv, Open
  <2>2. CASE Ends(c, "error")
    BY <1>1, <1>2, <2>1, <2>2
  <2>3. CASE UNCHANGED <<op, left, stored, result>> /\ Sent(c, "write", "write", 0, op[c].image)
    <3>1. op[c].image \in WordValues /\ op[c].tool # "field"
      BY <2>1, CallsCarry
    <3> QED BY <1>2, <1>3, <1>5, <2>1, <2>3, <3>1
  <2> QED BY <1>10, <2>2, <2>3 DEF FileReturned
<1>11. CASE CompareReturned(c)
  BY <1>1, <1>2, <1>11 DEF CompareReturned, TargetStays
<1> QED BY <1>6, <1>7, <1>8, <1>9, <1>10, <1>11 DEF Continue

\* A command that times out stays in the pipe, with an interrupt behind it.
LEMMA GivesUpTypes ==
  ASSUME TInv, NEW c \in Clients, GivesUp(c)
  PROVE  TInv'
<1> DEFINE C == Commands \cup {Interrupt}
<1>1. PICK i \in Waiting :
        /\ timeouts < MaxTimeouts /\ timeouts' = timeouts + 1
        /\ pipe' = Append([pipe EXCEPT ![i].client = Nobody], Interrupt)
        /\ reply' = [reply EXCEPT ![c] = TimedOut]
  BY DEF GivesUp, TimesOut
<1>2. PICK q : q = [pipe EXCEPT ![i].client = Nobody]
  OBVIOUS
<1>3. pipe \in Seq(C) /\ i \in DOMAIN pipe /\ pipe[i].client # Nobody
      /\ \A k \in DOMAIN pipe : IsComputed(pipe[k])
  BY DEF TInv, Types, Waiting, Computed
<1>4. q \in Seq(C) /\ Len(q) = Len(pipe) /\ \A k \in DOMAIN pipe : IsComputed(q[k])
  BY <1>2, <1>3, Forgotten
<1>5. IsComputed(Interrupt) /\ Interrupt \in C
  BY DEF IsComputed, Interrupt
<1>6. pipe' \in Seq(C) /\ \A k \in DOMAIN pipe' : pipe'[k] = Interrupt \/ (k \in DOMAIN pipe /\ pipe'[k] = q[k])
  <2>1. pipe' = Append(q, Interrupt) /\ DOMAIN pipe = 1..Len(pipe) /\ Len(pipe) \in Nat
    BY <1>1, <1>2, <1>3
  <2>2. PICK last : last = Interrupt
    OBVIOUS
  <2>3. q \in Seq(C) /\ last \in C /\ pipe' = Append(q, last) /\ Len(q) = Len(pipe)
    BY <1>4, <1>5, <2>1, <2>2
  <2> HIDE DEF C
  <2>4. pipe' \in Seq(C) /\ \A k \in DOMAIN pipe' : pipe'[k] = last \/ (k \in DOMAIN pipe /\ pipe'[k] = q[k])
    BY <2>1, <2>3
  <2> QED BY <2>2, <2>4
<1>7. Computed'
  <2>1. \A k \in DOMAIN pipe' : IsComputed(pipe'[k])
    BY <1>4, <1>5, <1>6
  <2> QED BY <2>1 DEF Computed, IsComputed
<1>8. Types'
  <2>1. reply' \in [Clients -> Replies]
    BY <1>1 DEF TInv, Types, Replies
  <2>2. timeouts' \in 0..MaxTimeouts
    BY <1>1, LinkAssumption DEF TInv, Types
  <2> QED BY <1>6, <2>1, <2>2 DEF TInv, Types, GivesUp
<1>9. Open'
  BY DEF TInv, Open, GivesUp
<1> QED BY <1>7, <1>8, <1>9 DEF TInv

\* GDB executes a command.
LEMMA ExecutesTypes ==
  ASSUME TInv, Executes
  PROVE  TInv'
<1> DEFINE q == Head(pipe)
<1>1. pipe # <<>> /\ UNCHANGED <<running, runs, timeouts, pc, op, left, result>>
  BY DEF Executes
<1>2. q \in Commands \cup {Interrupt}
  BY <1>1 DEF TInv, Types
<1>3. PICK answer \in {GdbError, Done, Answered(Word(mem, q.address))} :
        /\ Answers(answer)
        /\ answer = Answered(Word(mem, q.address)) => q.cmd = "read" \/ answer \in {GdbError, Done}
        /\ \/ UNCHANGED <<mem, stored>>
           \/ /\ q.cmd \in {"write", "set"}
              /\ mem' = IF q.cmd = "write" THEN Stores(mem, q.address, q.value) ELSE mem
              /\ stored' = [c \in Clients |-> stored[c] \/ c = q.client]
  BY DEF Executes
<1>4. q.cmd \in {"read", "write"} => q.address \in Addresses /\ q.value \in Int
  <2>1. CASE q \in Commands
    BY <2>1, Sizes DEF Commands, WordValues
  <2>2. CASE q = Interrupt
    BY <2>2 DEF Interrupt
  <2> QED BY <1>2, <2>1, <2>2
<1>5. mem \in Memories
  BY DEF TInv, Types
<1> HIDE DEF q
<1>6. answer \in Replies
  <2>1. q.cmd = "read" => Word(mem, q.address) \in WordValues
    BY <1>4, <1>5, WordFits DEF WordValues
  <2> QED BY <1>3, <2>1 DEF Replies
<1>7. pipe' \in Seq(Commands \cup {Interrupt}) /\ Computed' /\ reply' \in [Clients -> Replies]
  BY <1>1, <1>3, <1>6, AnswerTypes
<1>8. mem' \in Memories
  BY <1>3, <1>4, <1>5, StoresCells DEF Memories, Cell
<1>9. stored' \in [Clients -> BOOLEAN]
  BY <1>3 DEF TInv, Types
<1>10. Types'
  BY <1>1, <1>7, <1>8, <1>9 DEF TInv, Types
<1>11. Open'
  BY <1>1 DEF TInv, Open
<1> QED BY <1>7, <1>10, <1>11 DEF TInv

\* The target runs and stops.
LEMMA TargetTypes ==
  ASSUME TInv, Resumes \/ Halts \/ UNCHANGED vars
  PROVE  TInv'
<1>1. UNCHANGED <<linkVars, pc, op, left, stored, result>>
  BY DEF Resumes, Halts, vars
<1>2. mem' \in Memories
  <2>1. CASE mem' = mem
    BY <2>1 DEF TInv, Types, Memories, Cell
  <2>2. ASSUME NEW x \in DOMAIN mem, NEW v \in 0..(Pow2[CellBits] - 1), mem' = [mem EXCEPT ![x] = v]
        PROVE  mem' \in Memories
    BY <2>2 DEF TInv, Types, Memories, Cell
  <2> QED BY <2>1, <2>2 DEF Resumes, Halts, vars
<1>3. running' \in BOOLEAN
  BY DEF Resumes, Halts, vars, TInv, Types
<1>4. runs' \in 0..MaxRuns
  BY AccessAssumption DEF Resumes, Halts, vars, TInv, Types
<1> QED BY <1>1, <1>2, <1>3, <1>4 DEF TInv, Types, Open, Computed, IsComputed, linkVars

\* The types hold initially.
LEMMA InitTypes == Init => TInv
<1> SUFFICES ASSUME Init PROVE TInv
  OBVIOUS
<1>1. "idle" \in Phases /\ "none" \in Results /\ Nothing \in Replies
  BY DEF Phases, Results, Replies
<1>2. pipe \in Seq(Commands \cup {Interrupt}) /\ DOMAIN pipe = {}
  BY DEF Init, LinkInit
<1>3. timeouts \in 0..MaxTimeouts /\ runs \in 0..MaxRuns
  BY LinkAssumption, AccessAssumption DEF Init, LinkInit
<1>4. Types
  BY <1>1, <1>2, <1>3 DEF Init, LinkInit, Types, Memories, Cell
<1> QED BY <1>2, <1>4 DEF TInv, Open, Computed, Init

LEMMA StepTypes == TInv /\ [Next]_vars => TInv'
BY CallTypes, ContinueTypes, GivesUpTypes, ExecutesTypes, TargetTypes DEF Next

\* The types that the invariant gives are those of the model.
LEMMA TypesGiveTypeOK == TInv => TypeOK
<1> SUFFICES ASSUME TInv PROVE TypeOK
  OBVIOUS
<1>1. ASSUME NEW i \in DOMAIN pipe, pipe[i] # Interrupt
      PROVE  pipe[i] \in Commands
  BY <1>1 DEF TInv, Types
<1>2. ASSUME NEW c \in Clients, HasWord(reply[c])
      PROVE  reply[c].value \in 0..(WordLimit - 1)
  <2>1. reply[c] \in Replies
    BY DEF TInv, Types
  <2> QED BY <1>2, <2>1 DEF HasWord, Replies, Nothing, GdbError, TimedOut, Done, Answered, WordValues
<1>3. \A i \in DOMAIN pipe : pipe[i] # Interrupt =>
          /\ pipe[i].client \in Clients \cup {Nobody}
          /\ pipe[i].cmd \in {"read", "write", "set", "file", "compare"}
          /\ pipe[i].address \in 0..(CellCount - WordCells)
          /\ {pipe[i].value, pipe[i].base} \subseteq 0..(WordLimit - 1)
  BY <1>1 DEF Commands, Addresses, WordValues
<1> QED BY <1>2, <1>3 DEF TInv, Types, TypeOK, Memories, Cell

\* A write that GDB executes for a field write changes the field and nothing else.
LEMMA FieldIsWritten ==
  ASSUME TInv, Next, mem' # mem, ~running, Head(pipe).op.tool = "field",
         Head(pipe).base = Word(mem, Head(pipe).address),
         NEW q, q = Head(pipe), NEW f, f = q.op.field
  PROVE  /\ Rest(f, Word(mem', q.address)) = Rest(f, Word(mem, q.address))
         /\ Decode(f, Word(mem', q.address)) = q.op.value % Pow2[f.width]
         /\ \A x \in DOMAIN mem \ (q.address..(q.address + WordCells - 1)) : mem'[x] = mem[x]
<1>1. Executes
  BY DEF Next, Call, Continue, Warned, Refused, Begin, BeginAll, ReadNext, ReadReturned,
     WriteReturned, ReadbackReturned, FileReturned, CompareReturned, GivesUp, Resumes, Halts
<1>2. pipe # <<>> /\ q.cmd = "write" /\ mem' = Stores(mem, q.address, q.value)
  BY <1>1 DEF Executes
<1>3. q \in Commands /\ IsComputed(q)
  <2>1. pipe[1] = q /\ 1 \in DOMAIN pipe
    BY <1>2 DEF TInv, Types
  <2>2. q \in Commands \cup {Interrupt}
    BY <2>1 DEF TInv, Types
  <2>3. q # Interrupt
    BY <1>2 DEF Interrupt
  <2> QED BY <2>1, <2>2, <2>3 DEF TInv, Computed
<1>4. q.value = Encode(f, q.op.value, q.base)
  BY <1>2, <1>3 DEF IsComputed
<1>5. q.op \in Calls /\ q.address \in Addresses /\ q.value \in WordValues
  BY <1>3 DEF Commands
<1>6. f \in [offset : Nat, width : Nat] /\ q.op.value \in Int
  BY <1>5, CallsCarry
<1>7. mem \in Memories
  BY DEF TInv, Types
<1>8. q.value \in Int
  BY <1>5, Sizes DEF WordValues
<1>9. Word(mem, q.address) \in Nat
  BY <1>5, <1>7, WordFits, Sizes
<1>10. Word(mem', q.address) = q.value
  BY <1>2, <1>5, <1>7, StoredIsRead DEF WordValues
<1>11. \A x \in DOMAIN mem \ (q.address..(q.address + WordCells - 1)) : mem'[x] = mem[x]
  BY <1>2, <1>5, <1>7, <1>8, StoresCells
<1>12. /\ Decode(f, Encode(f, q.op.value, Word(mem, q.address))) = q.op.value % Pow2[f.width]
       /\ Rest(f, Encode(f, q.op.value, Word(mem, q.address))) = Rest(f, Word(mem, q.address))
  BY <1>6, <1>9, EncodeReplaces
<1> QED BY <1>4, <1>10, <1>11, <1>12

\* Every variable keeps to its values, for words of any number of cells, cells of any number of
\* bits, and fields of any offset and width: a read gives a word, and no value that is none is
\* ever on its way to GDB, neither a caller's nor what a field write makes of the word it read.
THEOREM TypeCorrect == Spec => []TypeOK
<1>1. Init => TInv
  BY InitTypes
<1>2. TInv /\ [Next]_vars => TInv'
  BY StepTypes
<1>3. TInv => TypeOK
  BY TypesGiveTypeOK
<1> QED BY <1>1, <1>2, <1>3, PTL DEF Spec

\* A field write of peripheral_write changes its field and no other bit of the register, and no
\* other cell of the target, for fields of any offset and width, if the register still holds
\* what the tool has read; the value is cut to the field.
THEOREM OnlyTheFieldChanges == Spec => FieldOnly
<1>1. Init => TInv
  BY InitTypes
<1>2. TInv /\ [Next]_vars => TInv'
  BY StepTypes
<1>3. TInv /\ [Next]_vars =>
        [mem' # mem /\ ~running /\ Head(pipe).op.tool = "field"
         /\ Head(pipe).base = Word(mem, Head(pipe).address) =>
           LET q == Head(pipe)
               f == q.op.field
           IN  /\ Rest(f, Word(mem', q.address)) = Rest(f, Word(mem, q.address))
               /\ Decode(f, Word(mem', q.address)) = q.op.value % Pow2[f.width]
               /\ \A x \in DOMAIN mem \ (q.address..(q.address + WordCells - 1)) :
                      mem'[x] = mem[x]]_vars
  BY FieldIsWritten
<1> QED BY <1>1, <1>2, <1>3, PTL DEF Spec, FieldOnly

-----------------------------------------------------------------------------
(* Which answer is whose, while no command has timed out. *)

\* The variables are functions of the clients, and the pipe is a sequence.
Shape ==
  /\ \E S : pipe \in Seq(S)
  /\ timeouts \in Nat
  /\ pc \in [Clients -> Phases]
  /\ reply = [c \in Clients |-> reply[c]]
  /\ stored \in [Clients -> BOOLEAN]
  /\ result \in [Clients -> Results]

\* A client has one command on its way at most, and no answer meanwhile; a client that
\* waits for its write to be done has a write on its way.
InTurn ==
  /\ \A i \in DOMAIN pipe :
       /\ pipe[i].client \in Clients
       /\ reply[pipe[i].client] = Nothing
       /\ pc[pipe[i].client] \notin {"idle", "next"}
       /\ pc[pipe[i].client] = "write" => pipe[i].cmd \in {"write", "set"}
  /\ \A i, j \in DOMAIN pipe : i # j => pipe[i].client # pipe[j].client

\* A client that was told that its write is done, or is past it, had it done.
DoneIsStored ==
  /\ \A c \in Clients : pc[c] = "write" /\ Ok(reply[c]) => stored[c]
  /\ \A c \in Clients : pc[c] \in {"readback", "compare"} => stored[c]

IInv == Shape /\ (timeouts = 0 => InTurn /\ DoneIsStored)

-----------------------------------------------------------------------------

\* The smallest number of 1..n is 1.
LEMMA MinOfInterval ==
  ASSUME NEW n \in Nat, n > 0
  PROVE  Min(1..n) = 1
BY SMT DEF Min

\* What an answer changes while every command in the pipe is waited for: the oldest
\* command goes, and its client has the answer.
LEMMA AnswerInTurn ==
  ASSUME Shape, InTurn, pipe # <<>>, NEW answer, Answers(answer)
  PROVE  /\ Head(pipe).client \in Clients
         /\ reply' = [reply EXCEPT ![Head(pipe).client] = answer]
         /\ DOMAIN pipe' = 1..(Len(pipe) - 1)
         /\ \A i \in DOMAIN pipe' : i + 1 \in DOMAIN pipe /\ pipe'[i] = pipe[i + 1]
         /\ DOMAIN pipe = 1..Len(pipe) /\ Head(pipe) = pipe[1] /\ 1 \in DOMAIN pipe
<1>1. PICK S : pipe \in Seq(S)
  BY DEF Shape
<1>2. Len(pipe) \in Nat /\ Len(pipe) > 0 /\ DOMAIN pipe = 1..Len(pipe) /\ Head(pipe) = pipe[1]
  BY <1>1
<1>3. Waiting = 1..Len(pipe)
  BY <1>2, LinkAssumption DEF Waiting, InTurn, Nobody
<1>4. Min(Waiting) = 1 /\ Waiting # {}
  BY <1>2, <1>3, MinOfInterval
<1>5. /\ pipe' = Tail([pipe EXCEPT ![1].client = Nobody])
      /\ reply' = [reply EXCEPT ![pipe[1].client] = answer]
  BY <1>4 DEF Answers
<1>6. PICK T : [pipe EXCEPT ![1].client = Nobody] \in Seq(T)
  <2>1. [pipe EXCEPT ![1].client = Nobody] \in Seq(S \cup {[pipe[1] EXCEPT !.client = Nobody]})
    BY <1>1, <1>2
  <2> QED BY <2>1
<1>7. Len([pipe EXCEPT ![1].client = Nobody]) = Len(pipe)
  BY <1>1, <1>2, <1>6
<1>8. /\ DOMAIN pipe' = 1..(Len(pipe) - 1)
      /\ \A i \in DOMAIN pipe' : pipe'[i] = [pipe EXCEPT ![1].client = Nobody][i + 1]
  BY <1>2, <1>5, <1>6, <1>7
<1>9. ASSUME NEW k \in DOMAIN pipe, k # 1
      PROVE  [pipe EXCEPT ![1].client = Nobody][k] = pipe[k]
  BY <1>9
<1>10. ASSUME NEW i \in DOMAIN pipe'
       PROVE  i + 1 \in DOMAIN pipe /\ pipe'[i] = pipe[i + 1]
  <2>1. i \in 1..(Len(pipe) - 1) /\ i + 1 \in DOMAIN pipe /\ i + 1 # 1
    BY <1>2, <1>8
  <2> QED BY <1>8, <1>9, <2>1
<1>11. pipe[1].client \in Clients
  BY <1>2 DEF InTurn
<1>12. Head(pipe).client \in Clients /\ 1 \in DOMAIN pipe
  BY <1>2, <1>11
<1>13. reply' = [reply EXCEPT ![Head(pipe).client] = answer]
  BY <1>2, <1>5
<1>14. \A i \in DOMAIN pipe' : i + 1 \in DOMAIN pipe /\ pipe'[i] = pipe[i + 1]
  BY <1>10
<1> QED
  BY ONLY <1>2, <1>8, <1>12, <1>13, <1>14

\* Whatever was timed out, an answer leaves a sequence of commands and one answer per client.
LEMMA AnswerShape ==
  ASSUME Shape, pipe # <<>>, NEW answer, Answers(answer)
  PROVE  (\E S : pipe' \in Seq(S)) /\ reply' = [c \in Clients |-> reply'[c]]
<1>1. PICK S : pipe \in Seq(S)
  BY DEF Shape
<1>2. CASE Waiting = {}
  <2>1. pipe' \in Seq(S)
    BY <1>1, <1>2 DEF Answers
  <2> QED BY <1>2, <2>1 DEF Answers, Shape
<1>3. CASE Waiting # {}
  <2> DEFINE m == Min(Waiting)
             new == [pipe[m] EXCEPT !.client = Nobody]
             q == [pipe EXCEPT ![m].client = Nobody]
  <2>1. q \in Seq(S \cup {new})
    <3> HIDE DEF m
    <3>1. q = [i \in DOMAIN pipe |-> IF i = m THEN new ELSE pipe[i]]
      OBVIOUS
    <3> HIDE DEF q, new
    <3>2. \A i \in 1..Len(pipe) : q[i] \in S \cup {new}
      BY <1>1, <3>1
    <3>3. q \in [1..Len(pipe) -> S \cup {new}]
      BY <1>1, <3>1, <3>2
    <3> QED BY <1>1, <3>3
  <2>2. Len(q) = Len(pipe) /\ pipe' = Tail(q)
    BY <1>1, <1>3, <2>1 DEF Answers
  <2>3. pipe' \in Seq(S \cup {new})
    <3> HIDE DEF q, new
    <3> QED BY <1>1, <2>1, <2>2
  <2>4. reply' = [reply EXCEPT ![pipe[Min(Waiting)].client] = answer]
    BY <1>3 DEF Answers
  <2> QED BY <2>3, <2>4 DEF Shape
<1> QED BY <1>2, <1>3

\* A command that is sent by a client that waits for nothing keeps the invariant.
LEMMA SentKeeps ==
  ASSUME IInv, NEW c \in Clients, NEW cmd, NEW a, NEW v,
         NEW phase \in {"read", "write", "readback", "file", "compare"},
         Sent(c, phase, cmd, a, v),
         timeouts = 0 => pc[c] \in {"idle", "next"} \/ reply[c] # Nothing,
         phase = "write" => cmd \in {"write", "set"},
         timeouts = 0 /\ phase \in {"readback", "compare"} => stored[c],
         UNCHANGED <<stored, timeouts>>, result' \in [Clients -> Results]
  PROVE  IInv'
<1>1. PICK S : pipe \in Seq(S)
  BY DEF IInv, Shape
<1>2. PICK q : /\ pipe' = Append(pipe, q) /\ q.client = c /\ q.cmd = cmd
  BY DEF Sent
<1>3. /\ pipe' \in Seq(S \cup {q})
      /\ DOMAIN pipe = 1..Len(pipe) /\ DOMAIN pipe' = 1..(Len(pipe) + 1)
      /\ pipe'[Len(pipe) + 1] = q /\ \A i \in DOMAIN pipe : pipe'[i] = pipe[i]
      /\ Len(pipe) \in Nat
  BY <1>1, <1>2
<1>4. /\ pc' = [pc EXCEPT ![c] = phase] /\ pc'[c] = phase
      /\ reply' = [reply EXCEPT ![c] = Nothing] /\ reply'[c] = Nothing
      /\ \A d \in Clients \ {c} : pc'[d] = pc[d] /\ reply'[d] = reply[d]
  BY DEF Sent, IInv, Shape
<1>5. Shape'
  <2>1. phase \in Phases
    BY DEF Phases
  <2> QED BY <1>3, <1>4, <2>1 DEF IInv, Shape
<1>6. ASSUME timeouts' = 0
      PROVE  InTurn' /\ DoneIsStored'
  <2>1. timeouts = 0 /\ InTurn /\ DoneIsStored
    BY <1>6 DEF IInv
  <2>2. \A i \in DOMAIN pipe : pipe[i].client \in Clients \ {c}
    BY <2>1 DEF InTurn
  <2>3. \A i \in DOMAIN pipe' : i \in DOMAIN pipe \/ i = Len(pipe) + 1
    BY <1>3
  <2>4. Len(pipe) + 1 \notin DOMAIN pipe
    BY <1>3
  <2>5. InTurn'
    BY <1>2, <1>3, <1>4, <2>1, <2>2, <2>3, <2>4 DEF InTurn
  <2>6. ~Ok(Nothing)
    BY DEF Ok, Nothing
  <2> QED BY <1>4, <2>1, <2>5, <2>6 DEF DoneIsStored
<1> QED BY <1>5, <1>6 DEF IInv

\* So does the end of a call that waits for nothing.
LEMMA EndsKeeps ==
  ASSUME IInv, NEW c \in Clients, NEW r \in Results, Ends(c, r),
         timeouts = 0 => pc[c] \in {"idle", "next"} \/ reply[c] # Nothing,
         UNCHANGED timeouts
  PROVE  IInv'
<1>1. /\ pc' = [pc EXCEPT ![c] = "idle"] /\ pc'[c] = "idle"
      /\ reply' = [reply EXCEPT ![c] = Nothing] /\ reply'[c] = Nothing
      /\ stored' = [stored EXCEPT ![c] = FALSE]
      /\ result' = [result EXCEPT ![c] = r]
      /\ \A d \in Clients \ {c} : pc'[d] = pc[d] /\ reply'[d] = reply[d] /\ stored'[d] = stored[d]
      /\ pipe' = pipe
  BY DEF Ends, IInv, Shape
<1>2. Shape'
  <2>1. "idle" \in Phases
    BY DEF Phases
  <2> QED BY <1>1, <2>1 DEF IInv, Shape
<1>3. ASSUME timeouts' = 0
      PROVE  InTurn' /\ DoneIsStored'
  <2>1. timeouts = 0 /\ InTurn /\ DoneIsStored
    BY <1>3 DEF IInv
  <2>2. \A i \in DOMAIN pipe : pipe[i].client \in Clients \ {c}
    BY <2>1 DEF InTurn
  <2>3. InTurn'
    BY <1>1, <2>1, <2>2 DEF InTurn
  <2> QED BY <1>1, <2>1, <2>3 DEF DoneIsStored
<1> QED BY <1>2, <1>3 DEF IInv

\* So does a step of peripheral_read_all from one register to the next.
LEMMA NextKeeps ==
  ASSUME IInv, NEW c \in Clients, pc' = [pc EXCEPT ![c] = "next"],
         reply' = reply \/ reply' = [reply EXCEPT ![c] = Nothing],
         timeouts = 0 => pc[c] \in {"idle", "next"} \/ reply[c] # Nothing,
         UNCHANGED <<pipe, stored, timeouts>>, result' \in [Clients -> Results]
  PROVE  IInv'
<1>1. /\ pc'[c] = "next"
      /\ \A d \in Clients \ {c} : pc'[d] = pc[d] /\ reply'[d] = reply[d]
  BY DEF IInv, Shape
<1>2. Shape'
  <2>1. "next" \in Phases
    BY DEF Phases
  <2> QED BY <1>1, <2>1 DEF IInv, Shape
<1>3. ASSUME timeouts' = 0
      PROVE  InTurn' /\ DoneIsStored'
  <2>1. timeouts = 0 /\ InTurn /\ DoneIsStored
    BY <1>3 DEF IInv
  <2>2. \A i \in DOMAIN pipe : pipe[i].client \in Clients \ {c}
    BY <2>1 DEF InTurn
  <2>3. InTurn'
    BY <1>1, <2>1, <2>2 DEF InTurn
  <2> QED BY <1>1, <2>1, <2>3 DEF DoneIsStored
<1> QED BY <1>2, <1>3 DEF IInv

\* A step that concerns the target only keeps the invariant.
LEMMA TargetKeeps ==
  ASSUME IInv, UNCHANGED <<linkVars, pc, stored, result>>
  PROVE  IInv'
BY DEF IInv, Shape, InTurn, DoneIsStored, linkVars, Ok, Nothing

\* The invariant holds initially: nothing has been called.
LEMMA InitIInv == Init => IInv
<1> SUFFICES ASSUME Init PROVE IInv
  OBVIOUS
<1>1. pipe \in Seq({}) /\ DOMAIN pipe = {}
  BY DEF Init, LinkInit
<1>2. "idle" \in Phases /\ "none" \in Results
  BY DEF Phases, Results
<1>3. Shape
  BY <1>1, <1>2 DEF Init, LinkInit, Shape
<1>4. InTurn /\ DoneIsStored
  BY <1>1 DEF Init, LinkInit, InTurn, DoneIsStored
<1> QED BY <1>3, <1>4 DEF IInv

-----------------------------------------------------------------------------
(* Each action keeps the invariant. *)

\* A call that begins.
LEMMA CallKeeps ==
  ASSUME IInv, NEW c \in Clients, Call(c)
  PROVE  IInv'
<1>1. CASE Warned(c)
  BY <1>1, EndsKeeps DEF Warned, Results
<1>2. ASSUME NEW o \in Calls, Refused(c, o)
      PROVE  IInv'
  BY <1>2, EndsKeeps DEF Refused, Results
<1>3. ASSUME NEW o \in Calls, Begin(c, o)
      PROVE  IInv'
  <2>1. pc[c] = "idle" /\ UNCHANGED <<stored, timeouts>>
    BY <1>3 DEF Begin
  <2>2. result' \in [Clients -> Results]
    BY <1>3 DEF Begin, IInv, Shape, Results
  <2>3. CASE Sends(c, "write", "write", AddressOf(o), o.value)
    BY <2>1, <2>2, <2>3, SentKeeps DEF Sends
  <2>4. CASE Sends(c, "read", "read", AddressOf(o), 0)
    BY <2>1, <2>2, <2>4, SentKeeps DEF Sends
  <2>5. CASE Sent(c, "write", "set", 0, 0)
    BY <2>1, <2>2, <2>5, SentKeeps
  <2>6. CASE Sent(c, "file", "file", 0, 0)
    BY <2>1, <2>2, <2>6, SentKeeps
  <2> QED BY <1>3, <2>3, <2>4, <2>5, <2>6 DEF Begin
<1>4. ASSUME NEW o \in Calls, BeginAll(c, o)
      PROVE  IInv'
  <2>1. result' \in [Clients -> Results]
    BY <1>4 DEF BeginAll, IInv, Shape, Results
  <2> QED BY <1>4, <2>1, NextKeeps DEF BeginAll, linkVars
<1> QED BY <1>1, <1>2, <1>3, <1>4 DEF Call

\* A call that goes on with the answer that it waited for.
LEMMA ContinueKeeps ==
  ASSUME IInv, NEW c \in Clients, Continue(c)
  PROVE  IInv'
<1>1. result \in [Clients -> Results] /\ {"read", "error", "written", "verified"} \subseteq Results
  BY DEF IInv, Shape, Results
<1>2. CASE ReadNext(c)
  <2>1. CASE Ends(c, "read")
    BY <1>1, <1>2, <2>1, EndsKeeps DEF ReadNext
  <2>2. ASSUME NEW r, Sends(c, "read", "read", Layout[r].address, 0), UNCHANGED <<stored, result>>
        PROVE  IInv'
    BY <1>1, <1>2, <2>2, SentKeeps DEF ReadNext, Sends
  <2>3. CASE UNCHANGED <<pc, pipe, reply, stored, result>>
    BY <1>2, <2>3, TargetKeeps DEF ReadNext, linkVars
  <2> QED BY <1>2, <2>1, <2>2, <2>3 DEF ReadNext
<1>3. CASE ReadReturned(c)
  <2>1. CASE Ends(c, "error")
    BY <1>1, <1>3, <2>1, EndsKeeps DEF ReadReturned
  <2>2. CASE Ends(c, "read")
    BY <1>1, <1>3, <2>2, EndsKeeps DEF ReadReturned
  <2>3. CASE /\ pc' = [pc EXCEPT ![c] = "next"] /\ reply' = [reply EXCEPT ![c] = Nothing]
             /\ UNCHANGED <<pipe, stored, result>>
    BY <1>1, <1>3, <2>3, NextKeeps DEF ReadReturned
  <2>4. ASSUME NEW a, NEW v, Sends(c, "write", "write", a, v), UNCHANGED <<stored, result>>
        PROVE  IInv'
    BY <1>1, <1>3, <2>4, SentKeeps DEF ReadReturned, Sends
  <2> QED BY <1>3, <2>1, <2>2, <2>3, <2>4 DEF ReadReturned
<1>4. CASE WriteReturned(c)
  <2>1. CASE Ends(c, "error")
    BY <1>1, <1>4, <2>1, EndsKeeps DEF WriteReturned
  <2>2. CASE Ends(c, "written")
    BY <1>1, <1>4, <2>2, EndsKeeps DEF WriteReturned
  <2>3. ASSUME Ok(reply[c]), timeouts = 0
        PROVE  stored[c]
    BY <1>4, <2>3 DEF WriteReturned, IInv, DoneIsStored
  <2>4. ASSUME NEW a, Sends(c, "readback", "read", a, 0), Ok(reply[c]), UNCHANGED <<stored, result>>
        PROVE  IInv'
    BY <1>1, <1>4, <2>3, <2>4, SentKeeps DEF WriteReturned, Sends
  <2>5. ASSUME Sent(c, "compare", "compare", 0, 0), Ok(reply[c]), UNCHANGED <<stored, result>>
        PROVE  IInv'
    BY <1>1, <1>4, <2>3, <2>5, SentKeeps DEF WriteReturned
  <2> QED BY <1>4, <2>1, <2>2, <2>4, <2>5 DEF WriteReturned
<1>5. CASE ReadbackReturned(c)
  BY <1>1, <1>5, EndsKeeps DEF ReadbackReturned
<1>6. CASE FileReturned(c)
  <2>1. CASE Ends(c, "error")
    BY <1>1, <1>6, <2>1, EndsKeeps DEF FileReturned
  <2>2. CASE Sent(c, "write", "write", 0, op[c].image) /\ UNCHANGED <<stored, result>>
    BY <1>1, <1>6, <2>2, SentKeeps DEF FileReturned
  <2> QED BY <1>6, <2>1, <2>2 DEF FileReturned
<1>7. CASE CompareReturned(c)
  BY <1>1, <1>7, EndsKeeps DEF CompareReturned
<1> QED BY <1>2, <1>3, <1>4, <1>5, <1>6, <1>7 DEF Continue

\* After a timeout nothing is promised but the shape.
LEMMA GivesUpKeeps ==
  ASSUME IInv, NEW c \in Clients, GivesUp(c)
  PROVE  IInv'
<1>1. PICK i \in Waiting :
        /\ timeouts' = timeouts + 1
        /\ pipe' = Append([pipe EXCEPT ![i].client = Nobody], Interrupt)
        /\ reply' = [reply EXCEPT ![c] = TimedOut]
  BY DEF GivesUp, TimesOut
<1>2. PICK S : pipe \in Seq(S)
  BY DEF IInv, Shape
<1>3. [pipe EXCEPT ![i].client = Nobody] \in Seq(S \cup {[pipe[i] EXCEPT !.client = Nobody]})
  <2>1. i \in DOMAIN pipe
    BY DEF Waiting
  <2> QED BY <1>2, <2>1
<1>4. pipe' \in Seq(S \cup {[pipe[i] EXCEPT !.client = Nobody]} \cup {Interrupt})
  <2> DEFINE q == [pipe EXCEPT ![i].client = Nobody]
             T == S \cup {[pipe[i] EXCEPT !.client = Nobody]}
  <2>1. q \in Seq(T) /\ pipe' = Append(q, Interrupt)
    BY <1>1, <1>3
  <2> HIDE DEF q, T
  <2>2. pipe' \in Seq(T \cup {Interrupt})
    BY <2>1
  <2> QED BY <2>2 DEF T
<1>5. timeouts' # 0 /\ timeouts' \in Nat
  BY <1>1 DEF IInv, Shape
<1> QED BY <1>1, <1>4, <1>5 DEF GivesUp, IInv, Shape

\* GDB executes a command: in turn, what it answers goes to the client that sent it.
LEMMA ExecutesKeeps ==
  ASSUME IInv, Executes
  PROVE  IInv'
<1> DEFINE q == Head(pipe)
<1>1. PICK answer :
        /\ Answers(answer)
        /\ \/ answer = GdbError /\ stored' = stored
           \/ q.cmd = "read" /\ stored' = stored
           \/ /\ q.cmd \in {"write", "set"}
              /\ stored' = [c \in Clients |-> stored[c] \/ c = q.client]
           \/ q.cmd \in {"file", "interrupt", "compare"} /\ stored' = stored
  BY DEF Executes
<1>2. pipe # <<>> /\ UNCHANGED <<timeouts, pc, result>>
  BY DEF Executes
<1>3. stored' \in [Clients -> BOOLEAN] /\ \A c \in Clients : stored[c] => stored'[c]
  BY <1>1 DEF IInv, Shape
<1>4. Shape'
  BY <1>1, <1>2, <1>3, AnswerShape DEF IInv, Shape
<1>5. ASSUME timeouts' = 0
      PROVE  InTurn' /\ DoneIsStored'
  <2>1. Shape /\ InTurn /\ DoneIsStored
    BY <1>2, <1>5 DEF IInv
  <2>2. /\ q.client \in Clients
        /\ reply' = [reply EXCEPT ![q.client] = answer]
        /\ DOMAIN pipe' = 1..(Len(pipe) - 1)
        /\ \A i \in DOMAIN pipe' : i + 1 \in DOMAIN pipe /\ pipe'[i] = pipe[i + 1]
        /\ DOMAIN pipe = 1..Len(pipe) /\ q = pipe[1] /\ 1 \in DOMAIN pipe
    BY <1>1, <1>2, <2>1, AnswerInTurn
  <2>3. \A i \in DOMAIN pipe' : i + 1 # 1 /\ i \in Int
    BY <2>2
  <2>4. \A d \in Clients \ {q.client} : reply'[d] = reply[d]
    BY <2>1, <2>2 DEF Shape
  <2>5. reply'[q.client] = answer
    BY <2>1, <2>2 DEF Shape
  <2>6. \A i \in DOMAIN pipe' : pipe'[i].client \in Clients \ {q.client}
    BY <2>1, <2>2, <2>3 DEF InTurn
  <2>7. \A i, j \in DOMAIN pipe' : i # j => pipe'[i].client # pipe'[j].client
    <3>1. \A i, j \in DOMAIN pipe' : i # j => i + 1 # j + 1
      BY <2>3
    <3> QED BY <2>1, <2>2, <3>1 DEF InTurn
  <2>8. InTurn'
    BY <1>2, <2>1, <2>2, <2>4, <2>6, <2>7 DEF InTurn
  <2>9. pc[q.client] = "write" /\ Ok(answer) => stored'[q.client]
    <3>1. ~Ok(GdbError)
      BY DEF Ok, GdbError
    <3>2. pc[q.client] = "write" => q.cmd \in {"write", "set"}
      BY <2>1, <2>2 DEF InTurn
    <3> QED BY <1>1, <2>2, <3>1, <3>2
  <2>10. DoneIsStored'
    BY <1>2, <1>3, <2>1, <2>4, <2>5, <2>9 DEF DoneIsStored
  <2> QED BY <2>8, <2>10
<1> QED BY <1>4, <1>5 DEF IInv

\* The invariant is inductive.
LEMMA StepIInv == IInv /\ [Next]_vars => IInv'
<1> SUFFICES ASSUME IInv, [Next]_vars PROVE IInv'
  OBVIOUS
<1>1. CASE UNCHANGED vars
  BY <1>1, TargetKeeps DEF vars
<1>2. CASE Resumes
  BY <1>2, TargetKeeps DEF Resumes
<1>3. CASE Halts
  BY <1>3, TargetKeeps DEF Halts
<1> QED
  BY <1>1, <1>2, <1>3, CallKeeps, ContinueKeeps, GivesUpKeeps, ExecutesKeeps DEF Next

-----------------------------------------------------------------------------
(* What a report says. *)

\* A call ends as written or verified only after GDB has executed its write.
LEMMA ReportedIsStored ==
  ASSUME IInv, Next, NEW c \in Clients,
         pc[c] # "idle", pc'[c] = "idle", result'[c] \in {"written", "verified"}
  PROVE  stored[c] \/ timeouts > 0
<1> SUFFICES ASSUME timeouts = 0 PROVE stored[c]
  BY DEF IInv, Shape
<1>1. DoneIsStored
  BY DEF IInv
<1>2. pc \in [Clients -> Phases] /\ result \in [Clients -> Results]
  BY DEF IInv, Shape
<1>3. ASSUME NEW d \in Clients, NEW r, Ends(d, r)
      PROVE  d = c /\ r \in {"written", "verified"}
  BY <1>2, <1>3 DEF Ends
<1>4. ASSUME NEW d \in Clients, NEW phase, NEW cmd, NEW a, NEW v, Sent(d, phase, cmd, a, v),
             phase # "idle"
      PROVE  FALSE
  BY <1>2, <1>4 DEF Sent
<1>5. ASSUME NEW d \in Clients, pc' = [pc EXCEPT ![d] = "next"]
      PROVE  FALSE
  BY <1>2, <1>5
<1>6. ASSUME NEW d \in Clients, Call(d)
      PROVE  FALSE
  BY <1>3, <1>4, <1>5, <1>6 DEF Call, Warned, Refused, Begin, BeginAll, Sends
<1>7. ASSUME NEW d \in Clients, Continue(d)
      PROVE  stored[c]
  <2>1. CASE WriteReturned(d)
    <3>1. d = c /\ pc[d] = "write" /\ Ok(reply[d])
      BY <1>3, <1>4, <2>1 DEF WriteReturned, Sends
    <3> QED BY <1>1, <3>1 DEF DoneIsStored
  <2>2. CASE ReadbackReturned(d) \/ CompareReturned(d)
    <3>1. d = c /\ pc[d] \in {"readback", "compare"}
      BY <1>3, <2>2 DEF ReadbackReturned, CompareReturned
    <3> QED BY <1>1, <3>1 DEF DoneIsStored
  <2>3. ~ReadNext(d) /\ ~ReadReturned(d) /\ ~FileReturned(d)
    BY <1>3, <1>4, <1>5 DEF ReadNext, ReadReturned, FileReturned, Sends
  <2> QED BY <1>7, <2>1, <2>2, <2>3 DEF Continue
<1>8. pc' # pc
  OBVIOUS
<1> QED
  BY <1>6, <1>7, <1>8 DEF Next, GivesUp, Executes, Resumes, Halts

\* peripheral_write, memory_write, register_write and flash_write report a write only if GDB
\* has executed it during the call, whatever other clients do and whenever the target runs,
\* as long as no command has timed out.
THEOREM WritesAreStored == Spec => WrittenMeansStored
<1>1. Init => IInv
  BY InitIInv
<1>2. IInv /\ [Next]_vars => IInv'
  BY StepIInv
<1>3. IInv /\ [Next]_vars =>
        [\A c \in Clients :
           pc[c] # "idle" /\ pc'[c] = "idle" /\ result'[c] \in {"written", "verified"} =>
             stored[c] \/ timeouts > 0]_vars
  BY ReportedIsStored
<1> QED BY <1>1, <1>2, <1>3, PTL DEF Spec, WrittenMeansStored

=============================================================================
