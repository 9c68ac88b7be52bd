------------------------- MODULE HeaderRangeProofs -------------------------
(***************************************************************************)
(* What a header range proof means, for every tree of map and reduce jobs, *)
(* every finalized chain and whatever headers the map jobs are given, when *)
(* its justification carries the votes of the authority set.               *)
(*                                                                         *)
(* The inductive invariant IInv says of every job that is done that it saw *)
(* a chain of headers: as many as there are blocks up to the target in the *)
(* range that the job covers, one per block number, with the Merkle roots  *)
(* of that range.  A map job sees one because of the links it asserts, a   *)
(* reduce job joins two of them.  The proof has three parts before that:   *)
(* powers of two, the root of a tree from the roots of its halves, and     *)
(* that the recursive definitions have solutions.                          *)
(***************************************************************************)
EXTENDS HeaderRange, WellFoundedInduction, TLAPS

\* Every non-empty set of natural numbers has a least element.
LEMMA LeastNumber ==
    ASSUME NEW S, S \subseteq Nat, S # {}
    PROVE  \E m \in S : \A x \in S : m <= x
PROOF
<1> DEFINE less == OpToRel(<, Nat)
<1>1. IsWellFoundedOn(less, Nat)
  BY NatLessThanWellFounded
<1>2. PICK m \in S : \A y \in Nat : <<y, m>> \in less => ~ (y \in S)
  BY <1>1, WFMin
<1>3. ASSUME NEW x \in S, x < m PROVE FALSE
  <2>1. <<x, m>> \in less
    BY <1>3 DEF OpToRel
  <2> QED BY <1>2, <2>1
<1> QED BY <1>3

\* A set of natural numbers that has 0 and the successors of its elements up
\* to n has all numbers up to n.
LEMMA UpTo ==
    ASSUME NEW n \in Nat, NEW S, 0 \in S,
           \A k \in 0 .. n - 1 : k \in S => k + 1 \in S
    PROVE  \A k \in 0 .. n : k \in S
PROOF
<1> DEFINE T == {k \in 0 .. n : k \notin S}
<1> SUFFICES ASSUME T # {} PROVE FALSE
  OBVIOUS
<1>1. PICK m \in T : \A x \in T : m <= x
  <2>1. T \subseteq Nat
    OBVIOUS
  <2> HIDE DEF T
  <2> QED BY <2>1, LeastNumber
<1>2. m \in 1 .. n /\ m - 1 \in 0 .. n - 1 /\ m - 1 \notin T /\ (m - 1) + 1 = m
  BY <1>1
<1> QED BY <1>1, <1>2

-----------------------------------------------------------------------------
(* Powers of two.                                                          *)

\* f satisfies the definition of Pow2 up to m.
Doubles(f, m) ==
    /\ f \in [0 .. m -> Nat] /\ f[0] = 1
    /\ \A k \in 1 .. m : f[k] = 2 * f[k - 1]

\* The definition of Pow2 by recursion has a solution.
LEMMA Pow2Solution ==
    \E f : f = [n \in Nat |-> IF n = 0 THEN 1 ELSE 2 * f[n - 1]]
PROOF
<1> DEFINE S == {m \in Nat : \E f : Doubles(f, m)}
           g == [m \in Nat |-> CHOOSE f : Doubles(f, m)]
           h == [m \in Nat |-> g[m][m]]
<1>1. ASSUME NEW m \in Nat PROVE m \in S
  <2>1. 0 \in S
    <3>1. Doubles([k \in 0 .. 0 |-> 1], 0)
      BY DEF Doubles
    <3> QED BY <3>1
  <2>2. ASSUME NEW k \in 0 .. m - 1, k \in S PROVE k + 1 \in S
    <3>1. PICK f : Doubles(f, k)
      BY <2>2
    <3> DEFINE e == [j \in 0 .. k + 1 |-> IF j = k + 1 THEN 2 * f[k] ELSE f[j]]
    <3>2. e \in [0 .. k + 1 -> Nat] /\ e[0] = 1
      BY <3>1 DEF Doubles
    <3>3. ASSUME NEW j \in 1 .. k + 1 PROVE e[j] = 2 * e[j - 1]
      <4>1. CASE j = k + 1
        BY <3>1, <4>1 DEF Doubles
      <4>2. CASE j # k + 1
        <5>1. j \in 1 .. k /\ j \in 0 .. k + 1 /\ j - 1 \in 0 .. k + 1 /\ j - 1 # k + 1
          BY <4>2
        <5> QED BY <3>1, <5>1 DEF Doubles
      <4> QED BY <4>1, <4>2
    <3> HIDE DEF e
    <3>4. Doubles(e, k + 1)
      BY <3>2, <3>3 DEF Doubles
    <3> QED BY <3>4
  <2> HIDE DEF S
  <2>3. \A k \in 0 .. m : k \in S
    BY <2>1, <2>2, UpTo
  <2> QED BY <2>3
<1>2. ASSUME NEW m \in Nat PROVE Doubles(g[m], m)
  BY <1>1
<1>3. ASSUME NEW m \in Nat PROVE \A k \in 0 .. m : g[m + 1][k] = g[m][k]
  <2> DEFINE T == {k \in 0 .. m : g[m + 1][k] = g[m][k]}
  <2>1. Doubles(g[m], m) /\ Doubles(g[m + 1], m + 1)
    BY <1>2
  <2> HIDE DEF g
  <2>2. 0 \in T
    BY <2>1 DEF Doubles
  <2>3. ASSUME NEW k \in 0 .. m - 1, k \in T PROVE k + 1 \in T
    <3>1. /\ k + 1 \in 0 .. m /\ k + 1 \in 1 .. m /\ k + 1 \in 1 .. m + 1
          /\ (k + 1) - 1 = k
      OBVIOUS
    <3>2. g[m][k + 1] = 2 * g[m][k]
      BY <2>1, <3>1 DEF Doubles
    <3>3. g[m + 1][k + 1] = 2 * g[m + 1][k]
      BY <2>1, <3>1 DEF Doubles
    <3> QED BY <2>3, <3>1, <3>2, <3>3
  <2> HIDE DEF T
  <2>4. \A k \in 0 .. m : k \in T
    BY <2>2, <2>3, UpTo
  <2> QED BY <2>4 DEF T
<1>4. \A m \in Nat : Doubles(g[m], m)
  BY <1>2
<1> HIDE DEF g
<1>5. h[0] = 1
  BY <1>4 DEF Doubles
<1>6. ASSUME NEW n \in Nat \ {0} PROVE h[n] = 2 * h[n - 1]
  <2>1. n - 1 \in Nat /\ (n - 1) + 1 = n /\ n - 1 \in 0 .. n - 1 /\ n \in 1 .. n
    OBVIOUS
  <2>2. g[n][n] = 2 * g[n][n - 1]
    BY <1>4, <2>1 DEF Doubles
  <2>3. g[n][n - 1] = g[n - 1][n - 1]
    BY <1>3, <2>1
  <2> QED BY <2>1, <2>2, <2>3
<1>7. h = [n \in Nat |-> IF n = 0 THEN 1 ELSE 2 * h[n - 1]]
  BY <1>5, <1>6
<1> QED BY <1>7

\* Pow2 is what its definition says.
LEMMA Pow2Facts ==
    /\ Pow2[0] = 1
    /\ \A n \in Nat : Pow2[n + 1] = 2 * Pow2[n]
    /\ \A n \in Nat : Pow2[n] \in Nat \ {0}
PROOF
<1>1. Pow2 = [n \in Nat |-> IF n = 0 THEN 1 ELSE 2 * Pow2[n - 1]]
  <2> DEFINE P(f) == f = [n \in Nat |-> IF n = 0 THEN 1 ELSE 2 * f[n - 1]]
  <2>1. \E f : P(f)
    BY Pow2Solution
  <2>2. Pow2 = CHOOSE f : P(f)
    BY DEF Pow2
  <2> HIDE DEF P
  <2>3. P(Pow2)
    BY <2>1, <2>2
  <2> QED BY <2>3 DEF P
<1>2. Pow2[0] = 1
  BY <1>1
<1>3. ASSUME NEW n \in Nat PROVE Pow2[n + 1] = 2 * Pow2[n]
  <2>1. n + 1 \in Nat /\ n + 1 # 0 /\ (n + 1) - 1 = n
    OBVIOUS
  <2> QED BY <1>1, <2>1
<1>4. ASSUME NEW n \in Nat PROVE Pow2[n] \in Nat \ {0}
  <2> DEFINE S == {k \in Nat : Pow2[k] \in Nat \ {0}}
  <2>1. 0 \in S /\ \A k \in 0 .. n - 1 : k \in S => k + 1 \in S
    BY <1>2, <1>3
  <2> HIDE DEF S
  <2>2. \A k \in 0 .. n : k \in S
    BY <2>1, UpTo
  <2> QED BY <2>2 DEF S
<1> QED BY <1>2, <1>3, <1>4

\* The leaves of a tree of trees.
LEMMA Pow2Sum == \A a, b \in Nat : Pow2[a] * Pow2[b] = Pow2[a + b]
PROOF
<1> SUFFICES ASSUME NEW a \in Nat, NEW b \in Nat PROVE Pow2[a] * Pow2[b] = Pow2[a + b]
  OBVIOUS
<1> DEFINE S == {k \in Nat : Pow2[a] * Pow2[k] = Pow2[a + k]}
<1>1. 0 \in S
  BY Pow2Facts
<1>2. ASSUME NEW k \in 0 .. b - 1, k \in S PROVE k + 1 \in S
  <2>1. \A x, y, z \in Nat : x * y = z => x * (2 * y) = 2 * z
    OBVIOUS
  <2>2. k \in Nat /\ a + k \in Nat /\ a + (k + 1) = (a + k) + 1
    OBVIOUS
  <2>3. Pow2[k + 1] = 2 * Pow2[k] /\ Pow2[(a + k) + 1] = 2 * Pow2[a + k]
    BY <2>2, Pow2Facts
  <2>4. Pow2[a] \in Nat /\ Pow2[k] \in Nat /\ Pow2[a + k] \in Nat
    BY <2>2, Pow2Facts
  <2>5. Pow2[a] * (2 * Pow2[k]) = 2 * Pow2[a + k]
    BY <1>2, <2>1, <2>4
  <2> QED BY <2>2, <2>3, <2>5
<1> HIDE DEF S
<1>3. \A k \in 0 .. b : k \in S
  BY <1>1, <1>2, UpTo
<1> QED BY <1>3 DEF S

\* Pow2 grows, and faster than its argument.
LEMMA Pow2Grows ==
    /\ \A k, n \in Nat : k < n => Pow2[k] < Pow2[n]
    /\ \A n \in Nat : n < Pow2[n]
PROOF
<1>1. ASSUME NEW k \in Nat, NEW n \in Nat, k < n PROVE Pow2[k] < Pow2[n]
  <2> DEFINE S == {j \in Nat : Pow2[k] < Pow2[(k + j) + 1]}
  <2>1. 0 \in S
    <3>1. Pow2[k + 1] = 2 * Pow2[k] /\ Pow2[k] \in Nat \ {0} /\ (k + 0) + 1 = k + 1
      BY Pow2Facts
    <3> QED BY <3>1
  <2>2. ASSUME NEW j \in 0 .. n - 1, j \in S PROVE j + 1 \in S
    <3>1. (k + j) + 1 \in Nat /\ (k + (j + 1)) + 1 = ((k + j) + 1) + 1
      OBVIOUS
    <3>2. /\ Pow2[((k + j) + 1) + 1] = 2 * Pow2[(k + j) + 1]
          /\ Pow2[(k + j) + 1] \in Nat /\ Pow2[k] \in Nat
      BY <3>1, Pow2Facts
    <3> QED BY <2>2, <3>1, <3>2
  <2> HIDE DEF S
  <2>3. \A j \in 0 .. n : j \in S
    BY <2>1, <2>2, UpTo
  <2>4. n - k - 1 \in 0 .. n /\ (k + (n - k - 1)) + 1 = n
    BY <1>1
  <2> QED BY <2>3, <2>4 DEF S
<1>2. ASSUME NEW n \in Nat PROVE n < Pow2[n]
  <2> DEFINE S == {k \in Nat : k < Pow2[k]}
  <2>1. 0 \in S
    BY Pow2Facts
  <2>2. ASSUME NEW k \in 0 .. n - 1, k \in S PROVE k + 1 \in S
    BY <2>2, Pow2Facts
  <2> HIDE DEF S
  <2>3. \A k \in 0 .. n : k \in S
    BY <2>1, <2>2, UpTo
  <2> QED BY <2>3 DEF S
<1> QED BY <1>1, <1>2

\* The depth of a full tree.
LEMMA Log2Pow2 == \A d \in Nat : Log2(Pow2[d]) = d
PROOF
<1> SUFFICES ASSUME NEW d \in Nat PROVE Log2(Pow2[d]) = d
  OBVIOUS
<1> DEFINE IsLog(k) == Pow2[k] >= Pow2[d] /\ (k = 0 \/ Pow2[k - 1] < Pow2[d])
<1>1. Pow2[d] \in Nat /\ d \in 0 .. Pow2[d]
  BY Pow2Facts, Pow2Grows
<1>2. IsLog(d)
  <2>1. CASE d = 0
    BY <1>1, <2>1
  <2>2. CASE d # 0
    <3>1. d - 1 \in Nat /\ d - 1 < d
      BY <2>2
    <3> QED BY <1>1, <3>1, Pow2Grows
  <2> QED BY <2>1, <2>2
<1>3. ASSUME NEW k \in 0 .. Pow2[d], IsLog(k) PROVE k = d
  <2>1. k \in Nat /\ Pow2[k] \in Nat
    BY <1>1, Pow2Facts
  <2>2. ~ (k < d)
    BY <1>1, <1>3, <2>1, Pow2Grows
  <2>3. ~ (d < k)
    <3> SUFFICES ASSUME d < k PROVE FALSE
      OBVIOUS
    <3>1. k # 0 /\ k - 1 \in Nat /\ (d = k - 1 \/ d < k - 1)
      BY <2>1
    <3>2. Pow2[k - 1] \in Nat /\ (Pow2[d] = Pow2[k - 1] \/ Pow2[d] < Pow2[k - 1])
      BY <3>1, Pow2Facts, Pow2Grows
    <3> QED BY <1>1, <1>3, <3>1, <3>2
  <2> QED BY <2>1, <2>2, <2>3
<1>4. Log2(Pow2[d]) = CHOOSE k \in 0 .. Pow2[d] : IsLog(k)
  BY DEF Log2
<1> HIDE DEF IsLog
<1> QED BY <1>1, <1>2, <1>3, <1>4

-----------------------------------------------------------------------------
(* Merkle trees.                                                           *)

\* The parents of the nodes of a level.
Above(nodes, width) ==
    [i \in 1 .. width |-> sha256(nodes[2 * i - 1], nodes[2 * i])]

\* f has the levels of the tree up to m.
Rises(f, leaves, depth, m) ==
    /\ f = [k \in 0 .. m |-> f[k]]
    /\ f[0] = Extended(leaves, Pow2[depth])
    /\ \A k \in 1 .. m : f[k] = Above(f[k - 1], Pow2[depth - k])

\* The levels of a tree are what their definition says.
LEMMA NodesFacts ==
    ASSUME NEW leaves, NEW depth \in Nat
    PROVE  Rises(Nodes(leaves, depth), leaves, depth, depth)
PROOF
<1> DEFINE S == {m \in Nat : \E f : Rises(f, leaves, depth, m)}
           base == Extended(leaves, Pow2[depth])
<1>1. 0 \in S
  <2> HIDE DEF base
  <2>1. Rises([k \in 0 .. 0 |-> base], leaves, depth, 0)
    BY DEF Rises, base
  <2> QED BY <2>1
<1>2. ASSUME NEW k \in 0 .. depth - 1, k \in S PROVE k + 1 \in S
  <2>1. PICK f : Rises(f, leaves, depth, k)
    BY <1>2
  <2> DEFINE top == Above(f[k], Pow2[depth - (k + 1)])
             e == [j \in 0 .. k + 1 |-> IF j = k + 1 THEN top ELSE f[j]]
  <2> HIDE DEF top
  <2>2. e = [j \in 0 .. k + 1 |-> e[j]] /\ e[0] = base
    BY <2>1 DEF Rises
  <2>3. ASSUME NEW j \in 1 .. k + 1 PROVE e[j] = Above(e[j - 1], Pow2[depth - j])
    <3>1. CASE j = k + 1
      BY <3>1 DEF top
    <3>2. CASE j # k + 1
      <4>1. /\ j \in 1 .. k /\ j \in 0 .. k + 1 /\ j - 1 \in 0 .. k + 1
            /\ j - 1 # k + 1
        BY <3>2
      <4>2. e[j] = f[j] /\ e[j - 1] = f[j - 1]
        BY <3>2, <4>1
      <4>3. f[j] = Above(f[j - 1], Pow2[depth - j])
        BY <2>1, <4>1 DEF Rises
      <4> HIDE DEF e
      <4> QED BY <4>2, <4>3
    <3> QED BY <3>1, <3>2
  <2> HIDE DEF e
  <2>4. Rises(e, leaves, depth, k + 1)
    BY <2>2, <2>3 DEF Rises
  <2> QED BY <2>4
<1> HIDE DEF S
<1>3. \A k \in 0 .. depth : k \in S
  BY <1>1, <1>2, UpTo
<1>4. PICK f : Rises(f, leaves, depth, depth)
  BY <1>3 DEF S
<1> DEFINE Body(g, k) == IF k = 0 THEN Extended(leaves, Pow2[depth])
                         ELSE [i \in 1 .. Pow2[depth - k] |->
                                 sha256(g[k - 1][2 * i - 1], g[k - 1][2 * i])]
           P(g) == g = [k \in 0 .. depth |-> Body(g, k)]
<1>5. P(f)
  <2>1. ASSUME NEW k \in 0 .. depth PROVE f[k] = Body(f, k)
    <3>1. CASE k = 0
      BY <1>4, <3>1 DEF Rises
    <3>2. CASE k # 0
      <4>1. k \in 1 .. depth
        BY <3>2
      <4> QED BY <1>4, <4>1 DEF Rises, Above
    <3> QED BY <3>1, <3>2
  <2> HIDE DEF Body
  <2> QED BY <1>4, <2>1 DEF Rises
<1>6. Nodes(leaves, depth) = CHOOSE g : P(g)
  BY DEF Nodes
<1> DEFINE N == Nodes(leaves, depth)
<1>7. P(N)
  <2> HIDE DEF P
  <2> QED BY <1>5, <1>6
<1> HIDE DEF N
<1>8. N = [k \in 0 .. depth |-> N[k]] /\ \A k \in 0 .. depth : N[k] = Body(N, k)
  <2> HIDE DEF Body
  <2> QED BY <1>7
<1>9. N[0] = Extended(leaves, Pow2[depth])
  BY <1>8
<1>10. ASSUME NEW k \in 1 .. depth PROVE N[k] = Above(N[k - 1], Pow2[depth - k])
  <2>1. k \in 0 .. depth /\ k # 0
    OBVIOUS
  <2>2. N[k] = Body(N, k)
    BY <1>8, <2>1
  <2> QED BY <2>1, <2>2 DEF Above
<1> QED BY <1>8, <1>9, <1>10 DEF Rises, N

\* Two halves of a level, each w nodes wide.
Join(a, b, w) == [i \in 1 .. 2 * w |-> IF i <= w THEN a[i] ELSE b[i - w]]

\* The parents of two halves are the halves of the parents.
LEMMA JoinAbove ==
    ASSUME NEW a, NEW b, NEW w \in Nat
    PROVE  Above(Join(a, b, 2 * w), 2 * w) = Join(Above(a, w), Above(b, w), w)
PROOF
<1> DEFINE J == Join(a, b, 2 * w)
           L == Above(a, w)
           R == Above(b, w)
<1>1. ASSUME NEW i \in 1 .. 2 * w, i <= w
      PROVE  sha256(J[2 * i - 1], J[2 * i]) = L[i]
  <2>1. /\ 2 * i - 1 \in 1 .. 2 * (2 * w) /\ 2 * i - 1 <= 2 * w
        /\ 2 * i \in 1 .. 2 * (2 * w) /\ 2 * i <= 2 * w /\ i \in 1 .. w
    BY <1>1
  <2>2. J[2 * i - 1] = a[2 * i - 1] /\ J[2 * i] = a[2 * i]
    BY <2>1 DEF Join
  <2>3. L[i] = sha256(a[2 * i - 1], a[2 * i])
    BY <2>1 DEF Above
  <2> QED BY <2>2, <2>3
<1>2. ASSUME NEW i \in 1 .. 2 * w, ~ (i <= w)
      PROVE  sha256(J[2 * i - 1], J[2 * i]) = R[i - w]
  <2>1. /\ 2 * i - 1 \in 1 .. 2 * (2 * w) /\ ~ (2 * i - 1 <= 2 * w)
        /\ 2 * i \in 1 .. 2 * (2 * w) /\ ~ (2 * i <= 2 * w) /\ i - w \in 1 .. w
        /\ (2 * i - 1) - 2 * w = 2 * (i - w) - 1 /\ 2 * i - 2 * w = 2 * (i - w)
    BY <1>2
  <2>2. J[2 * i - 1] = b[2 * (i - w) - 1] /\ J[2 * i] = b[2 * (i - w)]
    BY <2>1 DEF Join
  <2>3. R[i - w] = sha256(b[2 * (i - w) - 1], b[2 * (i - w)])
    BY <2>1 DEF Above
  <2> QED BY <2>2, <2>3
<1> HIDE DEF J, L, R
<1>3. Above(J, 2 * w) = Join(L, R, w)
  BY <1>1, <1>2 DEF Above, Join
<1> QED BY <1>3 DEF J, L, R

\* A function on 1 .. n is a sequence of length n.
LEMMA LenOf ==
    ASSUME NEW S, NEW n \in Nat, NEW s \in [1 .. n -> S]
    PROVE  s \in Seq(S) /\ Len(s) = n
PROOF OBVIOUS

\* What get_merkle_root does with a power of two of leaves.
LEMMA RootOf ==
    ASSUME NEW d \in Nat, NEW leaves, leaves = [i \in 1 .. Pow2[d] |-> leaves[i]]
    PROVE  /\ get_merkle_root(leaves) = Nodes(leaves, d)[d][1]
           /\ Nodes(leaves, d)[0] = leaves
PROOF
<1>1. Pow2[d] \in Nat
  BY Pow2Facts
<1> DEFINE S == {leaves[i] : i \in 1 .. Pow2[d]}
<1>2. Len(leaves) = Pow2[d]
  <2>1. leaves \in [1 .. Pow2[d] -> S]
    OBVIOUS
  <2> HIDE DEF S
  <2> QED BY <1>1, <2>1, LenOf
<1>3. Log2(Len(leaves)) = d
  BY <1>2, Log2Pow2
<1>4. Nodes(leaves, d)[0] = Extended(leaves, Pow2[d])
  BY NodesFacts DEF Rises
<1>5. Extended(leaves, Pow2[d]) = leaves
  <2>1. \A i \in 1 .. Pow2[d] : i <= Len(leaves)
    BY <1>1, <1>2
  <2> QED BY <2>1 DEF Extended
<1> QED BY <1>3, <1>4, <1>5 DEF get_merkle_root

\* A level of a tree with n nodes.
IsLevel(nodes, n) == nodes = [i \in 1 .. n |-> nodes[i]]

\* The root of two halves is the hash of their roots.
LEMMA MerkleSplit ==
    ASSUME NEW d \in Nat, NEW l, NEW r, IsLevel(l, Pow2[d]), IsLevel(r, Pow2[d])
    PROVE  get_merkle_root(Join(l, r, Pow2[d])) =
               sha256(get_merkle_root(l), get_merkle_root(r))
PROOF
<1> DEFINE all == Join(l, r, Pow2[d])
           NL == Nodes(l, d)
           NR == Nodes(r, d)
           NA == Nodes(all, d + 1)
           S == {k \in 0 .. d : NA[k] = Join(NL[k], NR[k], Pow2[d - k])}
<1>1. d + 1 \in Nat /\ Pow2[d + 1] = 2 * Pow2[d] /\ Pow2[d] \in Nat
  BY Pow2Facts
<1>2. all = [i \in 1 .. Pow2[d + 1] |-> all[i]]
  BY <1>1 DEF Join
<1>3. /\ get_merkle_root(l) = NL[d][1] /\ NL[0] = l
      /\ get_merkle_root(r) = NR[d][1] /\ NR[0] = r
  BY RootOf DEF IsLevel
<1>4. get_merkle_root(all) = NA[d + 1][1] /\ NA[0] = all
  <2> HIDE DEF all
  <2> QED BY <1>1, <1>2, RootOf
<1>5. /\ \A k \in 1 .. d : NL[k] = Above(NL[k - 1], Pow2[d - k])
      /\ \A k \in 1 .. d : NR[k] = Above(NR[k - 1], Pow2[d - k])
  BY NodesFacts DEF Rises
<1>6. \A k \in 1 .. d + 1 : NA[k] = Above(NA[k - 1], Pow2[(d + 1) - k])
  <2> HIDE DEF all
  <2> QED BY <1>1, NodesFacts DEF Rises
<1> HIDE DEF NL, NR, NA
<1>7. 0 \in S
  BY <1>3, <1>4
<1> HIDE DEF all
<1>8. ASSUME NEW k \in 0 .. d - 1, k \in S PROVE k + 1 \in S
  <2> DEFINE w == Pow2[d - (k + 1)]
  <2>1. /\ d - (k + 1) \in Nat /\ (d - (k + 1)) + 1 = d - k
        /\ k + 1 \in 0 .. d /\ k + 1 \in 1 .. d /\ k + 1 \in 1 .. d + 1
        /\ (k + 1) - 1 = k /\ (d + 1) - (k + 1) = d - k
    OBVIOUS
  <2>2. w \in Nat /\ Pow2[d - k] = 2 * w
    BY <2>1, Pow2Facts
  <2>3. NA[k + 1] = Above(NA[k], Pow2[d - k])
    BY <1>6, <2>1
  <2>4. NL[k + 1] = Above(NL[k], w) /\ NR[k + 1] = Above(NR[k], w)
    BY <1>5, <2>1
  <2> HIDE DEF w
  <2>5. NA[k + 1] = Above(Join(NL[k], NR[k], 2 * w), 2 * w)
    BY <1>8, <2>2, <2>3
  <2>6. NA[k + 1] = Join(NL[k + 1], NR[k + 1], w)
    BY <2>2, <2>4, <2>5, JoinAbove
  <2> QED BY <2>1, <2>6 DEF w
<1> HIDE DEF S
<1>9. \A k \in 0 .. d : k \in S
  BY <1>7, <1>8, UpTo
<1>10. NA[d] = Join(NL[d], NR[d], 1)
  <2>1. d \in 0 .. d /\ d - d = 0 /\ Pow2[0] = 1
    BY Pow2Facts
  <2> QED BY <1>9, <2>1 DEF S
<1>11. NA[d + 1] = Above(NA[d], 1)
  <2>1. d + 1 \in 1 .. d + 1 /\ (d + 1) - 1 = d /\ (d + 1) - (d + 1) = 0 /\ Pow2[0] = 1
    BY Pow2Facts
  <2> QED BY <1>6, <2>1
<1>12. NA[d + 1][1] = sha256(NA[d][1], NA[d][2])
  BY <1>11 DEF Above
<1>13. NA[d][1] = NL[d][1] /\ NA[d][2] = NR[d][1]
  BY <1>10 DEF Join
<1> QED BY <1>3, <1>4, <1>12, <1>13 DEF all

-----------------------------------------------------------------------------
(* The inductive invariant.                                                *)

\* The number of leaves below a node of a level, the block before the first
\* of them, and how many of w blocks after base are not after the target.
Reach(level) == HEADERS_PER_MAP * Pow2[level]
Base(level, i) == trusted_block + (i - 1) * Reach(level)
Covered(target, base, w) ==
    IF target <= base THEN 0 ELSE IF target - base <= w THEN target - base ELSE w

\* The leaves that the first n headers stand for.
LeavesOf(kind, headers, n) == [j \in 1 .. n |-> Leaf(kind, headers[j])]

\* The n headers after block `base` that the jobs below a node saw: one per
\* block number, each the parent of the next.
IsChain(headers, base, n) ==
    /\ headers \in [1 .. n -> Headers]
    /\ \A j \in 1 .. n : NumberOf[headers[j]] = base + j
    /\ \A j \in 2 .. n : ParentOf[headers[j]] = headers[j - 1]

\* The output of a job is about these headers.
IsAbout(out, headers, base, n, w) ==
    /\ out.num_blocks = n
    /\ n > 0 => /\ out.start_block = base + 1 /\ out.start_parent = ParentOf[headers[1]]
                /\ out.end_block = base + n /\ out.end_header_hash = headers[n]
    /\ n = 0 => out.end_block = 0
    /\ out.state_merkle_root = get_merkle_root(Extended(LeavesOf("state", headers, n), w))
    /\ out.data_merkle_root = get_merkle_root(Extended(LeavesOf("data", headers, n), w))

\* The jobs below a node saw a chain of the blocks up to the target, and its
\* output is about them.
NodeOK(out, target, base, w) ==
    \E headers : /\ IsChain(headers, base, Covered(target, base, w))
                 /\ IsAbout(out, headers, base, Covered(target, base, w), w)

\* The trusted block is the trusted header's, and the target is not block 0.
InputsOK ==
    /\ trusted_header \in Headers /\ trusted_block = NumberOf[trusted_header]
    /\ target_block \in Nat \ {0}
    /\ prover = "repository" => target_block <= MaxBlock

\* Every job that is done saw a chain.
NodesOK ==
    /\ node = [level \in 0 .. Levels |-> [i \in 1 .. Width(level) |-> node[level][i]]]
    /\ \A level \in 0 .. Levels : \A i \in 1 .. Width(level) :
           node[level][i].done =>
               NodeOK(node[level][i], target_block, Base(level, i), Reach(level))

\* The inductive invariant.
IInv == InputsOK /\ NodesOK /\ OutputIsAChain /\ ProofIsCanonical

-----------------------------------------------------------------------------
(* The jobs.                                                               *)

\* The sizes of the tree.  The commitment tree is full because
\* HEADERS_PER_MAP is a power of two.
LEMMA Constants ==
    /\ HEADERS_PER_MAP \in Nat \ {0} /\ Levels \in Nat
    /\ \A level \in Nat : \E d \in Nat : Reach(level) = Pow2[d]
    /\ \A level \in Nat : Reach(level) \in Nat \ {0} /\ Reach(level + 1) = 2 * Reach(level)
    /\ Reach(0) = HEADERS_PER_MAP /\ Reach(Levels) = MaxLeaves
    /\ IsPowerOfTwo(MaxLeaves)
PROOF
<1>1. HEADERS_PER_MAP \in Nat \ {0} /\ Levels \in Nat
  BY SubchainAssumption
<1>2. PICK a \in 0 .. HEADERS_PER_MAP : HEADERS_PER_MAP = Pow2[a]
  BY SubchainAssumption DEF IsPowerOfTwo
<1>3. a \in Nat
  BY <1>1
<1>4. ASSUME NEW level \in Nat PROVE Reach(level) = Pow2[a + level] /\ a + level \in Nat
  BY <1>2, <1>3, Pow2Sum DEF Reach
<1>5. ASSUME NEW level \in Nat
      PROVE  Reach(level) \in Nat \ {0} /\ Reach(level + 1) = 2 * Reach(level)
  <2>1. level + 1 \in Nat /\ a + (level + 1) = (a + level) + 1
    BY <1>3
  <2> QED BY <1>4, <2>1, Pow2Facts
<1>6. Reach(0) = HEADERS_PER_MAP
  BY <1>1, Pow2Facts DEF Reach
<1>7. Reach(Levels) = MaxLeaves
  <2>1. \A x, y \in Nat : x * y = y * x
    OBVIOUS
  <2>2. Pow2[Levels] \in Nat
    BY <1>1, Pow2Facts
  <2> QED BY <1>1, <2>1, <2>2 DEF Reach, MaxLeaves, NumMapJobs
<1>8. IsPowerOfTwo(MaxLeaves)
  <2>1. MaxLeaves = Pow2[a + Levels] /\ a + Levels \in Nat
    BY <1>1, <1>4, <1>7
  <2>2. a + Levels \in 0 .. Pow2[a + Levels]
    BY <2>1, Pow2Grows, Pow2Facts
  <2> QED BY <2>1, <2>2 DEF IsPowerOfTwo
<1> QED BY <1>1, <1>4, <1>5, <1>6, <1>7, <1>8

\* The slots that are not skipped are a prefix.
LEMMA LastEnabledIs ==
    ASSUME NEW job, NEW headers, NEW n \in 0 .. HEADERS_PER_MAP,
           Enabled(job, headers) = 1 .. n
    PROVE  LastEnabled(job, headers) = n
PROOF
<1>1. HEADERS_PER_MAP \in Nat
  BY Constants
<1>2. ASSUME NEW m \in 0 .. HEADERS_PER_MAP, 1 .. n = 1 .. m PROVE m = n
  <2>1. m \in Nat /\ n \in Nat
    BY <1>1
  <2>2. CASE m < n
    <3>1. n \in 1 .. n /\ n \notin 1 .. m
      BY <2>1, <2>2
    <3> QED BY <1>2, <3>1
  <2>3. CASE n < m
    <3>1. m \in 1 .. m /\ m \notin 1 .. n
      BY <2>1, <2>3
    <3> QED BY <1>2, <3>1
  <2> QED BY <2>1, <2>2, <2>3
<1> QED BY <1>2 DEF LastEnabled

\* The root of a batch is over its first n headers.
LEMMA BatchRootIs ==
    ASSUME NEW kind, NEW headers \in [Slots -> Headers], NEW n \in 0 .. HEADERS_PER_MAP
    PROVE  BatchRoot(kind, headers, n) =
               get_merkle_root(Extended(LeavesOf(kind, headers, n), HEADERS_PER_MAP))
PROOF
<1> DEFINE leaves == [i \in Slots |-> Leaf(kind, headers[i])]
           S == {Leaf(kind, h) : h \in Headers}
           H == HEADERS_PER_MAP
<1>1. H \in Nat /\ n \in Nat /\ n <= H
  BY Constants
<1>2. leaves \in [1 .. H -> S]
  BY DEF Slots
<1>3. leaves \in Seq(S) /\ Len(leaves) = H
  <2> HIDE DEF leaves, S, H
  <2> QED BY <1>1, <1>2, LenOf
<1>4. SubSeq(leaves, 1, n) = [j \in 1 .. n |-> leaves[j]]
  <2> HIDE DEF leaves, S, H
  <2> QED BY <1>1, <1>3
<1>5. [j \in 1 .. n |-> leaves[j]] = LeavesOf(kind, headers, n)
  <2>1. \A j \in 1 .. n : j \in Slots
    BY <1>1 DEF Slots
  <2> QED BY <2>1 DEF LeavesOf
<1> HIDE DEF leaves
<1> QED BY <1>3, <1>4, <1>5 DEF BatchRoot, get_root_from_hashed_leaves, leaves

\* Arithmetic of batches.
LEMMA BatchBlocks ==
    ASSUME InputsOK, NEW job \in Nat \ {0}
    PROVE  /\ Base(0, job) \in Nat /\ target_block \in Nat
           /\ batch_start_block(job) = Base(0, job) + 1
           /\ batch_end_block(job) = Base(0, job) + HEADERS_PER_MAP
PROOF
<1>1. /\ trusted_block \in Nat /\ target_block \in Nat
      /\ HEADERS_PER_MAP \in Nat /\ Reach(0) = HEADERS_PER_MAP
  BY Constants, SubchainAssumption DEF InputsOK
<1>2. \A x \in Nat \ {0}, y \in Nat : (x - 1) * y \in Nat /\ x * y = (x - 1) * y + y
  OBVIOUS
<1>3. /\ (job - 1) * HEADERS_PER_MAP \in Nat
      /\ job * HEADERS_PER_MAP = (job - 1) * HEADERS_PER_MAP + HEADERS_PER_MAP
  BY <1>1, <1>2
<1> QED BY <1>1, <1>3 DEF Base, batch_start_block, batch_end_block

\* The first header of the target's number is the last slot that is enabled.
LEMMA EnabledPrefix ==
    ASSUME NEW job, NEW headers, ~ is_batch_disabled(job)
    PROVE  \E n \in 1 .. HEADERS_PER_MAP :
               /\ Enabled(job, headers) = 1 .. n
               /\ \A j \in 1 .. n - 1 : NumberOf[headers[j]] # target_block
               /\ curr_block_noop(job, headers, HEADERS_PER_MAP + 1) =>
                      NumberOf[headers[n]] = target_block
               /\ n < HEADERS_PER_MAP => NumberOf[headers[n]] = target_block
PROOF
<1> DEFINE H == HEADERS_PER_MAP
           F == {j \in 1 .. H : NumberOf[headers[j]] = target_block}
<1>1. H \in Nat \ {0}
  BY Constants
<1>2. ASSUME NEW i \in 1 .. H + 1
      PROVE  curr_block_noop(job, headers, i) <=> \E j \in F : j < i
  <2>1. (\E j \in 1 .. i - 1 : NumberOf[headers[j]] = target_block) <=> \E j \in F : j < i
    <3>1. ASSUME NEW j \in 1 .. i - 1, NumberOf[headers[j]] = target_block
          PROVE  j \in F /\ j < i
      BY <1>1, <3>1
    <3>2. ASSUME NEW j \in F, j < i
          PROVE  j \in 1 .. i - 1 /\ NumberOf[headers[j]] = target_block
      BY <1>1, <3>2
    <3> QED BY <3>1, <3>2
  <2> HIDE DEF F
  <2> QED BY <2>1 DEF curr_block_noop
<1>3. /\ F \subseteq 1 .. H /\ F \subseteq Nat
      /\ \A j \in 1 .. H : j \in F <=> NumberOf[headers[j]] = target_block
  BY <1>1
<1>4. 1 .. H \subseteq 1 .. H + 1 /\ H + 1 \in 1 .. H + 1
  BY <1>1
<1>5. \A i : i \in Enabled(job, headers) <=> i \in 1 .. H /\ ~ \E j \in F : j < i
  BY <1>2, <1>4 DEF Enabled, Slots
<1> HIDE DEF F
<1>6. CASE F = {}
  <2>1. Enabled(job, headers) = 1 .. H
    BY <1>5, <1>6
  <2>2. ~ curr_block_noop(job, headers, H + 1)
    BY <1>2, <1>4, <1>6
  <2>3. \A j \in 1 .. H - 1 : NumberOf[headers[j]] # target_block
    <3>1. \A j \in 1 .. H - 1 : j \in 1 .. H
      BY <1>1
    <3> QED BY <1>3, <1>6, <3>1
  <2>4. H \in 1 .. H /\ ~ (H < H)
    BY <1>1
  <2> QED BY <2>1, <2>2, <2>3, <2>4
<1>7. CASE F # {}
  <2>1. PICK n \in F : \A x \in F : n <= x
    BY <1>3, <1>7, LeastNumber
  <2>2. n \in 1 .. H /\ NumberOf[headers[n]] = target_block
    BY <1>3, <2>1
  <2>3. ASSUME NEW i \in 1 .. H PROVE (~ \E j \in F : j < i) <=> i <= n
    <3>1. \A j \in F : j \in Nat
      BY <1>3
    <3>2. i \in Nat /\ n \in Nat
      BY <1>1, <2>2
    <3> QED BY <2>1, <3>1, <3>2
  <2>4. Enabled(job, headers) = 1 .. n
    <3>1. \A i : i \in 1 .. n <=> i \in 1 .. H /\ i <= n
      BY <1>1, <2>2
    <3> QED BY <1>5, <2>3, <3>1
  <2>5. \A j \in 1 .. n - 1 : NumberOf[headers[j]] # target_block
    <3> SUFFICES ASSUME NEW j \in 1 .. n - 1 PROVE j \notin F /\ j \in 1 .. H
      BY <1>3
    <3>1. j \in 1 .. H /\ ~ (n <= j)
      BY <1>1, <2>2
    <3> QED BY <2>1, <3>1
  <2> QED BY <2>2, <2>4, <2>5
<1> QED BY <1>6, <1>7

\* A map job whose assertions hold saw a chain that reaches the end of the
\* batch or the target block.
LEMMA MapChain ==
    ASSUME InputsOK, NEW job \in Nat \ {0}, NEW headers \in [Slots -> Headers],
           MapAssertions(job, headers)
    PROVE  NodeOK(MapOutput(job, headers), target_block, Base(0, job), Reach(0))
PROOF
<1> DEFINE H == HEADERS_PER_MAP
           base == Base(0, job)
           out == MapOutput(job, headers)
           LE == LastEnabled(job, headers)
           c == Covered(target_block, base, H)
           hs == [j \in 1 .. c |-> headers[j]]
<1>1. /\ H \in Nat \ {0} /\ Reach(0) = H /\ base \in Nat /\ target_block \in Nat
      /\ batch_start_block(job) = base + 1 /\ batch_end_block(job) = base + H
      /\ NumberOf \in [Headers -> Nat]
  BY BatchBlocks, Constants, SubchainAssumption
<1>2. is_batch_disabled(job) <=> target_block <= base
  BY <1>1 DEF is_batch_disabled
<1> HIDE DEF base
<1>3. /\ LE \in 0 .. H /\ LE = c
      /\ \A j \in 1 .. c : NumberOf[headers[j]] = base + j
      /\ \A j \in 2 .. c : ParentOf[headers[j]] = headers[j - 1]
  <2>1. CASE is_batch_disabled(job)
    <3>1. Enabled(job, headers) = {}
      BY <2>1 DEF Enabled, curr_block_noop
    <3>2. Enabled(job, headers) = 1 .. 0 /\ 0 \in 0 .. H
      BY <1>1, <3>1
    <3>3. LE = 0
      BY <3>2, LastEnabledIs
    <3>4. c = 0
      BY <1>2, <2>1 DEF Covered
    <3> HIDE DEF LE, c
    <3> QED BY <3>2, <3>3, <3>4
  <2>2. CASE ~ is_batch_disabled(job)
    <3>1. PICK n \in 1 .. H :
              /\ Enabled(job, headers) = 1 .. n
              /\ \A j \in 1 .. n - 1 : NumberOf[headers[j]] # target_block
              /\ curr_block_noop(job, headers, H + 1) => NumberOf[headers[n]] = target_block
              /\ n < H => NumberOf[headers[n]] = target_block
      BY <2>2, EnabledPrefix
    <3>2. n \in Nat \ {0} /\ n <= H /\ n \in 0 .. H
      BY <1>1
    <3>3. LE = n
      BY <3>1, <3>2, LastEnabledIs
    <3>4. ASSUME NEW j \in 2 .. n
          PROVE  /\ ParentOf[headers[j]] = headers[j - 1]
                 /\ NumberOf[headers[j]] = NumberOf[headers[j - 1]] + 1
      <4>1. j \in Slots \ {1} /\ j \in 1 .. n
        BY <1>1, <3>2 DEF Slots
      <4>2. ~ curr_block_noop(job, headers, j)
        BY <3>1, <4>1 DEF Enabled
      <4> QED BY <4>1, <4>2 DEF MapAssertions, header_correctly_linked
    <3>5. NumberOf[headers[1]] = base + 1
      BY <1>1, <2>2 DEF MapAssertions
    <3>6. \A j \in 1 .. n : NumberOf[headers[j]] = base + j
      <4> DEFINE S == {k \in 0 .. n - 1 : NumberOf[headers[k + 1]] = base + (k + 1)}
      <4>1. 0 \in S /\ n - 1 \in Nat
        BY <3>2, <3>5
      <4>2. ASSUME NEW k \in 0 .. (n - 1) - 1, k \in S PROVE k + 1 \in S
        <5>1. (k + 1) + 1 \in 2 .. n /\ ((k + 1) + 1) - 1 = k + 1 /\ k + 1 \in 0 .. n - 1
          BY <3>2
        <5>2. NumberOf[headers[(k + 1) + 1]] = NumberOf[headers[k + 1]] + 1
          BY <3>4, <5>1
        <5> QED BY <1>1, <4>2, <5>1, <5>2
      <4> HIDE DEF S
      <4>3. \A k \in 0 .. n - 1 : k \in S
        BY <4>1, <4>2, UpTo
      <4> TAKE j \in 1 .. n
      <4>4. j - 1 \in 0 .. n - 1 /\ (j - 1) + 1 = j
        BY <3>2
      <4> QED BY <4>3, <4>4 DEF S
    <3>7. n = c
      <4>1. n < H => target_block = base + n
        BY <3>1, <3>2, <3>6
      <4>2. target_block > base
        BY <1>1, <1>2, <2>2
      <4>3. ASSUME NEW j \in 1 .. n - 1 PROVE target_block # base + j
        BY <3>1, <3>2, <3>6
      <4>4. target_block - base >= n
        <5> SUFFICES ASSUME target_block - base < n PROVE FALSE
          BY <1>1, <3>2
        <5>1. target_block - base \in 1 .. n - 1
          BY <1>1, <3>2, <4>2
        <5>2. target_block # base + (target_block - base)
          BY <4>3, <5>1
        <5> QED BY <1>1, <5>2
      <4>5. n < H \/ n = H
        BY <1>1, <3>2
      <4> QED BY <1>1, <3>2, <4>1, <4>2, <4>4, <4>5 DEF Covered
    <3> HIDE DEF LE, c
    <3> QED BY <3>2, <3>3, <3>4, <3>6, <3>7
  <2> QED BY <2>1, <2>2
<1> HIDE DEF c
<1>4. c \in Nat /\ c <= H /\ c \in 0 .. H
  BY <1>1, <1>3
<1>5. \A j \in 1 .. c : j \in Slots /\ headers[j] \in Headers
  BY <1>1, <1>4 DEF Slots
<1>6. hs \in [1 .. c -> Headers] /\ \A j \in 1 .. c : hs[j] = headers[j]
  BY <1>5
<1>7. \A kind : LeavesOf(kind, hs, c) = LeavesOf(kind, headers, c)
  BY <1>6 DEF LeavesOf
<1> HIDE DEF hs
<1>8. IsChain(hs, base, c)
  <2>1. \A j \in 2 .. c : j \in 1 .. c /\ j - 1 \in 1 .. c
    BY <1>4
  <2> QED BY <1>3, <1>6, <2>1 DEF IsChain
<1>9. IsAbout(out, hs, base, c, H)
  <2>1. /\ out.num_blocks = LE /\ out.start_block = NumberOf[headers[1]]
        /\ out.start_parent = ParentOf[headers[1]]
        /\ out.end_block = IF LE = 0 THEN 0 ELSE NumberOf[headers[LE]]
        /\ out.end_header_hash = IF LE = 0 THEN ZeroHash ELSE headers[LE]
        /\ out.state_merkle_root = BatchRoot("state", headers, LE)
        /\ out.data_merkle_root = BatchRoot("data", headers, LE)
    BY DEF MapOutput, end_block_num
  <2> HIDE DEF out, LE
  <2>2. /\ out.state_merkle_root = get_merkle_root(Extended(LeavesOf("state", hs, c), H))
        /\ out.data_merkle_root = get_merkle_root(Extended(LeavesOf("data", hs, c), H))
    BY <1>3, <1>4, <1>7, <2>1, BatchRootIs
  <2>3. c > 0 => 1 \in 1 .. c /\ c \in 1 .. c
    BY <1>4
  <2> QED BY <1>3, <1>4, <1>6, <2>1, <2>2, <2>3 DEF IsAbout
<1> QED BY <1>1, <1>8, <1>9 DEF NodeOK, c, base

\* hs has the m headers of l and then the n headers of r; the left half of
\* w leaves is full if there are any.
Halves(hs, l, r, m, n, w) ==
    /\ m \in 0 .. w /\ n \in 0 .. w
    /\ n > 0 => m = w
    /\ \A j \in 1 .. m : hs[j] = l[j]
    /\ \A j \in 1 .. n : hs[m + j] = r[j]

\* Extending two halves and extending their leaves come to the same, unless
\* leaves of the right half would fill the left one.
LEMMA RootOfHalves ==
    ASSUME NEW d \in Nat, NEW kind, NEW l, NEW r, NEW hs, NEW m, NEW n,
           Halves(hs, l, r, m, n, Pow2[d])
    PROVE  get_merkle_root(Extended(LeavesOf(kind, hs, m + n), 2 * Pow2[d])) =
               sha256(get_merkle_root(Extended(LeavesOf(kind, l, m), Pow2[d])),
                      get_merkle_root(Extended(LeavesOf(kind, r, n), Pow2[d])))
PROOF
<1> DEFINE w == Pow2[d]
           L == Extended(LeavesOf(kind, l, m), w)
           R == Extended(LeavesOf(kind, r, n), w)
           A == Extended(LeavesOf(kind, hs, m + n), 2 * w)
<1>1. w \in Nat /\ m \in Nat /\ n \in Nat /\ m + n \in Nat /\ m <= w /\ n <= w
  BY Pow2Facts DEF Halves
<1>2. ASSUME NEW f, NEW k \in Nat PROVE Len(LeavesOf(kind, f, k)) = k
  <2> DEFINE S == {Leaf(kind, f[j]) : j \in 1 .. k}
  <2>1. LeavesOf(kind, f, k) \in [1 .. k -> S]
    BY DEF LeavesOf
  <2> HIDE DEF S
  <2> QED BY <2>1, LenOf
<1>3. ASSUME NEW f, NEW k \in Nat, NEW v \in Nat, NEW i \in 1 .. v
      PROVE  Extended(LeavesOf(kind, f, k), v)[i] =
                 IF i <= k THEN Leaf(kind, f[i]) ELSE EmptyLeaf
  <2>1. i <= k => LeavesOf(kind, f, k)[i] = Leaf(kind, f[i])
    BY DEF LeavesOf
  <2> QED BY <1>2, <2>1 DEF Extended
<1>4. IsLevel(L, w) /\ IsLevel(R, w) /\ A = [i \in 1 .. 2 * w |-> A[i]]
  BY DEF IsLevel, Extended
<1>5. ASSUME NEW i \in 1 .. 2 * w PROVE A[i] = IF i <= w THEN L[i] ELSE R[i - w]
  <2>1. A[i] = IF i <= m + n THEN Leaf(kind, hs[i]) ELSE EmptyLeaf
    BY <1>1, <1>3
  <2>2. CASE i <= w
    <3>1. i \in 1 .. w
      BY <1>1, <2>2
    <3>2. L[i] = IF i <= m THEN Leaf(kind, l[i]) ELSE EmptyLeaf
      BY <1>1, <1>3, <3>1
    <3>3. i <= m => hs[i] = l[i]
      BY <1>1 DEF Halves
    <3>4. i <= m + n <=> i <= m
      BY <1>1, <2>2 DEF Halves
    <3> HIDE DEF A, L
    <3> QED BY <2>1, <2>2, <3>2, <3>3, <3>4
  <2>3. CASE ~ (i <= w)
    <3>1. i - w \in 1 .. w
      BY <1>1, <2>3
    <3>2. R[i - w] = IF i - w <= n THEN Leaf(kind, r[i - w]) ELSE EmptyLeaf
      BY <1>1, <1>3, <3>1
    <3>3. i <= m + n <=> i - w <= n
      BY <1>1, <2>3 DEF Halves
    <3>4. ASSUME i - w <= n PROVE hs[i] = r[i - w]
      <4>1. n > 0 /\ i - w \in 1 .. n
        BY <1>1, <3>1, <3>4
      <4>2. m = w /\ m + (i - w) = i
        BY <1>1, <4>1 DEF Halves
      <4> QED BY <4>1, <4>2 DEF Halves
    <3> HIDE DEF A, R
    <3> QED BY <2>1, <2>3, <3>2, <3>3, <3>4
  <2> QED BY <2>2, <2>3
<1> HIDE DEF A, L, R
<1>6. A = Join(L, R, w)
  BY <1>4, <1>5 DEF Join
<1>7. get_merkle_root(A) = sha256(get_merkle_root(L), get_merkle_root(R))
  <2>1. get_merkle_root(Join(L, R, w)) = sha256(get_merkle_root(L), get_merkle_root(R))
    BY <1>4, MerkleSplit
  <2> QED BY <1>6, <2>1
<1> QED BY <1>7 DEF A, L, R

\* A reduce job whose assertions hold joins two chains.
LEMMA ReduceChain ==
    ASSUME NEW d \in Nat, NEW w, w = Pow2[d], NEW target \in Nat, NEW base \in Nat,
           NEW left, NEW right, NodeOK(left, target, base, w),
           NodeOK(right, target, base + w, w), ReduceAssertions(left, right)
    PROVE  NodeOK(ReduceOutput(left, right), target, base, 2 * w)
PROOF
<1> DEFINE m == Covered(target, base, w)
           n == Covered(target, base + w, w)
           out == ReduceOutput(left, right)
<1>1. w \in Nat \ {0}
  BY Pow2Facts
<1>2. /\ m \in 0 .. w /\ n \in 0 .. w
      /\ n > 0 => m = w
      /\ Covered(target, base, 2 * w) = m + n
  BY <1>1 DEF Covered
<1>3. PICK l : IsChain(l, base, m) /\ IsAbout(left, l, base, m, w)
  BY DEF NodeOK
<1>4. PICK r : IsChain(r, base + w, n) /\ IsAbout(right, r, base + w, n, w)
  BY DEF NodeOK
<1> HIDE DEF m, n
<1> DEFINE hs == [j \in 1 .. m + n |-> IF j <= m THEN l[j] ELSE r[j - m]]
<1>5. m \in Nat /\ n \in Nat /\ m <= w /\ n <= w
  BY <1>1, <1>2
<1>6. \A j \in 1 .. m : hs[j] = l[j]
  BY <1>5
<1>7. ASSUME NEW j \in 1 .. n PROVE hs[m + j] = r[j]
  <2>1. m + j \in 1 .. m + n /\ ~ (m + j <= m) /\ (m + j) - m = j
    BY <1>5
  <2> QED BY <2>1
<1>8. ASSUME NEW j \in 1 .. m + n, ~ (j <= m)
      PROVE  j - m \in 1 .. n /\ m + (j - m) = j /\ n > 0 /\ m = w /\ hs[j] = r[j - m]
  <2>1. j - m \in 1 .. n /\ m + (j - m) = j /\ n > 0
    BY <1>5, <1>8
  <2>2. hs[m + (j - m)] = r[j - m]
    BY <1>7, <2>1
  <2> HIDE DEF hs
  <2> QED BY <1>2, <2>1, <2>2
<1>9. ASSUME NEW j \in 1 .. m + n, j <= m PROVE j \in 1 .. m /\ hs[j] = l[j]
  <2>1. j \in 1 .. m
    BY <1>5, <1>9
  <2> QED BY <1>6, <2>1
<1>10. hs = [j \in 1 .. m + n |-> hs[j]]
  OBVIOUS
<1> HIDE DEF hs
<1>11. /\ left.num_blocks = m /\ right.num_blocks = n
       /\ n > 0 => l[m] = ParentOf[r[1]]
  <2>1. left.num_blocks = m /\ right.num_blocks = n
    BY <1>3, <1>4 DEF IsAbout
  <2>2. ASSUME n > 0 PROVE l[m] = ParentOf[r[1]]
    <3>1. m > 0 /\ n # 0
      BY <1>1, <1>2, <1>5, <2>2
    <3>2. left.end_header_hash = l[m] /\ right.start_parent = ParentOf[r[1]]
      BY <1>3, <1>4, <2>2, <3>1 DEF IsAbout
    <3>3. left.end_header_hash = right.start_parent
      BY <2>1, <3>1 DEF ReduceAssertions
    <3> QED BY <3>2, <3>3
  <2> QED BY <2>1, <2>2
<1>12. IsChain(hs, base, m + n)
  <2>1. ASSUME NEW j \in 1 .. m + n PROVE hs[j] \in Headers /\ NumberOf[hs[j]] = base + j
    <3>1. CASE j <= m
      BY <1>3, <1>9, <3>1 DEF IsChain
    <3>2. CASE ~ (j <= m)
      <4>1. /\ r[j - m] \in Headers /\ NumberOf[r[j - m]] = (base + w) + (j - m)
            /\ m = w /\ hs[j] = r[j - m]
        BY <1>4, <1>8, <3>2 DEF IsChain
      <4> QED BY <1>1, <1>5, <4>1
    <3> QED BY <3>1, <3>2
  <2>2. ASSUME NEW j \in 2 .. m + n PROVE ParentOf[hs[j]] = hs[j - 1]
    <3>1. j \in 1 .. m + n /\ j - 1 \in 1 .. m + n
      BY <1>5
    <3>2. CASE j <= m
      <4>1. j \in 2 .. m /\ j - 1 <= m
        BY <1>5, <3>2
      <4>2. hs[j] = l[j] /\ hs[j - 1] = l[j - 1]
        BY <1>9, <3>1, <3>2, <4>1
      <4> QED BY <1>3, <4>1, <4>2 DEF IsChain
    <3>3. CASE j = m + 1
      <4>1. ~ (j <= m) /\ j - m = 1 /\ j - 1 = m /\ j - 1 <= m
        BY <1>5, <3>3
      <4>2. hs[j] = r[1] /\ n > 0 /\ hs[j - 1] = l[m]
        BY <1>8, <1>9, <3>1, <4>1
      <4> QED BY <1>11, <4>2
    <3>4. CASE j > m + 1
      <4>1. ~ (j <= m) /\ ~ (j - 1 <= m) /\ (j - 1) - m = (j - m) - 1
        BY <1>5, <3>4
      <4>2. /\ hs[j] = r[j - m] /\ hs[j - 1] = r[(j - m) - 1] /\ j - m \in 1 .. n
            /\ (j - m) - 1 \in 1 .. n
        BY <1>8, <3>1, <4>1
      <4>3. j - m \in 2 .. n
        BY <1>5, <4>2
      <4> QED BY <1>4, <4>2, <4>3 DEF IsChain
    <3> QED BY <1>5, <3>2, <3>3, <3>4
  <2>3. hs \in [1 .. m + n -> Headers]
    BY <1>10, <2>1
  <2> QED BY <2>1, <2>2, <2>3 DEF IsChain
<1>13. IsAbout(out, hs, base, m + n, 2 * w)
  <2> DEFINE end == IF right.num_blocks = 0 THEN left ELSE right
  <2>1. /\ out.num_blocks = left.num_blocks + right.num_blocks
        /\ out.start_block = left.start_block /\ out.start_parent = left.start_parent
        /\ out.end_block = end.end_block /\ out.end_header_hash = end.end_header_hash
        /\ out.state_merkle_root = sha256(left.state_merkle_root, right.state_merkle_root)
        /\ out.data_merkle_root = sha256(left.data_merkle_root, right.data_merkle_root)
    BY DEF ReduceOutput
  <2> HIDE DEF out
  <2>2. /\ out.state_merkle_root =
               get_merkle_root(Extended(LeavesOf("state", hs, m + n), 2 * w))
        /\ out.data_merkle_root =
               get_merkle_root(Extended(LeavesOf("data", hs, m + n), 2 * w))
    <3>1. /\ left.state_merkle_root = get_merkle_root(Extended(LeavesOf("state", l, m), w))
          /\ left.data_merkle_root = get_merkle_root(Extended(LeavesOf("data", l, m), w))
          /\ right.state_merkle_root = get_merkle_root(Extended(LeavesOf("state", r, n), w))
          /\ right.data_merkle_root = get_merkle_root(Extended(LeavesOf("data", r, n), w))
      BY <1>3, <1>4 DEF IsAbout
    <3>2. ASSUME NEW kind
          PROVE  get_merkle_root(Extended(LeavesOf(kind, hs, m + n), 2 * w)) =
                     sha256(get_merkle_root(Extended(LeavesOf(kind, l, m), w)),
                            get_merkle_root(Extended(LeavesOf(kind, r, n), w)))
      <4>1. Halves(hs, l, r, m, n, Pow2[d])
        BY <1>2, <1>6, <1>7 DEF Halves
      <4> QED BY <4>1, RootOfHalves
    <3> QED BY <2>1, <3>1, <3>2
  <2>3. CASE n = 0
    <3>1. end = left /\ m + n = m
      BY <1>5, <1>11, <2>3
    <3>2. m > 0 => hs[1] = l[1] /\ hs[m] = l[m]
      BY <1>5, <1>6
    <3> HIDE DEF end
    <3> QED BY <1>3, <1>5, <1>11, <2>1, <2>2, <2>3, <3>1, <3>2 DEF IsAbout
  <2>4. CASE n > 0
    <3>1. end = right /\ m = w /\ m > 0 /\ m + n > 0 /\ m + n # 0
      BY <1>1, <1>2, <1>5, <1>11, <2>4
    <3>2. hs[1] = l[1] /\ hs[m + n] = r[n]
      BY <1>5, <1>6, <1>7, <2>4, <3>1
    <3>3. /\ left.start_block = base + 1 /\ left.start_parent = ParentOf[l[1]]
          /\ right.end_block = (base + w) + n /\ right.end_header_hash = r[n]
      BY <1>3, <1>4, <2>4, <3>1 DEF IsAbout
    <3>4. (base + w) + n = base + (m + n)
      BY <1>1, <1>5, <3>1
    <3> HIDE DEF end
    <3> QED BY <1>11, <2>1, <2>2, <3>1, <3>2, <3>3, <3>4 DEF IsAbout
  <2> QED BY <1>5, <2>3, <2>4
<1> QED BY <1>2, <1>12, <1>13 DEF NodeOK

-----------------------------------------------------------------------------
(* The output.                                                             *)

\* Ancestor walks along the parents.
LEMMA AncestorIs ==
    ASSUME NEW c \in Nat, NEW chain, NEW n \in 0 .. c,
           \A k \in 0 .. c - 1 : chain[k] \in Headers /\ ParentOf[chain[k]] = chain[k + 1]
    PROVE  Ancestor(chain[0], n) = chain[n]
PROOF
<1> DEFINE Body(f, k) == IF k = 0 THEN chain[0]
                         ELSE IF f[k - 1] = ZeroHash THEN ZeroHash ELSE ParentOf[f[k - 1]]
           P(f) == f = [k \in 0 .. n |-> Body(f, k)]
           walk == [k \in 0 .. n |-> chain[k]]
           up == CHOOSE f : P(f)
<1>1. n \in Nat /\ n <= c /\ ZeroHash \notin Headers
  BY SubchainAssumption
<1>2. ASSUME NEW k \in 1 .. n
      PROVE  k - 1 \in 0 .. n /\ chain[k - 1] # ZeroHash /\ ParentOf[chain[k - 1]] = chain[k]
  <2>1. k - 1 \in 0 .. n /\ k - 1 \in 0 .. c - 1 /\ (k - 1) + 1 = k
    BY <1>1
  <2> QED BY <1>1, <2>1
<1>3. P(walk)
  <2>1. ASSUME NEW k \in 0 .. n PROVE walk[k] = Body(walk, k)
    <3>1. CASE k = 0
      BY <3>1
    <3>2. CASE k # 0
      <4>1. k \in 1 .. n
        BY <1>1, <3>2
      <4>2. walk[k] = chain[k] /\ walk[k - 1] = chain[k - 1]
        BY <1>2, <4>1
      <4> HIDE DEF walk
      <4> QED BY <1>2, <3>2, <4>1, <4>2
    <3> QED BY <3>1, <3>2
  <2>2. walk = [k \in 0 .. n |-> walk[k]]
    OBVIOUS
  <2> HIDE DEF walk, Body
  <2> QED BY <2>1, <2>2
<1>4. P(up)
  <2> HIDE DEF P, walk
  <2> QED BY <1>3
<1>5. Ancestor(chain[0], n) = up[n]
  BY DEF Ancestor
<1> HIDE DEF up
<1>6. \A k \in 0 .. n : up[k] = Body(up, k)
  <2> HIDE DEF Body
  <2> QED BY <1>4
<1> DEFINE S == {k \in 0 .. n : up[k] = chain[k]}
<1>7. 0 \in S
  BY <1>1, <1>6
<1>8. ASSUME NEW k \in 0 .. n - 1, k \in S PROVE k + 1 \in S
  <2>1. k + 1 \in 0 .. n /\ k + 1 \in 1 .. n /\ k + 1 # 0 /\ (k + 1) - 1 = k
    BY <1>1
  <2>2. up[k + 1] = Body(up, k + 1)
    BY <1>6, <2>1
  <2>3. chain[k] # ZeroHash /\ ParentOf[chain[k]] = chain[k + 1]
    BY <1>2, <2>1
  <2> QED BY <1>8, <2>1, <2>2, <2>3
<1> HIDE DEF S
<1>9. \A k \in 0 .. n : k \in S
  BY <1>1, <1>7, <1>8, UpTo
<1>10. n \in 0 .. n
  BY <1>1
<1> QED BY <1>5, <1>9, <1>10 DEF S

\* What OutputIsAChain says of a target header and two commitments.
IsOutput(target, state, data) ==
    LET length == target_block - trusted_block
    IN /\ length \in 1 .. MaxLeaves
       /\ target \in Headers
       /\ Ancestor(target, length) = trusted_header
       /\ \A i \in 0 .. length : NumberOf[Ancestor(target, i)] = target_block - i
       /\ state = CommitmentTo("state", target, length)
       /\ data = CommitmentTo("data", target, length)

\* The last two assertions tie the chain of the root to the inputs.
LEMMA FinalChain ==
    ASSUME InputsOK, NEW root, NodeOK(root, target_block, trusted_block, MaxLeaves),
           FinalAssertions(root)
    PROVE  IsOutput(root.end_header_hash, root.state_merkle_root, root.data_merkle_root)
PROOF
<1> DEFINE c == Covered(target_block, trusted_block, MaxLeaves)
<1>1. /\ trusted_block \in Nat /\ target_block \in Nat \ {0} /\ MaxLeaves \in Nat \ {0}
      /\ NumberOf[trusted_header] = trusted_block /\ trusted_header \in Headers
  BY Constants, SubchainAssumption DEF InputsOK
<1>2. PICK hs : /\ IsChain(hs, trusted_block, c)
                /\ IsAbout(root, hs, trusted_block, c, MaxLeaves)
  BY DEF NodeOK
<1>3. c \in 0 .. MaxLeaves
  BY <1>1 DEF Covered
<1> HIDE DEF c
<1>4. c # 0
  BY <1>1, <1>2 DEF IsAbout, FinalAssertions
<1>5. c \in Nat \ {0} /\ c > 0
  BY <1>1, <1>3, <1>4
<1>6. /\ root.start_parent = ParentOf[hs[1]] /\ root.end_block = trusted_block + c
      /\ root.end_header_hash = hs[c]
      /\ root.state_merkle_root =
             get_merkle_root(Extended(LeavesOf("state", hs, c), MaxLeaves))
      /\ root.data_merkle_root =
             get_merkle_root(Extended(LeavesOf("data", hs, c), MaxLeaves))
  BY <1>2, <1>5 DEF IsAbout
<1>7. target_block = trusted_block + c /\ ParentOf[hs[1]] = trusted_header
  BY <1>6 DEF FinalAssertions
<1>8. target_block - trusted_block = c /\ c \in 1 .. MaxLeaves
  BY <1>1, <1>3, <1>5, <1>7
<1>9. \A j \in 1 .. c : hs[j] \in Headers /\ NumberOf[hs[j]] = trusted_block + j
  BY <1>2 DEF IsChain
<1> DEFINE chain == [k \in 0 .. c |-> IF k = c THEN trusted_header ELSE hs[c - k]]
<1>10. /\ chain[0] = hs[c] /\ chain[c] = trusted_header
       /\ \A k \in 0 .. c - 1 : chain[k] = hs[c - k] /\ c - k \in 1 .. c
  BY <1>5
<1> HIDE DEF chain
<1>11. ASSUME NEW k \in 0 .. c - 1
       PROVE  chain[k] \in Headers /\ ParentOf[chain[k]] = chain[k + 1]
  <2>1. CASE k = c - 1
    <3>1. c - k = 1 /\ k + 1 = c
      BY <1>5, <2>1
    <3> QED BY <1>7, <1>9, <1>10, <3>1
  <2>2. CASE k # c - 1
    <3>1. k + 1 \in 0 .. c - 1 /\ c - (k + 1) = (c - k) - 1 /\ c - k \in 2 .. c
      BY <1>5, <2>2
    <3>2. ParentOf[hs[c - k]] = hs[(c - k) - 1]
      BY <1>2, <3>1 DEF IsChain
    <3> QED BY <1>9, <1>10, <3>1, <3>2
  <2> QED BY <2>1, <2>2
<1>12. \A n \in 0 .. c : Ancestor(hs[c], n) = chain[n]
  <2> TAKE n \in 0 .. c
  <2>1. Ancestor(chain[0], n) = chain[n]
    BY <1>5, <1>11, AncestorIs
  <2> QED BY <1>10, <2>1
<1>13. Ancestor(hs[c], c) = trusted_header
  <2>1. c \in 0 .. c
    BY <1>5
  <2> QED BY <1>10, <1>12, <2>1
<1>14. ASSUME NEW i \in 0 .. c PROVE NumberOf[Ancestor(hs[c], i)] = target_block - i
  <2>1. CASE i = c
    BY <1>1, <1>5, <1>7, <1>13, <2>1
  <2>2. CASE i # c
    <3>1. i \in 0 .. c - 1
      BY <1>5, <2>2
    <3>2. NumberOf[Ancestor(hs[c], i)] = trusted_block + (c - i)
      BY <1>9, <1>10, <1>12, <3>1
    <3> QED BY <1>1, <1>5, <1>7, <3>2
  <2> QED BY <2>1, <2>2
<1>15. ASSUME NEW kind
       PROVE  CommitmentTo(kind, hs[c], c) =
                  get_merkle_root(Extended(LeavesOf(kind, hs, c), MaxLeaves))
  <2>1. ASSUME NEW i \in 1 .. c PROVE Ancestor(hs[c], c - i) = hs[i]
    <3>1. c - i \in 0 .. c - 1 /\ c - i \in 0 .. c /\ c - (c - i) = i
      BY <1>5
    <3> QED BY <1>10, <1>12, <3>1
  <2>2. [i \in 1 .. c |-> Leaf(kind, Ancestor(hs[c], c - i))] = LeavesOf(kind, hs, c)
    BY <2>1 DEF LeavesOf
  <2> QED BY <2>2 DEF CommitmentTo
<1>16. hs[c] \in Headers
  <2>1. c \in 1 .. c
    BY <1>5
  <2> QED BY <1>9, <2>1
<1> QED BY <1>6, <1>8, <1>13, <1>14, <1>15, <1>16 DEF IsOutput

-----------------------------------------------------------------------------
(* The fetcher.                                                            *)

\* Concatenation by index.
LEMMA ConcatFacts ==
    ASSUME NEW S, NEW a \in Seq(S), NEW b \in Seq(S)
    PROVE  /\ a \o b \in Seq(S) /\ Len(a \o b) = Len(a) + Len(b)
           /\ \A i \in 1 .. Len(a) : (a \o b)[i] = a[i]
           /\ \A i \in Len(a) + 1 .. Len(a) + Len(b) : (a \o b)[i] = b[i - Len(a)]
PROOF OBVIOUS

\* Sequences with the same elements are equal.
LEMMA SameSequence ==
    ASSUME NEW S, NEW a \in Seq(S), NEW b \in Seq(S), Len(a) = Len(b),
           \A i \in 1 .. Len(a) : a[i] = b[i]
    PROVE  a = b
PROOF OBVIOUS

\* n finalized headers from block `first` on.
AreHeaders(s, first, n) ==
    /\ s \in Seq(Headers) /\ Len(s) = n
    /\ \A i \in 1 .. n : s[i] = Canonical[first + i - 1]

\* One batch of the fetcher.
LEMMA HeadersOf ==
    ASSUME NEW first \in Nat, NEW last \in Nat, first <= last, last <= MaxBlock
    PROVE  AreHeaders(get_headers(first, last), first, last - first + 1)
PROOF
<1>1. /\ Canonical \in [0 .. MaxBlock -> Headers] /\ MaxBlock \in Nat
      /\ last - first + 1 \in Nat
  BY SubchainAssumption
<1>2. ASSUME NEW i \in 1 .. last - first + 1 PROVE Canonical[first + i - 1] \in Headers
  <2>1. first + i - 1 \in 0 .. MaxBlock
    BY <1>1
  <2> QED BY <1>1, <2>1
<1>3. get_headers(first, last) \in [1 .. last - first + 1 -> Headers]
  BY <1>2 DEF get_headers
<1>4. \A i \in 1 .. last - first + 1 :
          get_headers(first, last)[i] = Canonical[first + i - 1]
  BY DEF get_headers
<1> QED BY <1>1, <1>3, <1>4, LenOf DEF AreHeaders

\* Neighbouring ranges.
LEMMA HeadersJoin ==
    ASSUME NEW first \in Nat, NEW mid \in Nat, NEW last \in Nat,
           first <= mid, mid < last, last <= MaxBlock
    PROVE  get_headers(first, mid) \o get_headers(mid + 1, last) = get_headers(first, last)
PROOF
<1> DEFINE a == get_headers(first, mid)
           b == get_headers(mid + 1, last)
           c == get_headers(first, last)
           m == mid - first + 1
           n == last - mid
<1>1. /\ MaxBlock \in Nat /\ m \in Nat /\ n \in Nat /\ mid + 1 \in Nat /\ mid + 1 <= last
      /\ mid <= MaxBlock /\ first <= last /\ m + n = last - first + 1
      /\ last - (mid + 1) + 1 = n
  BY SubchainAssumption
<1>2. AreHeaders(a, first, m)
  BY <1>1, HeadersOf
<1>3. AreHeaders(b, mid + 1, n)
  <2>1. AreHeaders(b, mid + 1, last - (mid + 1) + 1)
    BY <1>1, HeadersOf
  <2> QED BY <1>1, <2>1
<1>4. AreHeaders(c, first, m + n)
  <2>1. AreHeaders(c, first, last - first + 1)
    BY <1>1, HeadersOf
  <2> QED BY <1>1, <2>1
<1> HIDE DEF a, b, c
<1>5. a \in Seq(Headers) /\ b \in Seq(Headers) /\ Len(a) = m /\ Len(b) = n
  BY <1>2, <1>3 DEF AreHeaders
<1> DEFINE ab == a \o b
<1>6. /\ ab \in Seq(Headers) /\ Len(ab) = m + n
      /\ \A i \in 1 .. m : ab[i] = a[i]
      /\ \A i \in m + 1 .. m + n : ab[i] = b[i - m]
  <2> HIDE DEF m, n
  <2>1. /\ a \o b \in Seq(Headers) /\ Len(a \o b) = Len(a) + Len(b)
        /\ \A i \in 1 .. Len(a) : (a \o b)[i] = a[i]
        /\ \A i \in Len(a) + 1 .. Len(a) + Len(b) : (a \o b)[i] = b[i - Len(a)]
    BY <1>5, ConcatFacts, Zenon
  <2> QED BY <1>5, <2>1
<1> HIDE DEF ab
<1>7. c \in Seq(Headers) /\ Len(c) = m + n
  BY <1>4 DEF AreHeaders
<1>8. ASSUME NEW i \in 1 .. m + n PROVE ab[i] = c[i]
  <2>1. c[i] = Canonical[first + i - 1]
    BY <1>4 DEF AreHeaders
  <2>2. CASE i <= m
    <3>1. i \in 1 .. m
      BY <1>1, <2>2
    <3>2. a[i] = Canonical[first + i - 1]
      BY <1>2, <3>1 DEF AreHeaders
    <3> QED BY <1>6, <2>1, <3>1, <3>2
  <2>3. CASE i > m
    <3>1. /\ i \in m + 1 .. m + n /\ i - m \in 1 .. n
          /\ (mid + 1) + (i - m) - 1 = first + i - 1
      BY <1>1, <2>3
    <3>2. b[i - m] = Canonical[first + i - 1]
      BY <1>3, <3>1 DEF AreHeaders
    <3>3. ab[i] = b[i - m]
      <4> HIDE DEF m, n
      <4> QED BY <1>6, <3>1
    <3> QED BY <2>1, <3>2, <3>3
  <2> QED BY <1>1, <2>2, <2>3
<1>9. ab = c
  <2> HIDE DEF m, n
  <2> QED BY <1>6, <1>7, <1>8, SameSequence
<1> QED BY <1>9 DEF a, b, c, ab

\* Whatever the batch size, the batches are the headers of the range.
LEMMA HeadersRangeIs ==
    ASSUME NEW start \in Nat, NEW end \in Nat, start <= end, end <= MaxBlock
    PROVE  get_block_headers_range(start, end) = get_headers(start, end)
PROOF
<1> DEFINE M == MAX_CONCURRENT_WS_REQUESTS
           EndOf(c) == IF c + M - 1 < end THEN c + M - 1 ELSE end
           Body(f, c) == IF c > end THEN << >>
                         ELSE get_headers(c, EndOf(c)) \o f[c + M]
           D == start .. end + M
           P(f) == f = [c \in D |-> Body(f, c)]
           F == [c \in D |-> IF c > end THEN << >> ELSE get_headers(c, end)]
           all == CHOOSE f : P(f)
<1>1. M \in Nat \ {0}
  BY RequestsAssumption
<1>2. ASSUME NEW c \in D, ~ (c > end)
      PROVE  /\ c \in Nat /\ c <= end /\ c + M \in D
             /\ get_headers(c, EndOf(c)) \o F[c + M] = get_headers(c, end)
  <2>1. c \in Nat /\ c <= end /\ c + M \in D
    BY <1>1, <1>2
  <2>2. CASE c + M - 1 < end
    <3>1. /\ EndOf(c) = c + M - 1 /\ c + M - 1 \in Nat /\ (c + M - 1) + 1 = c + M
          /\ c <= c + M - 1 /\ ~ (c + M > end)
      BY <1>1, <2>1, <2>2
    <3>2. F[c + M] = get_headers(c + M, end)
      BY <2>1, <3>1
    <3>3. get_headers(c, c + M - 1) \o get_headers((c + M - 1) + 1, end) =
              get_headers(c, end)
      BY <2>1, <2>2, <3>1, HeadersJoin
    <3> HIDE DEF F, EndOf
    <3> QED BY <2>1, <3>1, <3>2, <3>3
  <2>3. CASE ~ (c + M - 1 < end)
    <3>1. EndOf(c) = end /\ c + M > end
      BY <1>1, <2>1, <2>3
    <3>2. F[c + M] = << >>
      BY <2>1, <3>1
    <3>3. get_headers(c, end) \in Seq(Headers)
      BY <2>1, HeadersOf DEF AreHeaders
    <3>4. get_headers(c, end) \o << >> = get_headers(c, end)
      BY <3>3
    <3> HIDE DEF F, EndOf
    <3> QED BY <2>1, <3>1, <3>2, <3>4
  <2> QED BY <2>2, <2>3
<1>3. P(F)
  <2>1. ASSUME NEW c \in D PROVE F[c] = Body(F, c)
    <3>1. CASE c > end
      BY <3>1
    <3>2. CASE ~ (c > end)
      <4>1. F[c] = get_headers(c, end)
        BY <3>2
      <4> HIDE DEF F, EndOf
      <4> QED BY <1>2, <3>2, <4>1
    <3> QED BY <3>1, <3>2
  <2>2. F = [c \in D |-> F[c]]
    OBVIOUS
  <2> HIDE DEF F, Body, D
  <2> QED BY <2>1, <2>2
<1>4. P(all)
  <2> HIDE DEF P, F
  <2> QED BY <1>3
<1>5. get_block_headers_range(start, end) = all[start]
  BY DEF get_block_headers_range
<1> HIDE DEF all
<1>6. \A c \in D : all[c] = Body(all, c)
  <2> HIDE DEF Body, D
  <2> QED BY <1>4
<1>7. \A c \in D : all[c] = F[c]
  <2> DEFINE T == {k \in Nat : \E c \in D : k = end + M - c /\ all[c] # F[c]}
  <2> SUFFICES ASSUME NEW c0 \in D, all[c0] # F[c0] PROVE FALSE
    OBVIOUS
  <2>1. end + M - c0 \in T
    BY <1>1
  <2>2. PICK k \in T : \A x \in T : k <= x
    <3>1. T \subseteq Nat /\ T # {}
      BY <2>1
    <3> HIDE DEF T
    <3> QED BY <3>1, LeastNumber
  <2>3. PICK c \in D : k = end + M - c /\ all[c] # F[c]
    BY <2>2
  <2>4. CASE c > end
    <3>1. Body(all, c) = << >> /\ F[c] = << >>
      BY <2>4
    <3> HIDE DEF Body, F
    <3> QED BY <1>6, <2>3, <3>1
  <2>5. CASE ~ (c > end)
    <3>1. /\ c \in Nat /\ c + M \in D
          /\ get_headers(c, EndOf(c)) \o F[c + M] = get_headers(c, end)
      BY <1>2, <2>5
    <3>2. all[c + M] = F[c + M]
      <4> SUFFICES ASSUME all[c + M] # F[c + M] PROVE FALSE
        OBVIOUS
      <4>1. end + M - (c + M) \in Nat /\ end + M - (c + M) < k
        BY <1>1, <2>3, <2>5, <3>1
      <4>2. end + M - (c + M) \in T
        BY <3>1, <4>1
      <4>3. k \in Nat
        BY <2>2
      <4> HIDE DEF T
      <4> QED BY <2>2, <4>1, <4>2, <4>3
    <3>3. F[c] = get_headers(c, end)
      BY <2>5
    <3>4. all[c] = get_headers(c, EndOf(c)) \o all[c + M]
      BY <1>6, <2>5
    <3> HIDE DEF F, EndOf
    <3> QED BY <2>3, <3>1, <3>2, <3>3, <3>4
  <2> QED BY <2>4, <2>5
<1>8. start \in D /\ ~ (start > end)
  BY <1>1
<1>9. F[start] = get_headers(start, end)
  BY <1>8
<1> QED BY <1>5, <1>7, <1>8, <1>9

\* What ProofIsCanonical says of the input set and the outputs.
IsProof(id, evm_output) ==
    /\ target_block \in DOMAIN Canonical
    /\ trusted_header = Canonical[trusted_block]
    /\ id = SignerOf[target_block]
    /\ ~ CommitmentsPanic(MaxLeaves, trusted_block, target_block)
    /\ evm_output = DummyHeaderRange

\* A chain that ends at a header which the set voted for is finalized, and
\* what the fetcher commits to.
LEMMA JustifiedChain ==
    ASSUME InputsOK, NEW id, NEW target, NEW state, NEW data,
           NEW n \in DOMAIN Canonical,
           IsOutput(target, state, data),
           verify_simple_justification(target_block, target, id, VotesOfSet(n))
    PROVE  IsProof(id, <<target, state, data>>)
PROOF
<1> DEFINE length == target_block - trusted_block
           headers == get_headers(trusted_block + 1, target_block)
<1>1. /\ trusted_block \in Nat /\ target_block \in Nat /\ MaxLeaves \in Nat
      /\ MaxBlock \in Nat /\ Canonical \in [0 .. MaxBlock -> Headers]
      /\ \A i \in 1 .. MaxBlock : ParentOf[Canonical[i]] = Canonical[i - 1]
  BY Constants, SubchainAssumption DEF InputsOK
<1>2. /\ length \in 1 .. MaxLeaves /\ Ancestor(target, length) = trusted_header
      /\ state = CommitmentTo("state", target, length)
      /\ data = CommitmentTo("data", target, length)
  BY DEF IsOutput
<1>3. /\ target_block \in DOMAIN Canonical /\ target = Canonical[target_block]
      /\ id = SignerOf[target_block]
  BY DEF verify_simple_justification, VotesOfSet, Justification
<1>4. target_block <= MaxBlock /\ trusted_block < target_block
  BY <1>1, <1>2, <1>3
<1>5. ~ CommitmentsPanic(MaxLeaves, trusted_block, target_block)
  <2>1. ~ (target_block - trusted_block > MaxLeaves)
    BY <1>1, <1>2
  <2> QED BY <2>1, Constants DEF CommitmentsPanic
<1>6. \A i \in 0 .. target_block : Ancestor(target, i) = Canonical[target_block - i]
  <2> DEFINE chain == [k \in 0 .. target_block |-> Canonical[target_block - k]]
  <2>1. ASSUME NEW k \in 0 .. target_block - 1
        PROVE  chain[k] \in Headers /\ ParentOf[chain[k]] = chain[k + 1]
    <3>1. /\ k \in 0 .. target_block /\ k + 1 \in 0 .. target_block
          /\ target_block - k \in 1 .. MaxBlock /\ target_block - k \in 0 .. MaxBlock
          /\ target_block - (k + 1) = (target_block - k) - 1
      BY <1>1, <1>4
    <3>2. chain[k] = Canonical[target_block - k]
      BY <3>1
    <3>3. chain[k + 1] = Canonical[(target_block - k) - 1]
      BY <3>1
    <3> HIDE DEF chain
    <3> QED BY <1>1, <3>1, <3>2, <3>3
  <2>2. chain[0] = target
    BY <1>1, <1>3
  <2> TAKE i \in 0 .. target_block
  <2>3. chain[i] = Canonical[target_block - i]
    OBVIOUS
  <2> HIDE DEF chain
  <2>4. \A k \in 0 .. target_block - 1 :
            chain[k] \in Headers /\ ParentOf[chain[k]] = chain[k + 1]
    BY <2>1
  <2>5. target_block \in Nat
    BY <1>1
  <2>6. Ancestor(chain[0], i) = chain[i]
    BY <2>4, <2>5, AncestorIs
  <2> QED BY <2>2, <2>3, <2>6
<1>7. trusted_header = Canonical[trusted_block]
  <2>1. length \in 0 .. target_block /\ target_block - length = trusted_block
    BY <1>1, <1>2
  <2> QED BY <1>2, <1>6, <2>1
<1>8. get_block_headers_range(trusted_block + 1, target_block) = headers
  BY <1>1, <1>4, HeadersRangeIs
<1>9. /\ DOMAIN headers = 1 .. length
      /\ \A i \in 1 .. length : headers[i] = Canonical[trusted_block + i]
  <2>1. /\ target_block - (trusted_block + 1) + 1 = length
        /\ \A i \in 1 .. length : (trusted_block + 1) + i - 1 = trusted_block + i
    BY <1>1
  <2> QED BY <2>1 DEF get_headers
<1>10. ASSUME NEW kind
       PROVE  CommitmentTo(kind, target, length) = get_merkle_root(
                  Extended([i \in DOMAIN headers |-> Leaf(kind, headers[i])], MaxLeaves))
  <2>1. ASSUME NEW i \in 1 .. length PROVE Ancestor(target, length - i) = headers[i]
    <3>1. /\ length - i \in 0 .. target_block
          /\ target_block - (length - i) = trusted_block + i
      BY <1>1, <1>4
    <3> QED BY <1>6, <1>9, <3>1
  <2> HIDE DEF length, headers
  <2>2. [i \in 1 .. length |-> Leaf(kind, Ancestor(target, length - i))] =
            [i \in DOMAIN headers |-> Leaf(kind, headers[i])]
    BY <1>9, <2>1
  <2> QED BY <2>2 DEF CommitmentTo
<1>11. get_merkle_root_commitments(MaxLeaves, trusted_block, target_block) = <<state, data>>
  <2> HIDE DEF headers, length
  <2> QED BY <1>2, <1>8, <1>10 DEF get_merkle_root_commitments
<1>12. <<target, state, data>> = DummyHeaderRange
  BY <1>3, <1>11 DEF DummyHeaderRange
<1> QED BY <1>3, <1>5, <1>7, <1>12 DEF IsProof

-----------------------------------------------------------------------------
(* Invariance.                                                             *)

\* No job is done at first.
LEMMA InitIInv == Init => IInv
PROOF
<1> SUFFICES ASSUME Init PROVE IInv
  OBVIOUS
<1>1. /\ trusted_header \in Headers /\ trusted_block = NumberOf[trusted_header]
      /\ trusted_block \in Nat
  BY SubchainAssumption DEF Init, SubchainInit
<1>2. /\ target_block \in Nat \ {0}
      /\ prover = "repository" => target_block <= MaxBlock
  <2>1. CASE /\ prover = "repository" /\ target_block \in DOMAIN Canonical
             /\ HonestRequest
    <3>1. target_block \in 0 .. MaxBlock /\ MaxBlock \in Nat /\ trusted_block < target_block
      BY <2>1, SubchainAssumption DEF HonestRequest
    <3> QED BY <1>1, <3>1
  <2>2. CASE prover = "any" /\ target_block \in {NumberOf[h] : h \in AnyHeaders} \ {0}
    <3>1. \A h \in AnyHeaders : NumberOf[h] \in Nat
      BY SubchainAssumption
    <3> QED BY <2>2, <3>1
  <2> QED BY <2>1, <2>2 DEF Init, SubchainInit
<1>3. node = [level \in 0 .. Levels |-> [i \in 1 .. Width(level) |-> None]]
  BY DEF Init, SubchainInit
<1>4. NodesOK
  BY <1>3 DEF NodesOK, None
<1>5. ~ output.done /\ ~ proof.done
  BY DEF Init, SubchainInit, None
<1> QED BY <1>1, <1>2, <1>4, <1>5 DEF IInv, InputsOK, OutputIsAChain, ProofIsCanonical

\* A job that is done about a chain keeps all nodes so.
LEMMA NodeUpdate ==
    ASSUME NodesOK, NEW level \in 0 .. Levels, NEW i \in 1 .. Width(level), NEW out,
           node' = [node EXCEPT ![level][i] = out],
           UNCHANGED <<trusted_block, target_block>>,
           NodeOK(out, target_block, Base(level, i), Reach(level))
    PROVE  NodesOK'
PROOF
<1> DEFINE D == 0 .. Levels
           upd == [j \in 1 .. Width(level) |-> IF j = i THEN out ELSE node[level][j]]
<1>1. /\ node = [l \in D |-> node[l]]
      /\ \A l \in D : node[l] = [j \in 1 .. Width(l) |-> node[l][j]]
  BY DEF NodesOK
<1>2. node' = [l \in D |-> IF l = level THEN upd ELSE node[l]]
  BY <1>1
<1> HIDE DEF D
<1>3. /\ node' = [l \in D |-> node'[l]] /\ node'[level] = upd
      /\ \A l \in D : l # level => node'[l] = node[l]
  BY <1>2 DEF D
<1>4. \A l \in D : node'[l] = [j \in 1 .. Width(l) |-> node'[l][j]]
  <2> TAKE l \in D
  <2>1. CASE l = level
    BY <1>3, <2>1
  <2>2. CASE l # level
    BY <1>1, <1>3, <2>2
  <2> QED BY <2>1, <2>2
<1>5. node' = [l \in D |-> [j \in 1 .. Width(l) |-> node'[l][j]]]
  BY <1>3, <1>4
<1>6. ASSUME NEW l \in D, NEW j \in 1 .. Width(l), node'[l][j].done
      PROVE  NodeOK(node'[l][j], target_block', Base(l, j)', Reach(l))
  <2>1. target_block' = target_block /\ Base(l, j)' = Base(l, j)
    BY DEF Base
  <2>2. CASE l = level /\ j = i
    <3>1. node'[l][j] = out
      BY <1>3, <2>2
    <3> QED BY <2>1, <2>2, <3>1
  <2>3. CASE ~ (l = level /\ j = i)
    <3>1. node'[l][j] = node[l][j]
      BY <1>3, <2>3
    <3> QED BY <1>6, <2>1, <3>1 DEF NodesOK, D
  <2> QED BY <2>2, <2>3
<1> QED BY <1>5, <1>6 DEF NodesOK, D

\* A map job, on the headers of the hint or on any others.
LEMMA MapIInv == IInv /\ MapStep /\ UNCHANGED proof => IInv'
PROOF
<1> SUFFICES ASSUME IInv, MapStep, UNCHANGED proof PROVE IInv'
  OBVIOUS
<1>1. PICK job \in Jobs, headers \in [Slots -> Headers] : map(job, headers)
  <2>1. PICK job \in Jobs :
            \/ prover = "repository" /\ map(job, HeaderRangeFetcherHint(job))
            \/ prover = "any" /\ \E headers \in [Slots -> AnyHeaders] : map(job, headers)
    BY DEF MapStep
  <2>2. job \in Nat \ {0}
    BY Constants, Pow2Facts DEF Jobs, NumMapJobs
  <2>3. CASE prover = "repository" /\ map(job, HeaderRangeFetcherHint(job))
    <3>1. /\ target_block \in Nat /\ target_block <= MaxBlock /\ MaxBlock \in Nat
          /\ Base(0, job) \in Nat /\ batch_start_block(job) = Base(0, job) + 1
          /\ Canonical \in [0 .. MaxBlock -> Headers] /\ EmptyHeader \in Headers
          /\ HEADERS_PER_MAP \in Nat
      BY <2>2, <2>3, BatchBlocks, SubchainAssumption DEF IInv, InputsOK
    <3>2. ASSUME NEW i \in Slots, batch_start_block(job) + i - 1 <= target_block
          PROVE  Canonical[batch_start_block(job) + i - 1] \in Headers
      <4>1. batch_start_block(job) + i - 1 \in 0 .. MaxBlock
        BY <3>1, <3>2 DEF Slots
      <4> QED BY <3>1, <4>1
    <3>3. HeaderRangeFetcherHint(job) \in [Slots -> Headers]
      BY <3>1, <3>2 DEF HeaderRangeFetcherHint
    <3> QED BY <2>3, <3>3
  <2>4. CASE prover = "any" /\ \E headers \in [Slots -> AnyHeaders] : map(job, headers)
    <3>1. AnyHeaders \subseteq Headers
      BY SubchainAssumption
    <3> QED BY <2>4, <3>1
  <2> QED BY <2>1, <2>3, <2>4
<1>2. job \in Nat \ {0} /\ 0 \in 0 .. Levels /\ job \in 1 .. Width(0)
  <2>1. Levels \in Nat
    BY Constants
  <2>2. Levels - 0 = Levels /\ Pow2[Levels] \in Nat
    BY <2>1, Pow2Facts
  <2> QED BY <2>1, <2>2 DEF Jobs, NumMapJobs, Width
<1>3. /\ MapAssertions(job, headers)
      /\ node' = [node EXCEPT ![0][job] = MapOutput(job, headers)]
      /\ UNCHANGED <<inputs, output>>
  BY <1>1 DEF map
<1>4. NodeOK(MapOutput(job, headers), target_block, Base(0, job), Reach(0))
  BY <1>2, <1>3, MapChain DEF IInv
<1>5. UNCHANGED <<trusted_block, target_block>>
  BY <1>3 DEF inputs
<1>6. NodesOK'
  BY <1>2, <1>3, <1>4, <1>5, NodeUpdate DEF IInv
<1> QED BY <1>3, <1>6
        DEF IInv, InputsOK, OutputIsAChain, ProofIsCanonical, DummyHeaderRange, inputs

\* A reduce job, on two neighbours.
LEMMA ReduceIInv == IInv /\ ReduceStep /\ UNCHANGED proof => IInv'
PROOF
<1> SUFFICES ASSUME IInv, ReduceStep, UNCHANGED proof PROVE IInv'
  OBVIOUS
<1>0. PICK level \in 1 .. Levels : \E i \in 1 .. Width(level) : reduce(level, i)
  BY DEF ReduceStep
<1>1. PICK i \in 1 .. Width(level) : reduce(level, i)
  BY <1>0
<1> DEFINE left == node[level - 1][2 * i - 1]
           right == node[level - 1][2 * i]
           w == Reach(level - 1)
           base == Base(level, i)
<1>2. /\ left.done /\ right.done /\ ReduceAssertions(left, right)
      /\ node' = [node EXCEPT ![level][i] = ReduceOutput(left, right)]
      /\ UNCHANGED <<inputs, output>>
  BY <1>1 DEF reduce
<1>3. /\ Levels \in Nat /\ level - 1 \in Nat /\ (level - 1) + 1 = level
      /\ level - 1 \in 0 .. Levels /\ level \in 0 .. Levels
      /\ Levels - level \in Nat /\ (Levels - level) + 1 = Levels - (level - 1)
  BY Constants
<1>4. Width(level) \in Nat /\ Width(level - 1) = 2 * Width(level)
  BY <1>3, Pow2Facts DEF Width
<1>5. 2 * i - 1 \in 1 .. Width(level - 1) /\ 2 * i \in 1 .. Width(level - 1) /\ i \in Nat \ {0}
  BY <1>4
<1>6. /\ w \in Nat \ {0} /\ Reach(level) = 2 * w /\ \E d \in Nat : w = Pow2[d]
      /\ trusted_block \in Nat /\ target_block \in Nat
  BY <1>3, Constants, SubchainAssumption DEF IInv, InputsOK
<1>7. base \in Nat /\ Base(level - 1, 2 * i - 1) = base /\ Base(level - 1, 2 * i) = base + w
  <2>1. \A x \in Nat \ {0}, y \in Nat :
            /\ (x - 1) * (2 * y) \in Nat
            /\ ((2 * x - 1) - 1) * y = (x - 1) * (2 * y)
            /\ (2 * x - 1) * y = (x - 1) * (2 * y) + y
    OBVIOUS
  <2> HIDE DEF w
  <2>2. /\ (i - 1) * (2 * w) \in Nat
        /\ ((2 * i - 1) - 1) * w = (i - 1) * (2 * w)
        /\ (2 * i - 1) * w = (i - 1) * (2 * w) + w
    BY <1>5, <1>6, <2>1
  <2>3. /\ base = trusted_block + (i - 1) * (2 * w)
        /\ Base(level - 1, 2 * i - 1) = trusted_block + ((2 * i - 1) - 1) * w
        /\ Base(level - 1, 2 * i) = trusted_block + (2 * i - 1) * w
    BY <1>6 DEF Base, w
  <2> QED BY <1>6, <2>2, <2>3
<1>8. NodeOK(left, target_block, base, w) /\ NodeOK(right, target_block, base + w, w)
  <2>1. /\ NodeOK(left, target_block, Base(level - 1, 2 * i - 1), w)
        /\ NodeOK(right, target_block, Base(level - 1, 2 * i), w)
    BY <1>2, <1>3, <1>5 DEF IInv, NodesOK
  <2> QED BY <1>7, <2>1
<1> HIDE DEF left, right, w, base
<1>9. NodeOK(ReduceOutput(left, right), target_block, base, 2 * w)
  BY <1>2, <1>6, <1>7, <1>8, ReduceChain
<1>10. NodesOK'
  <2>1. UNCHANGED <<trusted_block, target_block>>
    BY <1>2 DEF inputs
  <2>2. NodeOK(ReduceOutput(left, right), target_block, Base(level, i), Reach(level))
    BY <1>6, <1>9 DEF base
  <2> QED BY <1>2, <1>3, <2>1, <2>2, NodeUpdate DEF IInv
<1> QED BY <1>2, <1>10
        DEF IInv, InputsOK, OutputIsAChain, ProofIsCanonical, DummyHeaderRange, inputs

\* The end of verify_subchain.
LEMMA OutputIInv == IInv /\ verify_subchain /\ UNCHANGED proof => IInv'
PROOF
<1> SUFFICES ASSUME IInv, verify_subchain, UNCHANGED proof PROVE IInv'
  OBVIOUS
<1> DEFINE root == node[Levels][1]
<1>1. /\ root.done /\ FinalAssertions(root) /\ UNCHANGED <<inputs, node>>
      /\ output' = [done |-> TRUE, target_header_hash |-> root.end_header_hash,
                    state_root_merkle_root |-> root.state_merkle_root,
                    data_root_merkle_root |-> root.data_merkle_root]
  BY DEF verify_subchain
<1>2. Levels \in 0 .. Levels /\ 1 \in 1 .. Width(Levels)
  <2>1. Levels \in Nat /\ Levels - Levels = 0 /\ Pow2[0] = 1
    BY Constants, Pow2Facts
  <2> QED BY <2>1 DEF Width
<1>3. NodeOK(root, target_block, trusted_block, MaxLeaves)
  <2>1. NodeOK(root, target_block, Base(Levels, 1), Reach(Levels))
    BY <1>1, <1>2 DEF IInv, NodesOK
  <2>2. Base(Levels, 1) = trusted_block /\ Reach(Levels) = MaxLeaves
    <3>1. trusted_block \in Nat /\ Reach(Levels) = MaxLeaves /\ Reach(Levels) \in Nat
      BY Constants, SubchainAssumption DEF IInv, InputsOK
    <3>2. (1 - 1) * Reach(Levels) = 0
      BY <3>1
    <3> QED BY <3>1, <3>2 DEF Base
  <2> QED BY <2>1, <2>2
<1> HIDE DEF root
<1>4. IsOutput(root.end_header_hash, root.state_merkle_root, root.data_merkle_root)
  BY <1>1, <1>3, FinalChain DEF IInv
<1>5. OutputIsAChain'
  BY <1>1, <1>4 DEF OutputIsAChain, IsOutput, inputs
<1>6. NodesOK'
  BY <1>1 DEF IInv, NodesOK, Base, inputs
<1> QED BY <1>1, <1>5, <1>6 DEF IInv, InputsOK, ProofIsCanonical, DummyHeaderRange, inputs

\* The justification of the target header.
LEMMA ProofIInv == IInv /\ ProofStep => IInv'
PROOF
<1> SUFFICES ASSUME IInv, NEW id \in SetIds,
                    \/ prover = "repository" /\ header_range(id, HintSimpleJustification)
                    \/ prover = "any" /\ \E j \in AnyJustification : header_range(id, j)
             PROVE  IInv'
  BY DEF ProofStep
<1>1. PICK j : header_range(id, j) /\ (j.by_set => \E n \in DOMAIN Canonical : j = VotesOfSet(n))
  <2>1. CASE prover = "repository" /\ header_range(id, HintSimpleJustification)
    <3>1. /\ target_block \in Nat /\ target_block <= MaxBlock
          /\ MaxBlock \in Nat /\ DOMAIN Canonical = 0 .. MaxBlock
      BY <2>1, SubchainAssumption DEF IInv, InputsOK
    <3>2. target_block \in DOMAIN Canonical
      BY <3>1
    <3> QED BY <2>1, <3>2 DEF HintSimpleJustification
  <2>2. CASE prover = "any" /\ \E j \in AnyJustification : header_range(id, j)
    BY <2>2 DEF AnyJustification, Justification
  <2> QED BY <2>1, <2>2
<1> DEFINE target == output.target_header_hash
           state == output.state_root_merkle_root
           data == output.data_root_merkle_root
<1>2. /\ output.done /\ verify_simple_justification(target_block, target, id, j)
      /\ proof' = [done |-> TRUE, authority_set_id |-> id, by_set |-> j.by_set,
                   evm_output |-> <<target, state, data>>]
      /\ UNCHANGED subchainVars
  BY <1>1 DEF header_range
<1>3. IsOutput(target, state, data)
  BY <1>2 DEF IInv, OutputIsAChain, IsOutput
<1>4. j.by_set => IsProof(id, <<target, state, data>>)
  <2> HIDE DEF target, state, data
  <2> SUFFICES ASSUME j.by_set PROVE IsProof(id, <<target, state, data>>)
    OBVIOUS
  <2>1. PICK n \in DOMAIN Canonical : j = VotesOfSet(n)
    BY <1>1
  <2> QED BY <1>2, <1>3, <2>1, JustifiedChain DEF IInv
<1>5. ProofIsCanonical'
  BY <1>2, <1>4 DEF ProofIsCanonical, IsProof, DummyHeaderRange, subchainVars, inputs
<1>6. UNCHANGED <<inputs, node, output>>
  BY <1>2 DEF subchainVars
<1> QED BY <1>5, <1>6 DEF IInv, InputsOK, NodesOK, Base, OutputIsAChain, inputs

\* The jobs, in any order and on any headers, keep IInv.
THEOREM Invariance == Spec => []IInv
PROOF
<1>1. IInv /\ [Next]_vars => IInv'
  <2> SUFFICES ASSUME IInv, [Next]_vars PROVE IInv'
    OBVIOUS
  <2>1. CASE MapStep /\ UNCHANGED proof
    BY <2>1, MapIInv
  <2>2. CASE ReduceStep /\ UNCHANGED proof
    BY <2>2, ReduceIInv
  <2>3. CASE verify_subchain /\ UNCHANGED proof
    BY <2>3, OutputIInv
  <2>4. CASE ProofStep
    BY <2>4, ProofIInv
  <2>5. CASE UNCHANGED vars
    BY <2>5 DEF IInv, InputsOK, NodesOK, Base, OutputIsAChain, ProofIsCanonical,
                DummyHeaderRange, vars, subchainVars, inputs
  <2> QED BY <2>1, <2>2, <2>3, <2>4, <2>5 DEF Next, SubchainNext
<1> QED BY <1>1, InitIInv, PTL DEF Spec

\* Whatever headers the prover gives the map jobs, for every number of jobs
\* and headers per job, an output of verify_subchain is that of a chain from
\* the trusted header to the target block.
THEOREM SubchainSound == Spec => []OutputIsAChain
PROOF
<1>1. IInv => OutputIsAChain
  BY DEF IInv
<1> QED BY <1>1, Invariance, PTL

\* A header range proof whose justification carries the votes of the set, as
\* the one that the fetcher returns does, means what the contract takes it to
\* mean, on every finalized chain, among any forks and whatever headers the
\* map jobs were given.
THEOREM HeaderRangeSound == Spec => []ProofIsCanonical
PROOF
<1>1. IInv => ProofIsCanonical
  BY DEF IInv
<1> QED BY <1>1, Invariance, PTL
=============================================================================
