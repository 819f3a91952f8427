------------------------ MODULE PartitionTableProofs ------------------------
(***************************************************************************)
(* The safety of PartitionTable for every disk: any number of slots and of *)
(* GPT entries, whatever they hold.                                        *)
(*                                                                         *)
(* The tables are read by loops over sequences, so that what they collect  *)
(* is proved by induction.  The library's induction takes the predicate as *)
(* an operator; SetInduction takes the set of numbers that satisfy it.     *)
(***************************************************************************)
EXTENDS PartitionTable, FiniteSetTheorems, TLAPS

-----------------------------------------------------------------------------
(* What a loop that skips elements collects.                               *)

\* The natural numbers are well founded.
LEMMA LessWellFounded == IsWellFoundedOn({p \in Nat \X Nat : p[1] < p[2]}, Nat)
BY NatLessThanWellFounded DEF OpToRel

\* A set that holds 0 and with each number the next holds all of them.
LEMMA SetInduction ==
    ASSUME NEW S \in SUBSET Nat, 0 \in S, \A n \in S : n + 1 \in S
    PROVE  S = Nat
<1> DEFINE R == {p \in Nat \X Nat : p[1] < p[2]}
           T == Nat \ S
<1> SUFFICES ASSUME T # {} PROVE FALSE
  OBVIOUS
<1>1. IsWellFoundedOn(R, Nat)
  BY LessWellFounded
<1> HIDE DEF R
<1>2. PICK x \in T : \A y \in T : ~(<<y, x>> \in R)
  BY <1>1, WFMin
<1>3. x \in Nat /\ x - 1 \in Nat /\ (x - 1) + 1 = x
  OBVIOUS
<1>4. <<x - 1, x>> \in R
  BY <1>3 DEF R
<1>5. x - 1 \in S
  BY <1>2, <1>3, <1>4
<1> QED BY <1>3, <1>5

\* Recursion on the numbers up to N defines a function.
Recursive(g, N, first, step) == g[0] = first /\ \A i \in 1..N : g[i] = step[i][g[i - 1]]

LEMMA RecursionExists ==
    ASSUME NEW N \in Nat, NEW V, NEW first \in V, NEW step \in [1..N -> [V -> V]]
    PROVE  \E g \in [0..N -> V] : Recursive(g, N, first, step)
<1> DEFINE Upto(n) == \E g \in [0..n -> V] : /\ g[0] = first
                                             /\ \A i \in 1..n : g[i] = step[i][g[i - 1]]
           P == {n \in Nat : n <= N => Upto(n)}
<1>1. Upto(0)
  <2> DEFINE g == [i \in 0..0 |-> first]
  <2>1. g \in [0..0 -> V] /\ g[0] = first /\ 1..0 = {}
    OBVIOUS
  <2> QED BY <2>1
<1>2. ASSUME NEW n \in Nat, n + 1 <= N, Upto(n) PROVE Upto(n + 1)
  <2>1. PICK g \in [0..n -> V] : g[0] = first /\ \A i \in 1..n : g[i] = step[i][g[i - 1]]
    BY <1>2
  <2> DEFINE h == [i \in 0..n + 1 |-> IF i <= n THEN g[i] ELSE step[n + 1][g[n]]]
  <2>2. g[n] \in V /\ n + 1 \in 1..N
    BY <1>2, <2>1
  <2>3. step[n + 1][g[n]] \in V
    BY <2>2
  <2>4. h \in [0..n + 1 -> V] /\ h[0] = first
    BY <1>2, <2>1, <2>3
  <2>5. ASSUME NEW i \in 1..n + 1 PROVE h[i] = step[i][h[i - 1]]
    <3>1. i - 1 \in 0..n /\ h[i - 1] = g[i - 1]
      BY <1>2
    <3>2. CASE i = n + 1
      BY <1>2, <3>1, <3>2
    <3>3. CASE i # n + 1
      <4>1. i \in 1..n /\ h[i] = g[i]
        BY <1>2, <3>3
      <4> QED BY <2>1, <3>1, <4>1
    <3> QED BY <3>2, <3>3
  <2> HIDE DEF h
  <2> QED BY <2>4, <2>5
<1> HIDE DEF Upto
<1>3. P \in SUBSET Nat /\ 0 \in P
  BY <1>1
<1>4. ASSUME NEW n \in P PROVE n + 1 \in P
  BY <1>2
<1> HIDE DEF P
<1>5. P = Nat
  BY <1>3, <1>4, SetInduction
<1>6. Upto(N)
  BY <1>5 DEF P
<1> QED BY <1>6 DEF Upto, Recursive

\* Functions agree on the numbers up to N when one value decides the next.
Alike(f, g, N) ==
    f[0] = g[0] /\ \A i \in 1..N : f[i - 1] = g[i - 1] => f[i] = g[i]

LEMMA SameRecursion ==
    ASSUME NEW N \in Nat, NEW f, NEW g, Alike(f, g, N)
    PROVE  \A i \in 0..N : f[i] = g[i]
<1> DEFINE P == {n \in Nat : n <= N => f[n] = g[n]}
<1>1. 0 \in P
  BY DEF Alike
<1>2. ASSUME NEW n \in P PROVE n + 1 \in P
  <2> SUFFICES ASSUME n + 1 <= N PROVE f[n + 1] = g[n + 1]
    OBVIOUS
  <2>1. n \in Nat /\ f[n] = g[n] /\ n + 1 \in 1..N /\ (n + 1) - 1 = n
    OBVIOUS
  <2> QED BY <2>1 DEF Alike
<1> HIDE DEF P
<1>3. P = Nat
  <2>1. P \in SUBSET Nat
    BY DEF P
  <2> QED BY <1>1, <1>2, <2>1, SetInduction
<1> QED BY <1>3 DEF P

\* Picked reads its sequence one element after another.
Turns(g, s, keep) ==
    /\ g[0] = <<>>
    /\ \A i \in 1..Len(s) :
          g[i] = IF s[i] \in keep THEN Append(g[i - 1], s[i]) ELSE g[i - 1]

LEMMA PickedTurns ==
    ASSUME NEW S, NEW s \in Seq(S), NEW keep
    PROVE  \E g \in [0..Len(s) -> Seq(S \cap keep)] :
              Picked(s, keep) = g[Len(s)] /\ Turns(g, s, keep)
<1> DEFINE N == Len(s)
           V == Seq(S \cap keep)
           turn(i, t) == IF s[i] \in keep THEN Append(t, s[i]) ELSE t
           step == [i \in 1..N |-> [t \in V |-> turn(i, t)]]
           whole(f) == [i \in 0..N |-> IF i = 0 THEN <<>>
                                       ELSE IF s[i] \in keep THEN Append(f[i - 1], s[i])
                                       ELSE f[i - 1]]
           picked == CHOOSE f : f = whole(f)
<1>1. Picked(s, keep) = picked[N]
  BY DEF Picked
<1>2. N \in Nat /\ <<>> \in V /\ \A i \in 1..N : s[i] \in S
  OBVIOUS
<1>3. step \in [1..N -> [V -> V]]
  <2>1. \A i \in 1..N, t \in V : turn(i, t) \in V
    BY <1>2
  <2> HIDE DEF V, N, turn
  <2> QED BY <2>1
<1>4. PICK g \in [0..N -> V] : Recursive(g, N, <<>>, step)
  <2> HIDE DEF V, N, step
  <2> QED BY <1>2, <1>3, RecursionExists
<1>5. \A i \in 1..N : g[i] = turn(i, g[i - 1])
  <2> SUFFICES ASSUME NEW i \in 1..N PROVE g[i] = turn(i, g[i - 1])
    OBVIOUS
  <2>1. i - 1 \in 0..N
    BY <1>2
  <2>2. g[i - 1] \in V
    BY <2>1
  <2> HIDE DEF V, N, turn
  <2> QED BY <1>4, <2>2 DEF Recursive
<1>6. g = whole(g)
  <2>1. \A i \in 0..N : g[i] = whole(g)[i]
    <3> SUFFICES ASSUME NEW i \in 0..N PROVE g[i] = whole(g)[i]
      OBVIOUS
    <3>1. CASE i = 0
      BY <1>4, <3>1 DEF Recursive
    <3>2. CASE i # 0
      <4>1. i \in 1..N
        BY <1>2, <3>2
      <4> HIDE DEF V, N
      <4> QED BY <1>5, <3>2, <4>1, Zenon
    <3> QED BY <3>1, <3>2
  <2> HIDE DEF V, N
  <2> QED BY <1>4, <2>1
<1>7. picked = whole(picked)
  BY <1>6, Zenon
<1>8. picked = g
  <2> HIDE DEF picked
  <2>1. picked = [i \in 0..N |-> picked[i]] /\ picked[0] = g[0]
    BY <1>2, <1>4, <1>7 DEF Recursive
  <2>2. ASSUME NEW i \in 1..N, picked[i - 1] = g[i - 1] PROVE picked[i] = g[i]
    <3>1. i \in 0..N /\ i # 0
      BY <1>2
    <3>2. picked[i] = turn(i, picked[i - 1])
      BY <1>7, <3>1
    <3> QED BY <1>5, <2>2, <3>2
  <2>3. \A i \in 0..N : picked[i] = g[i]
    <3>1. Alike(picked, g, N)
      BY <2>1, <2>2 DEF Alike
    <3> HIDE DEF N
    <3> QED BY <1>2, <3>1, SameRecursion
  <2>4. g = [i \in 0..N |-> g[i]]
    OBVIOUS
  <2> QED BY <2>1, <2>3, <2>4
<1>9. Picked(s, keep) = g[N]
  <2> HIDE DEF picked
  <2> QED BY <1>1, <1>8
<1>10. Turns(g, s, keep)
  BY <1>4, <1>5 DEF Turns, Recursive
<1> QED BY <1>4, <1>9, <1>10

\* What is picked are elements of the sequence that are in keep.
LEMMA PickedFrom ==
    ASSUME NEW S, NEW s \in Seq(S), NEW keep
    PROVE  Picked(s, keep) \in Seq(S \cap keep)
<1>1. PICK g \in [0..Len(s) -> Seq(S \cap keep)] : Picked(s, keep) = g[Len(s)]
  BY PickedTurns
<1>2. Len(s) \in 0..Len(s)
  OBVIOUS
<1> QED BY <1>1, <1>2

\* x counts the places of J off, from the first to the last.
Counts(x, n, J) ==
    /\ x \in [1..n -> J]
    /\ \A i, k \in 1..n : i < k => x[i] < x[k]
    /\ \A j \in J : \E i \in 1..n : x[i] = j

\* t holds the elements of s at the places J, in order.
Extracts(t, s, J) ==
    \E x \in [1..Len(t) -> J] : Counts(x, Len(t), J) /\ \A i \in 1..Len(t) : t[i] = s[x[i]]

\* Picked extracts the places whose elements are to be kept.
LEMMA PickedExtracts ==
    ASSUME NEW S, NEW s \in Seq(S), NEW keep
    PROVE  Extracts(Picked(s, keep), s, {j \in DOMAIN s : s[j] \in keep})
<1> DEFINE N == Len(s)
           J(n) == {j \in 1..n : s[j] \in keep}
<1>1. PICK g \in [0..Len(s) -> Seq(S \cap keep)] :
          Picked(s, keep) = g[Len(s)] /\ Turns(g, s, keep)
  BY PickedTurns
<1>2. N \in Nat /\ DOMAIN s = 1..N /\ \A i \in 1..N : s[i] \in S
  OBVIOUS
<1> DEFINE P == {n \in Nat : n <= N => Extracts(g[n], s, J(n))}
<1>3. 0 \in P
  <2>1. g[0] = <<>> /\ J(0) = {} /\ 1..0 = {} /\ Len(<<>>) = 0
    BY <1>1 DEF Turns
  <2> DEFINE x == [i \in {} |-> 0]
  <2>2. x \in [{} -> {}]
    OBVIOUS
  <2> QED BY <2>1, <2>2 DEF Extracts, Counts
<1>4. ASSUME NEW n \in P PROVE n + 1 \in P
  <2> SUFFICES ASSUME n + 1 <= N PROVE Extracts(g[n + 1], s, J(n + 1))
    OBVIOUS
  <2>1. n \in Nat /\ n + 1 \in 1..N /\ (n + 1) - 1 = n /\ n \in 0..N /\ n + 1 \in 0..N
    BY <1>2
  <2>2. g[n] \in Seq(S \cap keep)
    BY <1>1, <2>1
  <2>3. g[n + 1] = IF s[n + 1] \in keep THEN Append(g[n], s[n + 1]) ELSE g[n]
    BY <1>1, <2>1 DEF Turns
  <2> DEFINE m == Len(g[n])
  <2>4. Extracts(g[n], s, J(n))
    BY <1>2, <2>1
  <2>5. PICK x \in [1..m -> J(n)] : Counts(x, m, J(n)) /\ \A i \in 1..m : g[n][i] = s[x[i]]
    <3> HIDE DEF J
    <3> QED BY <2>4 DEF Extracts
  <2>6. CASE s[n + 1] \notin keep
    <3>1. J(n + 1) = J(n) /\ g[n + 1] = g[n]
      BY <2>1, <2>3, <2>6
    <3> QED BY <2>4, <3>1
  <2>7. CASE s[n + 1] \in keep
    <3> DEFINE t == Append(g[n], s[n + 1])
               y == [i \in 1..m + 1 |-> IF i <= m THEN x[i] ELSE n + 1]
    <3>1. g[n + 1] = t /\ Len(t) = m + 1 /\ m \in Nat
          /\ (\A i \in 1..m : t[i] = g[n][i]) /\ t[m + 1] = s[n + 1]
      BY <1>2, <2>1, <2>2, <2>3, <2>7
    <3>2. J(n + 1) = J(n) \cup {n + 1} /\ \A j \in J(n) : j \in Nat /\ j < n + 1
      BY <2>1, <2>7
    <3> HIDE DEF J, m, t
    <3>3. y \in [1..m + 1 -> J(n + 1)]
      BY <2>5, <3>1, <3>2
    <3>4. (\A i \in 1..m : y[i] = x[i]) /\ y[m + 1] = n + 1
      BY <3>1
    <3>5. Counts(y, m + 1, J(n + 1))
      <4>1. ASSUME NEW i \in 1..m + 1, NEW k \in 1..m + 1, i < k PROVE y[i] < y[k]
        <5>1. i \in 1..m
          BY <3>1, <4>1
        <5>2. CASE k = m + 1
          BY <2>5, <3>2, <3>4, <5>1, <5>2
        <5>3. CASE k # m + 1
          <6>1. k \in 1..m
            BY <3>1, <5>3
          <6> QED BY <2>5, <3>4, <4>1, <5>1, <6>1 DEF Counts
        <5> QED BY <5>2, <5>3
      <4>2. ASSUME NEW j \in J(n + 1) PROVE \E i \in 1..m + 1 : y[i] = j
        <5>1. CASE j = n + 1
          BY <3>1, <3>4, <5>1
        <5>2. CASE j # n + 1
          <6>1. PICK i \in 1..m : x[i] = j
            BY <2>5, <3>2, <5>2 DEF Counts
          <6> QED BY <3>1, <3>4, <6>1
        <5> QED BY <5>1, <5>2
      <4> QED BY <3>3, <4>1, <4>2 DEF Counts
    <3>6. ASSUME NEW i \in 1..m + 1 PROVE t[i] = s[y[i]]
      <4>1. CASE i = m + 1
        BY <3>1, <3>4, <4>1
      <4>2. CASE i # m + 1
        <5>1. i \in 1..m
          BY <3>1, <4>2
        <5> QED BY <2>5, <3>1, <3>4, <5>1
      <4> QED BY <4>1, <4>2
    <3> HIDE DEF y
    <3>7. Extracts(t, s, J(n + 1))
      <4>1. y \in [1..Len(t) -> J(n + 1)] /\ Counts(y, Len(t), J(n + 1))
            /\ \A i \in 1..Len(t) : t[i] = s[y[i]]
        BY <3>1, <3>3, <3>5, <3>6
      <4> QED BY <4>1 DEF Extracts
    <3> QED BY <3>1, <3>7
  <2> QED BY <2>6, <2>7
<1> HIDE DEF P
<1>5. P = Nat
  <2>1. P \in SUBSET Nat
    BY DEF P
  <2> QED BY <1>3, <1>4, <2>1, SetInduction
<1>6. Extracts(g[N], s, J(N))
  <2>1. N \in P
    BY <1>2, <1>5
  <2>2. N <= N
    BY <1>2
  <2> HIDE DEF N, J
  <2> QED BY <2>1, <2>2 DEF P
<1> QED BY <1>1, <1>2, <1>6

\* What is picked from an extract is an extract.
LEMMA PickedAgain ==
    ASSUME NEW S, NEW t \in Seq(S), NEW s, NEW J \in SUBSET Nat, Extracts(t, s, J), NEW keep
    PROVE  Extracts(Picked(t, keep), s, {j \in J : s[j] \in keep})
<1> DEFINE u == Picked(t, keep)
           K == {k \in DOMAIN t : t[k] \in keep}
           L == {j \in J : s[j] \in keep}
           m == Len(u)
           n == Len(t)
<1>1. PICK x \in [1..n -> J] : Counts(x, n, J) /\ \A i \in 1..n : t[i] = s[x[i]]
  BY DEF Extracts
<1>2. Extracts(u, t, K)
  BY PickedExtracts
<1>3. PICK y \in [1..m -> K] : Counts(y, m, K) /\ \A i \in 1..m : u[i] = t[y[i]]
  BY <1>2 DEF Extracts
<1>4. \A k \in K : k \in 1..n /\ t[k] \in keep
  OBVIOUS
<1>5. \A k \in 1..n : t[k] \in keep => k \in K
  OBVIOUS
<1> DEFINE z == [i \in 1..m |-> x[y[i]]]
<1> HIDE DEF u, K, m, n
<1>6. \A i \in 1..m : y[i] \in 1..n /\ x[y[i]] \in J /\ s[x[y[i]]] \in keep
  BY <1>1, <1>3, <1>4
<1>7. z \in [1..m -> L]
  BY <1>6
<1>8. Counts(z, m, L)
  <2>1. ASSUME NEW i \in 1..m, NEW k \in 1..m, i < k PROVE z[i] < z[k]
    <3>1. y[i] < y[k]
      BY <1>3, <2>1 DEF Counts
    <3> QED BY <1>1, <1>6, <3>1 DEF Counts
  <2>2. ASSUME NEW j \in L PROVE \E i \in 1..m : z[i] = j
    <3>1. PICK k \in 1..n : x[k] = j
      BY <1>1 DEF Counts
    <3>2. k \in K
      BY <1>1, <1>5, <3>1
    <3>3. PICK i \in 1..m : y[i] = k
      BY <1>3, <3>2 DEF Counts
    <3> QED BY <3>1, <3>3
  <2> QED BY <1>7, <2>1, <2>2 DEF Counts
<1>9. \A i \in 1..m : u[i] = s[z[i]]
  BY <1>1, <1>3, <1>6
<1> HIDE DEF z, L
<1> QED BY <1>7, <1>8, <1>9 DEF Extracts, m, L, u

\* The first two elements of an extract come from its first two places.
LEMMA FirstTwo ==
    ASSUME NEW S, NEW t \in Seq(S), NEW s, NEW J \in SUBSET Nat, Extracts(t, s, J)
    PROVE  Extracts(SubSeq(t, 1, IF Len(t) < 2 THEN Len(t) ELSE 2), s,
                    {j \in J : \A i, k \in J : i < k => j <= k})
<1> DEFINE n == Len(t)
           m == IF n < 2 THEN n ELSE 2
           u == SubSeq(t, 1, m)
           L == {j \in J : \A i, k \in J : i < k => j <= k}
<1>1. PICK x \in [1..n -> J] : Counts(x, n, J) /\ \A i \in 1..n : t[i] = s[x[i]]
  BY DEF Extracts
<1>2. n \in Nat /\ m \in Nat /\ m <= n /\ m <= 2
      /\ Len(u) = m /\ \A i \in 1..m : i \in 1..n /\ u[i] = t[i]
  OBVIOUS
<1>3. \A i, k \in 1..n : x[i] \in Nat /\ x[k] \in Nat /\ (x[i] < x[k] => i < k)
                         /\ (i <= k => x[i] <= x[k])
  <2> SUFFICES ASSUME NEW i \in 1..n, NEW k \in 1..n
               PROVE  x[i] \in Nat /\ x[k] \in Nat /\ (x[i] < x[k] => i < k)
                      /\ (i <= k => x[i] <= x[k])
    OBVIOUS
  <2>1. x[i] \in Nat /\ x[k] \in Nat
    BY <1>1
  <2>2. (i < k => x[i] < x[k]) /\ (k < i => x[k] < x[i])
    BY <1>1 DEF Counts
  <2> HIDE DEF n
  <2> QED BY <1>2, <2>1, <2>2
<1> DEFINE z == [i \in 1..m |-> x[i]]
<1>4. z \in [1..m -> L]
  <2> SUFFICES ASSUME NEW i \in 1..m, NEW a \in J, NEW b \in J, a < b PROVE x[i] <= b
    BY <1>1, <1>2
  <2>1. PICK p \in 1..n : x[p] = a
    BY <1>1 DEF Counts
  <2>2. PICK q \in 1..n : x[q] = b
    BY <1>1 DEF Counts
  <2>3. p < q /\ i \in 1..n
    BY <1>2, <1>3, <2>1, <2>2
  <2>4. i <= q
    <3> HIDE DEF m, n
    <3> QED BY <1>2, <2>3
  <2> QED BY <1>3, <2>2, <2>3, <2>4
<1>5. Counts(z, m, L)
  <2>1. \A i, k \in 1..m : i < k => z[i] < z[k]
    <3> HIDE DEF m, n
    <3> QED BY <1>1, <1>2 DEF Counts
  <2>2. ASSUME NEW j \in L PROVE \E i \in 1..m : z[i] = j
    <3>1. PICK p \in 1..n : x[p] = j
      BY <1>1 DEF Counts
    <3>2. CASE p <= 2
      BY <3>1, <3>2
    <3>3. CASE p > 2
      <4>1. 1 \in 1..n /\ 2 \in 1..n
        BY <3>3
      <4>2. x[1] \in J /\ x[2] \in J /\ x[1] < x[2] /\ x[2] < x[p]
        BY <1>1, <3>3, <4>1 DEF Counts
      <4>3. j <= x[2] /\ j \in Nat /\ x[2] \in Nat
        BY <4>2
      <4> HIDE DEF L, n, m
      <4> QED BY <3>1, <4>2, <4>3
    <3>4. p \in Nat
      BY <1>2
    <3> HIDE DEF L, n, m, z
    <3> QED BY <3>2, <3>3, <3>4
  <2> HIDE DEF m, L
  <2> QED BY <1>4, <2>1, <2>2 DEF Counts
<1>6. \A i \in 1..m : u[i] = s[z[i]]
  <2> HIDE DEF m, n, u
  <2> QED BY <1>1, <1>2
<1> HIDE DEF z, L, u, m
<1>7. Extracts(u, s, L)
  BY <1>2, <1>4, <1>5, <1>6 DEF Extracts
<1> QED BY <1>7 DEF u, L, m

-----------------------------------------------------------------------------
(* The parser.                                                             *)

\* What may be listed, and which chains may be walked.
Listable ==
    {p \in Slots : \/ p.num_sectors > 0
                   \/ \E j \in DOMAIN gpt.entries :
                         gpt.entries[j].first = 0 /\ gpt.entries[j].last = Width - 1}
Chains == {p \in Extended : p.num_sectors > 0}

\* The EBR about to be read is inside the extended partition at work.
ChainInv ==
    ebr_lba # -1 =>
        /\ extended # <<>> /\ result = "pending"
        /\ ebr_lba >= Head(extended).start_lba
        /\ ebr_lba < Head(extended).start_lba + Head(extended).num_sectors

ListInv ==
    /\ image \in Images /\ gpt \in Gpts
    /\ result \in {"pending", "unpartitioned", "error", "listed"}
    /\ out \in Seq(Listable) /\ extended \in Seq(Chains)
    /\ visited \in Seq(DOMAIN image)
    /\ ebr_lba \in Nat \cup {-1}
    /\ ChainInv

\* Described slots have sectors.
LEMMA ParsedSlots ==
    ASSUME image \in Images, NEW l \in DOMAIN image
    PROVE  parse_mbr(image[l]) \in Seq({s \in Slots : s.num_sectors > 0})
<1> DEFINE keep == {s \in Slots : s.kind # "none" /\ s.num_sectors # 0}
           S == {s \in Slots : s.num_sectors > 0}
<1>1. image[l].slots \in Seq(Slots)
  BY PartitionTableAssumption
<1>2. parse_mbr(image[l]) \in Seq(Slots \cap keep)
  BY <1>1, PickedFrom DEF parse_mbr
<1>3. Slots \cap keep \subseteq S
  BY DEF Slots
<1> HIDE DEF keep, S
<1>4. Seq(Slots \cap keep) \subseteq Seq(S)
  BY <1>3
<1> QED BY <1>2, <1>4 DEF S

\* The primaries of a table and its extended partitions.
LEMMA TablePicked ==
    ASSUME image \in Images, NEW l \in DOMAIN image
    PROVE  /\ Picked(parse_mbr(image[l]), Slots \ Extended) \in Seq(Listable)
           /\ Picked(parse_mbr(image[l]), Extended) \in Seq(Chains)
<1> DEFINE S == {s \in Slots : s.num_sectors > 0}
           t == parse_mbr(image[l])
<1>1. t \in Seq(S)
  BY ParsedSlots
<1> HIDE DEF t
<1>2. Picked(t, Slots \ Extended) \in Seq(S \cap (Slots \ Extended))
      /\ Picked(t, Extended) \in Seq(S \cap Extended)
  BY <1>1, PickedFrom
<1>3. S \cap (Slots \ Extended) \subseteq Listable /\ S \cap Extended \subseteq Chains
  BY DEF Listable, Chains
<1>4. Seq(S \cap (Slots \ Extended)) \subseteq Seq(Listable)
      /\ Seq(S \cap Extended) \subseteq Seq(Chains)
  BY <1>3
<1> QED BY <1>2, <1>4 DEF t

\* The two slots of an EBR that count are described ones.
LEMMA EbrSlotsParsed ==
    ASSUME image \in Images, NEW l \in DOMAIN image
    PROVE  EbrSlots(l) \in Seq({s \in Slots : s.num_sectors > 0})
<1> DEFINE S == {s \in Slots : s.num_sectors > 0}
           t == parse_mbr(image[l])
           n == IF Len(t) < 2 THEN Len(t) ELSE 2
<1>1. t \in Seq(S)
  BY ParsedSlots
<1> HIDE DEF t
<1>2. SubSeq(t, 1, n) \in Seq(S)
  <2>1. n \in Nat /\ n <= Len(t)
    BY <1>1
  <2>2. \A i \in 1..n : t[i] \in S
    BY <1>1, <2>1
  <2> HIDE DEF S, n
  <2> QED BY <1>1, <2>1, <2>2
<1> QED BY <1>2 DEF EbrSlots, t

\* The logical partitions of an EBR have sectors.
LEMMA LogicalsListable ==
    ASSUME image \in Images, NEW l \in DOMAIN image, NEW ext
    PROVE  Logicals(l, ext) \in Seq(Listable)
<1> DEFINE S == {s \in Slots : s.num_sectors > 0}
           keep == {s \in Slots \ Extended : s.start_lba # 0}
           own == Picked(EbrSlots(l), keep)
<1>1. l \in Nat
  BY PartitionTableAssumption
<1>2. EbrSlots(l) \in Seq(S)
  BY EbrSlotsParsed
<1>3. own \in Seq(S \cap keep)
  BY <1>2, PickedFrom
<1> HIDE DEF own
<1>4. DOMAIN own = 1..Len(own) /\ Len(own) \in Nat /\ \A i \in DOMAIN own : own[i] \in S
  BY <1>3
<1>5. ASSUME NEW s \in S PROVE [s EXCEPT !.start_lba = l + @] \in Listable
  <2> DEFINE q == [s EXCEPT !.start_lba = l + @]
  <2>1. q \in Slots /\ q.num_sectors = s.num_sectors
    BY <1>1 DEF Slots
  <2> HIDE DEF q
  <2> QED BY <2>1 DEF Listable, q
<1>6. Logicals(l, ext) = [i \in 1..Len(own) |-> [own[i] EXCEPT !.start_lba = l + @]]
  BY <1>4 DEF Logicals, own
<1> DEFINE e(i) == [own[i] EXCEPT !.start_lba = l + @]
<1>7. \A i \in 1..Len(own) : e(i) \in Listable
  <2> HIDE DEF S
  <2> QED BY <1>4, <1>5
<1> HIDE DEF e
<1>8. [i \in 1..Len(own) |-> e(i)] \in Seq(Listable)
  BY <1>4, <1>7
<1> QED BY <1>6, <1>8 DEF e

\* A GPT entry's last LBA is inclusive: only one that claims every sector
\* there can be has a length that wraps.
LEMMA EntriesListable ==
    ASSUME gpt \in Gpts
    PROVE  GptEntries(gpt) \in Seq(Listable)
<1> DEFINE keep == {e \in Entries : ~e.zero /\ e.last >= e.first}
           used == Picked(gpt.entries, keep)
           length(e) == (e.last - e.first + 1) % Width
           p(i) == [kind |-> "data", start_lba |-> used[i].first,
                    num_sectors |-> length(used[i])]
<1>1. gpt.entries \in Seq(Entries) /\ Width \in Nat \ {0}
  BY PartitionTableAssumption
<1>2. gpt.entries \in Seq(ToSet(gpt.entries)) /\ ToSet(gpt.entries) \subseteq Entries
  BY <1>1 DEF ToSet
<1>3. used \in Seq(ToSet(gpt.entries) \cap keep)
  BY <1>2, PickedFrom
<1> HIDE DEF used
<1>4. /\ DOMAIN used = 1..Len(used) /\ Len(used) \in Nat
      /\ \A i \in 1..Len(used) : used[i] \in ToSet(gpt.entries) \cap keep
  BY <1>3
<1>5. ASSUME NEW e \in Entries, e.last >= e.first
      PROVE  /\ e.first \in Nat /\ length(e) \in Nat
             /\ length(e) = 0 => e.first = 0 /\ e.last = Width - 1
  <2> DEFINE n == e.last - e.first + 1
  <2>1. /\ e.first \in Nat /\ n \in 1..Width
        /\ n = Width => e.first = 0 /\ e.last = Width - 1
    BY <1>1, <1>5 DEF Entries
  <2> HIDE DEF n
  <2>2. n % Width \in Nat /\ (n < Width => n % Width = n)
    BY <1>1, <2>1
  <2>3. length(e) = n % Width
    BY DEF n
  <2> QED BY <1>1, <2>1, <2>2, <2>3
<1>6. ASSUME NEW i \in 1..Len(used) PROVE p(i) \in Listable
  <2>1. /\ used[i] \in Entries /\ used[i].last >= used[i].first
        /\ \E j \in DOMAIN gpt.entries : used[i] = gpt.entries[j]
    BY <1>2, <1>4 DEF ToSet
  <2> HIDE DEF length
  <2>2. /\ used[i].first \in Nat /\ length(used[i]) \in Nat
        /\ length(used[i]) = 0 => used[i].first = 0 /\ used[i].last = Width - 1
    BY <1>5, <2>1
  <2>3. p(i) \in Slots
    BY <2>2 DEF Slots, Kinds
  <2> QED BY <2>1, <2>2, <2>3 DEF Listable
<1>7. GptEntries(gpt) = [i \in 1..Len(used) |-> p(i)]
  BY <1>4 DEF GptEntries, used
<1> HIDE DEF p
<1>8. [i \in 1..Len(used) |-> p(i)] \in Seq(Listable)
  BY <1>4, <1>6
<1> QED BY <1>7, <1>8

\* A link that is followed stays inside the extended partition.
LEMMA NextEbrInside ==
    ASSUME image \in Images, NEW l \in DOMAIN image, NEW ext \in Chains,
           NEW n \in NextEbr(l, ext)
    PROVE  n \in Nat /\ n >= ext.start_lba /\ n < ext.start_lba + ext.num_sectors
<1> DEFINE S == {s \in Slots : s.num_sectors > 0}
           links == Picked(EbrSlots(l), Extended)
<1>1. links \in Seq(S \cap Extended)
  BY EbrSlotsParsed, PickedFrom
<1>2. \A i \in DOMAIN links : links[i].start_lba \in Nat
  BY <1>1 DEF Slots
<1>3. ext.start_lba \in Nat /\ ext.num_sectors \in Nat
  BY DEF Chains, Extended, Slots
<1>4. n \in {ext.start_lba + links[i].start_lba : i \in DOMAIN links \cap {1}}
      /\ n > ext.start_lba /\ n < ext.start_lba + ext.num_sectors
  BY DEF NextEbr
<1> HIDE DEF links
<1> QED BY <1>2, <1>3, <1>4

\* An extended partition that is up next starts with its own first sector.
LEMMA ChainStart ==
    ASSUME NEW e \in Seq(Chains), e # <<>>
    PROVE  /\ Head(e).start_lba \in Nat /\ Head(e).start_lba # -1
           /\ Head(e).start_lba < Head(e).start_lba + Head(e).num_sectors
           /\ Head(e) \in Chains /\ Tail(e) \in Seq(Chains)
<1>1. Head(e) \in Chains /\ Tail(e) \in Seq(Chains)
  OBVIOUS
<1>2. Head(e).start_lba \in Nat /\ Head(e).num_sectors \in Nat /\ Head(e).num_sectors > 0
  BY <1>1 DEF Chains, Extended, Slots
<1> QED BY <1>1, <1>2

\* At the end of a chain the next one starts, or the listing is complete.
LEMMA EndChainInv ==
    ASSUME extended \in Seq(Chains), extended # <<>>, result = "pending", EndChain
    PROVE  /\ extended' \in Seq(Chains) /\ visited' = <<>>
           /\ result' \in {"pending", "listed"}
           /\ ebr_lba' \in Nat \cup {-1} /\ ChainInv'
<1>1. extended' \in Seq(Chains) /\ visited' = <<>>
  BY ChainStart DEF EndChain
<1>2. CASE extended' = <<>>
  BY <1>1, <1>2 DEF EndChain, ChainInv
<1>3. CASE extended' # <<>>
  <2>1. ebr_lba' = Head(extended').start_lba /\ result' = "pending"
    BY <1>3 DEF EndChain
  <2> DEFINE e == extended'
  <2>2. e \in Seq(Chains) /\ e # <<>>
    BY <1>1, <1>3
  <2> HIDE DEF e
  <2>3. /\ Head(e).start_lba \in Nat
        /\ Head(e).start_lba < Head(e).start_lba + Head(e).num_sectors
    BY <2>2, ChainStart
  <2> QED BY <1>1, <1>3, <2>1, <2>3 DEF ChainInv, e
<1> QED BY <1>2, <1>3

\* Sector 0 is read once, and tells what is listed and which chains follow.
LEMMA ReadSectorZeroInv == ListInv /\ ReadSectorZero => ListInv'
<1> SUFFICES ASSUME ListInv, ReadSectorZero PROVE ListInv'
  OBVIOUS
<1>1. UNCHANGED <<image, gpt, visited>> /\ Seq(Listable)' = Seq(Listable)
  BY DEF ReadSectorZero, Listable
<1>2. CASE result' \in {"error", "unpartitioned"} /\ UNCHANGED <<out, extended, ebr_lba>>
  BY <1>1, <1>2 DEF ListInv, ChainInv, ReadSectorZero
<1>3. CASE result' = "listed" /\ out' = GptEntries(gpt) /\ UNCHANGED <<extended, ebr_lba>>
  <2>1. GptEntries(gpt) \in Seq(Listable)
    BY EntriesListable DEF ListInv
  <2> QED BY <1>1, <1>3, <2>1 DEF ListInv, ChainInv, ReadSectorZero
<1>4. CASE /\ Readable(0)
           /\ out' = Picked(parse_mbr(image[0]), Slots \ Extended)
           /\ extended' = Picked(parse_mbr(image[0]), Extended)
           /\ IF extended' = <<>>
              THEN result' = "listed" /\ UNCHANGED ebr_lba
              ELSE UNCHANGED result /\ ebr_lba' = Head(extended').start_lba
  <2>1. out' \in Seq(Listable) /\ extended' \in Seq(Chains)
    BY <1>4, TablePicked DEF ListInv, Readable
  <2>2. result = "pending" /\ ebr_lba = -1
    BY DEF ReadSectorZero
  <2>3. CASE extended' = <<>>
    BY <1>1, <1>4, <2>1, <2>2, <2>3 DEF ListInv, ChainInv
  <2>4. CASE extended' # <<>>
    <3> DEFINE e == extended'
    <3>1. e \in Seq(Chains) /\ e # <<>> /\ ebr_lba' = Head(e).start_lba /\ result' = "pending"
      BY <1>4, <2>1, <2>2, <2>4
    <3> HIDE DEF e
    <3>2. /\ Head(e).start_lba \in Nat
          /\ Head(e).start_lba < Head(e).start_lba + Head(e).num_sectors
      BY <3>1, ChainStart
    <3>3. ebr_lba' \in Nat /\ ChainInv'
      BY <3>1, <3>2 DEF ChainInv, e
    <3> QED BY <1>1, <2>1, <3>1, <3>3 DEF ListInv
  <2> QED BY <2>3, <2>4
<1> QED BY <1>2, <1>3, <1>4 DEF ReadSectorZero

\* A turn of the chain's loop adds the EBR's logical partitions and stays
\* inside the extended partition, or goes on to the next.
LEMMA FollowEbrInv == ListInv /\ FollowEbr => ListInv'
<1> SUFFICES ASSUME ListInv, FollowEbr PROVE ListInv'
  OBVIOUS
<1> DEFINE ext == Head(extended)
           next == NextEbr(ebr_lba, ext)
<1>1. /\ UNCHANGED <<image, gpt>> /\ Seq(Listable)' = Seq(Listable)
      /\ result = "pending" /\ ebr_lba # -1 /\ extended # <<>>
      /\ extended \in Seq(Chains) /\ image \in Images
  BY DEF FollowEbr, Listable, ListInv, ChainInv
<1>2. EndChain => /\ extended' \in Seq(Chains) /\ visited' \in Seq(DOMAIN image)
                  /\ result' \in {"pending", "listed"}
                  /\ ebr_lba' \in Nat \cup {-1} /\ ChainInv'
  BY <1>1, EndChainInv
<1>3. CASE ~WalkOn /\ EndChain /\ UNCHANGED out
  BY <1>1, <1>2, <1>3 DEF ListInv
<1>4. ASSUME WalkOn, out' = out \o Logicals(ebr_lba, ext)
      PROVE  ebr_lba \in DOMAIN image /\ out' \in Seq(Listable)
  <2>1. ebr_lba \in DOMAIN image
    BY <1>4 DEF WalkOn, Readable
  <2>2. Logicals(ebr_lba, ext) \in Seq(Listable) /\ out \in Seq(Listable)
    BY <1>1, <2>1, LogicalsListable DEF ListInv
  <2> QED BY <1>4, <2>1, <2>2
<1>5. CASE WalkOn /\ out' = out \o Logicals(ebr_lba, ext) /\ next = {} /\ EndChain
  BY <1>1, <1>2, <1>4, <1>5 DEF ListInv
<1>6. CASE /\ WalkOn /\ out' = out \o Logicals(ebr_lba, ext)
           /\ ebr_lba' \in next /\ Visit /\ UNCHANGED <<result, extended>>
  <2>1. ebr_lba \in DOMAIN image /\ out' \in Seq(Listable)
    BY <1>4, <1>6
  <2>2. visited' \in Seq(DOMAIN image)
    BY <1>6, <2>1 DEF Visit, ListInv
  <2>3. ext \in Chains
    BY <1>1, ChainStart
  <2>4. /\ ebr_lba' \in Nat /\ ebr_lba' >= ext.start_lba
        /\ ebr_lba' < ext.start_lba + ext.num_sectors
    BY <1>1, <1>6, <2>1, <2>3, NextEbrInside
  <2>5. ChainInv'
    BY <1>1, <1>6, <2>4 DEF ChainInv
  <2> QED BY <1>1, <1>6, <2>1, <2>2, <2>4, <2>5 DEF ListInv
<1> QED BY <1>3, <1>5, <1>6 DEF FollowEbr

\* The invariant holds throughout.
LEMMA ListCorrect == Spec => []ListInv
<1>1. Init => ListInv
  BY DEF Init, ListInv, ChainInv
<1>2. ListInv /\ [Next]_vars => ListInv'
  <2>1. ListInv /\ UNCHANGED vars => ListInv'
    BY DEF vars, ListInv, ChainInv, Listable
  <2> QED BY <2>1, ReadSectorZeroInv, FollowEbrInv DEF Next
<1> QED BY <1>1, <1>2, PTL DEF Spec

\* The parser's state is well typed whatever the disk holds, and the EBR that
\* is read next lies inside the extended partition at work: no link leads the
\* walk out of it.
THEOREM WalkStaysInside == Spec => []TypeOK
<1>1. ListInv => TypeOK
  <2> SUFFICES ASSUME ListInv PROVE TypeOK
    OBVIOUS
  <2>1. \A i \in DOMAIN out : out[i] \in Slots
    BY DEF ListInv, Listable
  <2>2. \A i \in DOMAIN out : out[i].kind \in Kinds /\ out[i].start_lba \in Nat
    BY <2>1 DEF Slots
  <2>3. \A i \in DOMAIN extended : is_extended(extended[i])
    BY DEF ListInv, Chains, Extended
  <2>4. ToSet(visited) \subseteq DOMAIN image
    BY DEF ListInv, ToSet
  <2> QED BY <2>2, <2>3, <2>4 DEF ListInv, ChainInv, TypeOK
<1> QED BY <1>1, ListCorrect, PTL

\* No partition is listed with no sectors, save a GPT entry that claims all of
\* the 2^64 there are.
THEOREM ListedHaveSectors == Spec => []NoEmptyPartition
<1>1. ListInv => NoEmptyPartition
  BY DEF ListInv, Listable, NoEmptyPartition
<1> QED BY <1>1, ListCorrect, PTL

-----------------------------------------------------------------------------
(* What the disk says.                                                     *)

\* The slots of a sector are the described ones, in order.
LEMMA DescribedExtracted ==
    ASSUME image \in Images, NEW l \in DOMAIN image
    PROVE  Extracts(parse_mbr(image[l]), image[l].slots, Described(image[l].slots))
<1> DEFINE s == image[l].slots
           keep == {c \in Slots : c.kind # "none" /\ c.num_sectors # 0}
<1>1. s \in Seq(Slots)
  BY PartitionTableAssumption
<1>2. Extracts(Picked(s, keep), s, {j \in DOMAIN s : s[j] \in keep})
  <2> HIDE DEF s, keep
  <2> QED BY <1>1, PickedExtracts
<1>3. {j \in DOMAIN s : s[j] \in keep} = Described(s)
  <2>1. \A j \in DOMAIN s : s[j] \in Slots
    BY <1>1
  <2>2. \A c \in Slots : c \in keep <=> c.kind # "none" /\ c.num_sectors > 0
    BY DEF Slots
  <2> HIDE DEF s, keep
  <2> QED BY <2>1, <2>2 DEF Described
<1> HIDE DEF keep
<1>4. parse_mbr(image[l]) = Picked(s, keep)
  BY DEF parse_mbr, keep
<1> HIDE DEF s
<1>5. Extracts(parse_mbr(image[l]), s, Described(s))
  BY <1>2, <1>3, <1>4
<1> QED BY <1>5 DEF s

\* What is known of the slots of a sector.
LEMMA SlotPlaces ==
    ASSUME image \in Images, NEW l \in DOMAIN image
    PROVE  LET s == image[l].slots
           IN  /\ s \in Seq(Slots) /\ Described(s) \in SUBSET Nat
               /\ Described(s) \subseteq DOMAIN s /\ Links(s) \subseteq Described(s)
               /\ Counted(s) \subseteq Described(s) /\ LogicalSlots(s) \subseteq Counted(s)
               /\ \A j \in DOMAIN s : s[j] \in Slots
BY PartitionTableAssumption DEF Described, Links, Counted, LogicalSlots

\* The two slots that are looked at in an EBR are those that count.
LEMMA EbrExtracted ==
    ASSUME image \in Images, NEW l \in DOMAIN image
    PROVE  Extracts(EbrSlots(l), image[l].slots, Counted(image[l].slots))
<1> DEFINE s == image[l].slots
           t == parse_mbr(image[l])
           J == Described(s)
<1>1. t \in Seq({c \in Slots : c.num_sectors > 0}) /\ Extracts(t, s, J) /\ J \in SUBSET Nat
  BY ParsedSlots, DescribedExtracted, SlotPlaces
<1> HIDE DEF t, J, s
<1>2. Extracts(SubSeq(t, 1, IF Len(t) < 2 THEN Len(t) ELSE 2), s,
               {j \in J : \A i, k \in J : i < k => j <= k})
  BY <1>1, FirstTwo
<1>3. EbrSlots(l) = SubSeq(t, 1, IF Len(t) < 2 THEN Len(t) ELSE 2)
  BY DEF EbrSlots, t
<1>4. Counted(s) = {j \in J : \A i, k \in J : i < k => j <= k}
  BY DEF Counted, J
<1>5. Extracts(EbrSlots(l), s, Counted(s))
  BY <1>2, <1>3, <1>4
<1> QED BY <1>5 DEF s

\* The logical partitions of an EBR are those its slots hold, whatever chain c
\* it is reached in.
LEMMA LogicalsExtracted ==
    ASSUME image \in Images, NEW l \in DOMAIN image, NEW ext
    PROVE  LET J == LogicalSlots(image[l].slots)
               n == Len(Logicals(l, ext))
           IN  /\ n \in Nat /\ DOMAIN Logicals(l, ext) = 1..n
               /\ \E x \in [1..n -> J] :
                     /\ Counts(x, n, J)
                     /\ \A i \in 1..n : \A c :
                           c[2] = l => Logicals(l, ext)[i] = Placed(image, <<c, x[i]>>)
<1> DEFINE s == image[l].slots
           S == {c \in Slots : c.num_sectors > 0}
           keep == {c \in Slots \ Extended : c.start_lba # 0}
           own == Picked(EbrSlots(l), keep)
           J == LogicalSlots(s)
           C == Counted(s)
<1>1. /\ EbrSlots(l) \in Seq(S) /\ Extracts(EbrSlots(l), s, C)
      /\ C \in SUBSET Nat /\ \A j \in C : s[j] \in Slots
  BY EbrSlotsParsed, EbrExtracted, SlotPlaces
<1>2. own \in Seq(S \cap keep)
  <2> HIDE DEF S, keep
  <2> QED BY <1>1, PickedFrom
<1>3. Extracts(own, s, {j \in C : s[j] \in keep})
  <2> HIDE DEF S, keep, s, C
  <2> QED BY <1>1, PickedAgain
<1>4. {j \in C : s[j] \in keep} = J
  <2>1. \A c \in Slots : c \in keep <=> ~is_extended(c) /\ c.start_lba > 0
    BY DEF Slots, Extended
  <2>2. \A j \in C : j \in Links(s) <=> is_extended(s[j])
    BY SlotPlaces DEF Links
  <2>3. J = {j \in C : j \notin Links(s) /\ s[j].start_lba > 0}
    BY DEF LogicalSlots
  <2> HIDE DEF keep, s, C, J
  <2> QED BY <1>1, <2>1, <2>2, <2>3
<1> HIDE DEF own, keep, S, J, C
<1>5. Extracts(own, s, J)
  BY <1>3, <1>4
<1> DEFINE n == Len(own)
<1>6. n \in Nat /\ DOMAIN own = 1..n
  BY <1>2
<1>7. Logicals(l, ext) = [i \in 1..n |-> [own[i] EXCEPT !.start_lba = l + @]]
  BY <1>6 DEF Logicals, own, keep
<1>8. Len(Logicals(l, ext)) = n /\ DOMAIN Logicals(l, ext) = 1..n
  BY <1>6, <1>7
<1>9. PICK x \in [1..n -> J] : Counts(x, n, J) /\ \A i \in 1..n : own[i] = s[x[i]]
  BY <1>5 DEF Extracts
<1>10. \A i \in 1..n : \A c : c[2] = l => Logicals(l, ext)[i] = Placed(image, <<c, x[i]>>)
  BY <1>7, <1>9 DEF Placed
<1> QED BY <1>6, <1>8, <1>9, <1>10 DEF J

\* The link that is followed is the first of those that count.
LEMMA NextIsLinked ==
    ASSUME image \in Images, NEW l \in DOMAIN image, NEW ext
    PROVE  /\ \A b : b \in NextEbr(l, ext) <=> Linked(image[l].slots, b, ext)
           /\ \A b, c \in NextEbr(l, ext) : b = c
<1> DEFINE s == image[l].slots
           S == {c \in Slots : c.num_sectors > 0}
           links == Picked(EbrSlots(l), Extended)
           C == Counted(s)
           J == C \cap Links(s)
           n == Len(links)
<1>1. /\ EbrSlots(l) \in Seq(S) /\ Extracts(EbrSlots(l), s, C)
      /\ C \in SUBSET Nat /\ \A j \in C : s[j] \in Slots
  BY EbrSlotsParsed, EbrExtracted, SlotPlaces
<1>2. links \in Seq(S \cap Extended)
  <2> HIDE DEF S
  <2> QED BY <1>1, PickedFrom
<1>3. Extracts(links, s, {j \in C : s[j] \in Extended})
  <2> HIDE DEF S, s, C
  <2> QED BY <1>1, PickedAgain
<1>4. {j \in C : s[j] \in Extended} = J
  <2>1. \A j \in C : j \in Links(s) <=> is_extended(s[j])
    BY SlotPlaces DEF Links
  <2> HIDE DEF s, C
  <2> QED BY <1>1, <2>1 DEF Extended
<1>5. n \in Nat /\ DOMAIN links = 1..n
  BY <1>2
<1> HIDE DEF links, S
<1>6. PICK x \in [1..n -> J] : Counts(x, n, J) /\ \A i \in 1..n : links[i] = s[x[i]]
  <2> HIDE DEF J, C, s
  <2> QED BY <1>3, <1>4 DEF Extracts
<1>7. /\ n = 0 => J = {}
      /\ n # 0 => /\ 1 \in 1..n /\ x[1] \in J
                  /\ \A j \in J : x[1] <= j
  <2>1. CASE n = 0
    BY <1>6, <2>1 DEF Counts
  <2>2. CASE n # 0
    <3>1. 1 \in 1..n
      BY <1>5, <2>2
    <3>2. ASSUME NEW j \in J PROVE x[1] <= j
      <4>1. PICK i \in 1..n : x[i] = j
        BY <1>6 DEF Counts
      <4>2. i = 1 \/ x[1] < x[i]
        BY <1>6, <3>1 DEF Counts
      <4>3. x[1] \in Nat /\ j \in Nat
        BY <1>1, <1>6, <3>1
      <4> QED BY <4>1, <4>2, <4>3
    <3> QED BY <1>6, <2>2, <3>1, <3>2
  <2> QED BY <2>1, <2>2
<1>8. DOMAIN links \cap {1} = IF n = 0 THEN {} ELSE {1}
  BY <1>5
<1> DEFINE inside(b) == b > ext.start_lba /\ b < ext.start_lba + ext.num_sectors
<1>9. \A b : b \in NextEbr(l, ext) <=>
                 n # 0 /\ b = ext.start_lba + s[x[1]].start_lba /\ inside(b)
  <2>1. NextEbr(l, ext) = {b \in {ext.start_lba + links[i].start_lba : i \in DOMAIN links \cap {1}} :
                              inside(b)}
    BY DEF NextEbr, links
  <2> HIDE DEF inside
  <2>2. n # 0 => links[1] = s[x[1]]
    BY <1>6, <1>7
  <2> QED BY <1>8, <2>1, <2>2
<1>10. \A b : Linked(s, b, ext) <=>
                  n # 0 /\ b = ext.start_lba + s[x[1]].start_lba /\ inside(b)
  <2> SUFFICES ASSUME NEW b
               PROVE  (\E j \in J : /\ b = ext.start_lba + s[j].start_lba
                                    /\ \A i \in J : j <= i)
                      <=> n # 0 /\ b = ext.start_lba + s[x[1]].start_lba
    BY DEF Linked
  <2>1. \A j \in J : j \in Nat
    BY <1>1
  <2>2. ASSUME NEW j \in J, \A i \in J : j <= i PROVE n # 0 /\ j = x[1]
    <3>1. n # 0 /\ x[1] \in J
      BY <1>7
    <3> HIDE DEF J
    <3> QED BY <1>7, <2>1, <2>2, <3>1
  <2> HIDE DEF J
  <2> QED BY <1>7, <2>2
<1> QED BY <1>9, <1>10

-----------------------------------------------------------------------------
(* The chain of an extended partition.                                     *)

Ebrs(disk) == {l \in DOMAIN disk : disk[l].signature}

\* q is the beginning of a chain: distinct EBRs, each named by the one before.
Walked(disk, q, ext) ==
    /\ q \in Seq(Ebrs(disk)) /\ Len(q) <= MaxLogicals
    /\ \A i, k \in 1..Len(q) : q[i] = q[k] => i = k
    /\ q # <<>> => q[1] = ext.start_lba
    /\ \A i \in 1..Len(q) - 1 : Linked(disk[q[i]].slots, q[i + 1], ext)

\* The walk of q leads to e next.
UpNext(disk, q, e, ext) ==
    IF q = <<>> THEN e = ext.start_lba ELSE Linked(disk[q[Len(q)]].slots, e, ext)

\* There is nowhere new to go, or no hop left.
Complete(disk, q, ext) ==
    \/ Len(q) = MaxLogicals
    \/ \A e \in Ebrs(disk) : UpNext(disk, q, e, ext) => e \in ToSet(q)

\* One EBR is linked to one other at most.
LEMMA LinkedOnce ==
    ASSUME NEW disk \in Images, NEW l \in DOMAIN disk, NEW ext, NEW b, NEW c,
           Linked(disk[l].slots, b, ext), Linked(disk[l].slots, c, ext)
    PROVE  b = c
<1> DEFINE s == disk[l].slots
<1>1. \A j \in Counted(s) \cap Links(s) : j \in Nat
  BY PartitionTableAssumption DEF Counted, Described
<1>2. PICK j \in Counted(s) \cap Links(s) :
          b = ext.start_lba + s[j].start_lba /\ \A i \in Counted(s) \cap Links(s) : j <= i
  BY DEF Linked
<1>3. PICK k \in Counted(s) \cap Links(s) :
          c = ext.start_lba + s[k].start_lba /\ \A i \in Counted(s) \cap Links(s) : k <= i
  BY DEF Linked
<1> HIDE DEF s
<1> QED BY <1>1, <1>2, <1>3

\* ChainWithin adds the EBRs one link further on, time after time.
Grows(w, n, disk, ext) ==
    /\ w[0] = Ebrs(disk) \cap {ext.start_lba}
    /\ \A i \in 1..n : w[i] = w[i - 1] \cup
          {b \in Ebrs(disk) : \E a \in w[i - 1] : Linked(disk[a].slots, b, ext)}

LEMMA WithinTurns ==
    ASSUME NEW n \in Nat, NEW disk, NEW ext
    PROVE  \E w \in [0..n -> SUBSET Ebrs(disk)] :
              ChainWithin(n, disk, ext) = w[n] /\ Grows(w, n, disk, ext)
<1> DEFINE E == Ebrs(disk)
           V == SUBSET E
           first == E \cap {ext.start_lba}
           more(t) == t \cup {b \in E : \E a \in t : Linked(disk[a].slots, b, ext)}
           step == [i \in 1..n |-> [t \in V |-> more(t)]]
           whole(f) == [i \in 0..n |-> IF i = 0 THEN E \cap {ext.start_lba}
                           ELSE f[i - 1] \cup {b \in E : \E a \in f[i - 1] :
                                                   Linked(disk[a].slots, b, ext)}]
           within == CHOOSE f : f = whole(f)
<1>1. ChainWithin(n, disk, ext) = within[n]
  BY DEF ChainWithin, Ebrs
<1>2. first \in V /\ \A t \in V : more(t) \in V
  OBVIOUS
<1>3. step \in [1..n -> [V -> V]]
  BY <1>2
<1>4. PICK g \in [0..n -> V] : Recursive(g, n, first, step)
  <2>1. first \in V
    BY <1>2
  <2> HIDE DEF V, E, step, first, more
  <2> QED BY <1>3, <2>1, RecursionExists
<1>5. \A i \in 1..n : i - 1 \in 0..n /\ g[i] = more(g[i - 1])
  <2> SUFFICES ASSUME NEW i \in 1..n PROVE i - 1 \in 0..n /\ g[i] = more(g[i - 1])
    OBVIOUS
  <2>1. i - 1 \in 0..n
    OBVIOUS
  <2>2. g[i - 1] \in V
    BY <2>1
  <2> HIDE DEF V, more
  <2> QED BY <1>4, <2>1, <2>2 DEF Recursive
<1>6. g = whole(g)
  <2>1. ASSUME NEW i \in 0..n PROVE g[i] = whole(g)[i]
    <3>1. CASE i = 0
      BY <1>4, <3>1 DEF Recursive
    <3>2. CASE i # 0
      <4>1. i \in 1..n
        BY <3>2
      <4> QED BY <1>5, <3>2, <4>1
    <3> QED BY <3>1, <3>2
  <2> HIDE DEF V
  <2> QED BY <1>4, <2>1
<1>7. within = whole(within)
  <2> HIDE DEF whole
  <2> QED BY <1>6
<1>8. within = g
  <2> HIDE DEF within
  <2>1. within = [i \in 0..n |-> within[i]] /\ within[0] = g[0]
    BY <1>4, <1>7 DEF Recursive
  <2>2. ASSUME NEW i \in 1..n, within[i - 1] = g[i - 1] PROVE within[i] = g[i]
    <3>1. i \in 0..n /\ i # 0
      OBVIOUS
    <3>2. within[i] = more(within[i - 1])
      BY <1>7, <3>1
    <3> QED BY <1>5, <2>2, <3>2
  <2>3. \A i \in 0..n : within[i] = g[i]
    <3>1. Alike(within, g, n)
      BY <2>1, <2>2 DEF Alike
    <3> QED BY <3>1, SameRecursion
  <2>4. g = [i \in 0..n |-> g[i]]
    OBVIOUS
  <2> QED BY <2>1, <2>3, <2>4
<1>9. ChainWithin(n, disk, ext) = g[n]
  <2> HIDE DEF within
  <2> QED BY <1>1, <1>8
<1> HIDE DEF within
<1>10. Grows(g, n, disk, ext)
  BY <1>4, <1>5 DEF Grows, Recursive
<1> QED BY <1>4, <1>9, <1>10

\* A walk that is complete has met all that the chain holds.
LEMMA ChainIsWalked ==
    ASSUME NEW disk \in Images, NEW ext, NEW q, Walked(disk, q, ext), Complete(disk, q, ext)
    PROVE  ChainWithin(MaxLogicals - 1, disk, ext) = ToSet(q)
<1> DEFINE M == MaxLogicals - 1
           E == Ebrs(disk)
           n == Len(q)
           Earlier(k) == {q[i] : i \in {j \in 1..n : j <= k + 1}}
<1>1. M \in Nat
  BY PartitionTableAssumption
<1>2. PICK w \in [0..M -> SUBSET E] :
              ChainWithin(M, disk, ext) = w[M] /\ Grows(w, M, disk, ext)
  BY <1>1, WithinTurns
<1>3. /\ n \in Nat /\ n <= M + 1 /\ \A i \in 1..n : q[i] \in E
      /\ n = 0 <=> q = <<>>
      /\ MaxLogicals = M + 1
  BY PartitionTableAssumption DEF Walked
<1>4. \A l \in E : l \in DOMAIN disk
  BY DEF Ebrs
<1>5. w[0] = Earlier(0)
  <2>1. CASE q = <<>>
    <3>1. ext.start_lba \notin E
      BY <1>1, <1>3, <2>1 DEF Complete, UpNext, ToSet
    <3> QED BY <1>2, <1>3, <2>1, <3>1 DEF Grows
  <2>2. CASE q # <<>>
    <3>1. 1 \in 1..n /\ q[1] = ext.start_lba /\ q[1] \in E
      BY <1>3, <2>2 DEF Walked
    <3>2. Earlier(0) = {q[1]}
      BY <1>3, <3>1
    <3> QED BY <1>2, <3>1, <3>2 DEF Grows
  <2> QED BY <2>1, <2>2
<1> DEFINE P == {k \in Nat : k <= M => w[k] = Earlier(k)}
<1>6. ASSUME NEW k \in P PROVE k + 1 \in P
  <2> SUFFICES ASSUME k + 1 <= M PROVE w[k + 1] = Earlier(k + 1)
    OBVIOUS
  <2>1. k \in Nat /\ k + 1 \in 1..M /\ (k + 1) - 1 = k
    BY <1>1
  <2>2. w[k] = Earlier(k)
    BY <1>1, <2>1
  <2>3. w[k + 1] = Earlier(k) \cup
            {b \in E : \E a \in Earlier(k) : Linked(disk[a].slots, b, ext)}
    BY <1>2, <2>1, <2>2 DEF Grows
  <2>4. ASSUME NEW b \in E, NEW a \in Earlier(k), Linked(disk[a].slots, b, ext)
        PROVE  b \in Earlier(k + 1)
    <3>1. PICK i \in 1..n : i <= k + 1 /\ a = q[i]
      OBVIOUS
    <3>2. CASE i < n
      <4>1. i \in 1..n - 1 /\ i + 1 \in 1..n /\ i + 1 <= (k + 1) + 1
        BY <1>3, <2>1, <3>1, <3>2
      <4>2. Linked(disk[a].slots, q[i + 1], ext)
        BY <3>1, <4>1 DEF Walked
      <4>3. b = q[i + 1]
        BY <1>3, <1>4, <2>4, <3>1, <4>2, LinkedOnce
      <4> QED BY <4>1, <4>3
    <3>3. CASE i = n
      <4>1. n # MaxLogicals /\ q # <<>>
        BY <1>1, <1>3, <2>1, <3>1, <3>3
      <4>2. UpNext(disk, q, b, ext)
        BY <2>4, <3>1, <3>3, <4>1 DEF UpNext
      <4>3. b \in ToSet(q)
        BY <4>1, <4>2 DEF Complete
      <4>4. PICK j \in 1..n : b = q[j]
        BY <4>3 DEF ToSet, Walked
      <4>5. j <= (k + 1) + 1
        BY <1>3, <2>1, <3>1, <3>3
      <4> QED BY <4>4, <4>5
    <3> QED BY <1>3, <3>1, <3>2, <3>3
  <2>5. ASSUME NEW i \in 1..n, i <= (k + 1) + 1 PROVE q[i] \in w[k + 1]
    <3>1. CASE i <= k + 1
      BY <2>3, <3>1
    <3>2. CASE i > k + 1
      <4>1. i - 1 \in 1..n - 1 /\ i - 1 \in 1..n /\ i - 1 <= k + 1 /\ (i - 1) + 1 = i
        BY <1>3, <2>1, <2>5, <3>2
      <4>2. Linked(disk[q[i - 1]].slots, q[i], ext)
        BY <4>1 DEF Walked
      <4>3. q[i - 1] \in Earlier(k) /\ q[i] \in E
        BY <1>3, <4>1
      <4> QED BY <2>3, <4>2, <4>3
    <3> QED BY <1>3, <2>1, <3>1, <3>2
  <2>6. Earlier(k) \subseteq Earlier(k + 1)
    BY <1>3, <2>1
  <2> QED BY <2>3, <2>4, <2>5, <2>6
<1>7. M \in P
  <2>1. P \in SUBSET Nat /\ 0 \in P
    BY <1>5
  <2> HIDE DEF P
  <2>2. P = Nat
    BY <1>6, <2>1, SetInduction
  <2> QED BY <1>1, <2>2
<1>8. w[M] = Earlier(M)
  BY <1>1, <1>7
<1>9. Earlier(M) = ToSet(q)
  <2>1. DOMAIN q = 1..n
    BY DEF Walked
  <2>2. \A i \in 1..n : i <= M + 1
    BY <1>1, <1>3
  <2> QED BY <2>1, <2>2 DEF ToSet
<1> QED BY <1>2, <1>8, <1>9

-----------------------------------------------------------------------------
(* What has been listed so far.                                            *)

Primaries(disk) == Picked(parse_mbr(disk[0]), Slots \ Extended)

\* o lists the primaries and then the partitions that the slots in W hold.
Filled(disk, o, W) ==
    LET n == Len(Primaries(disk))
    IN  /\ n <= Len(o) /\ \A i \in 1..n : o[i] = Primaries(disk)[i]
        /\ \E f \in Bijection(n + 1..Len(o), W) : \A i \in n + 1..Len(o) : o[i] = Placed(disk, f[i])

\* The EBRs of the chains that are done, where those of the slots J are not.
Finished(disk, J) ==
    {c \in (Links(disk[0].slots) \ J) \X DOMAIN disk :
        c[2] \in ChainWithin(MaxLogicals - 1, disk, disk[0].slots[c[1]])}

\* The chains todo are still to be walked, and o lists what those before them
\* hold, and what the EBRs in seen hold, which are of the first of todo.
Pending(disk, o, todo, seen) ==
    \E J \in SUBSET Links(disk[0].slots) : \E x \in [1..Len(todo) -> J] :
        /\ Counts(x, Len(todo), J)
        /\ \A i \in 1..Len(todo) : todo[i] = disk[0].slots[x[i]]
        /\ Filled(disk, o, Held(disk, Finished(disk, J) \cup {<<x[1], a>> : a \in ToSet(seen)}))

\* What an EBR holds is listed after what is listed already.
LEMMA FilledMore ==
    ASSUME NEW disk, NEW S, NEW o \in Seq(S), NEW W, Filled(disk, o, W),
           NEW c, NEW J, NEW l \in Seq(S), NEW x \in [1..Len(l) -> J], Counts(x, Len(l), J),
           J \in SUBSET Nat, Len(Primaries(disk)) \in Nat,
           \A i \in 1..Len(l) : l[i] = Placed(disk, <<c, x[i]>>),
           \A h \in W : h[1] # c
    PROVE  Filled(disk, o \o l, W \cup ({c} \X J))
<1> DEFINE n == Len(Primaries(disk))
           N == Len(o)
           m == Len(l)
           V == W \cup ({c} \X J)
           t == o \o l
<1>1. PICK f \in Bijection(n + 1..N, W) : \A i \in n + 1..N : o[i] = Placed(disk, f[i])
  BY DEF Filled
<1>2. /\ n \in Nat /\ N \in Nat /\ m \in Nat /\ n <= N
      /\ \A i \in 1..n : o[i] = Primaries(disk)[i]
      /\ \A i \in 1..m : l[i] = Placed(disk, <<c, x[i]>>)
  BY DEF Filled
<1>3. /\ Len(t) = N + m
      /\ \A i \in 1..N : t[i] = o[i]
      /\ \A i \in N + 1..N + m : i - N \in 1..m /\ t[i] = l[i - N]
  OBVIOUS
<1>4. /\ f \in [n + 1..N -> W]
      /\ \A i, k \in n + 1..N : f[i] = f[k] => i = k
      /\ \A h \in W : \E i \in n + 1..N : f[i] = h
  BY <1>1 DEF Bijection, Injection, Surjection, IsInjective
<1>5. /\ \A i, k \in 1..m : x[i] = x[k] => i = k
      /\ \A j \in J : \E i \in 1..m : x[i] = j
  <2>1. \A i \in 1..m : x[i] \in Nat
    OBVIOUS
  <2>2. \A i, k \in 1..m : i < k => x[i] < x[k]
    BY DEF Counts
  <2> QED BY <2>1, <2>2 DEF Counts
<1> HIDE DEF n, N, m, t
<1> DEFINE g == [i \in n + 1..N + m |-> IF i <= N THEN f[i] ELSE <<c, x[i - N]>>]
<1>6. /\ \A i \in n + 1..N : g[i] = f[i] /\ g[i] \in W
      /\ \A i \in N + 1..N + m : /\ i - N \in 1..m /\ x[i - N] \in J
                                 /\ g[i] = <<c, x[i - N]>> /\ g[i][1] = c /\ g[i] \notin W
  <2>1. \A i \in n + 1..N : g[i] = f[i] /\ g[i] \in W
    BY <1>2, <1>4
  <2>2. ASSUME NEW i \in N + 1..N + m
        PROVE  /\ i - N \in 1..m /\ x[i - N] \in J
               /\ g[i] = <<c, x[i - N]>> /\ g[i][1] = c /\ g[i] \notin W
    <3>1. i - N \in 1..m /\ i \in n + 1..N + m /\ ~(i <= N)
      BY <1>2
    <3>2. g[i] = <<c, x[i - N]>>
      BY <3>1
    <3>3. x[i - N] \in J
      BY <3>1 DEF m
    <3> HIDE DEF g
    <3> QED BY <3>1, <3>2, <3>3
  <2> QED BY <2>1, <2>2
<1>7. \A i \in n + 1..N + m : i \in n + 1..N \/ i \in N + 1..N + m
  BY <1>2
<1>8. g \in [n + 1..N + m -> V]
  <2>1. ASSUME NEW i \in n + 1..N + m PROVE g[i] \in V
    <3> HIDE DEF g
    <3>1. CASE i \in n + 1..N
      BY <1>6, <3>1
    <3>2. CASE i \in N + 1..N + m
      <4>1. g[i] = <<c, x[i - N]>> /\ x[i - N] \in J
        BY <1>6, <3>2
      <4>2. <<c, x[i - N]>> \in {c} \X J
        BY <4>1
      <4> QED BY <4>1, <4>2
    <3> QED BY <1>7, <3>1, <3>2
  <2> HIDE DEF V
  <2> QED BY <2>1
<1>9. ASSUME NEW i \in n + 1..N + m, NEW k \in n + 1..N + m, g[i] = g[k] PROVE i = k
  <2> HIDE DEF g
  <2>1. CASE i \in n + 1..N /\ k \in n + 1..N
    BY <1>4, <1>6, <1>9, <2>1
  <2>2. CASE i \in N + 1..N + m /\ k \in N + 1..N + m
    <3>1. x[i - N] = x[k - N] /\ i - N \in 1..m /\ k - N \in 1..m
      BY <1>6, <1>9, <2>2
    <3>2. i - N = k - N
      BY <1>5, <3>1
    <3> QED BY <1>2, <3>2
  <2>3. ~(i \in n + 1..N /\ k \in N + 1..N + m) /\ ~(k \in n + 1..N /\ i \in N + 1..N + m)
    BY <1>6, <1>9
  <2> QED BY <1>7, <2>1, <2>2, <2>3
<1>10. ASSUME NEW h \in V PROVE \E i \in n + 1..N + m : g[i] = h
  <2>1. CASE h \in W
    <3>1. PICK i \in n + 1..N : f[i] = h
      BY <1>4, <2>1
    <3> QED BY <1>2, <1>6, <3>1
  <2>2. CASE h \in {c} \X J
    <3>1. PICK j \in J : h = <<c, j>>
      <4>1. h = <<h[1], h[2]>> /\ h[1] = c /\ h[2] \in J
        BY <2>2
      <4> QED BY <4>1
    <3>2. PICK i \in 1..m : x[i] = j
      BY <1>5
    <3>3. N + i \in N + 1..N + m /\ N + i \in n + 1..N + m /\ (N + i) - N = i
      BY <1>2
    <3>4. g[N + i] = h
      BY <1>6, <3>1, <3>2, <3>3
    <3> QED BY <3>3, <3>4
  <2> QED BY <2>1, <2>2
<1>11. g \in Bijection(n + 1..N + m, V)
  <2> HIDE DEF g, V
  <2> QED BY <1>8, <1>9, <1>10 DEF Bijection, Injection, Surjection, IsInjective
<1>12. ASSUME NEW i \in n + 1..N + m PROVE t[i] = Placed(disk, g[i])
  <2> HIDE DEF g
  <2>1. CASE i \in n + 1..N
    BY <1>1, <1>2, <1>3, <1>6, <2>1
  <2>2. CASE i \in N + 1..N + m
    <3>1. i - N \in 1..m /\ t[i] = l[i - N] /\ g[i] = <<c, x[i - N]>>
      BY <1>3, <1>6, <2>2
    <3>2. l[i - N] = Placed(disk, <<c, x[i - N]>>)
      BY <1>2, <3>1
    <3> QED BY <3>1, <3>2
  <2> QED BY <1>7, <2>1, <2>2
<1> HIDE DEF g, V
<1>13. n <= Len(t) /\ \A i \in 1..n : t[i] = Primaries(disk)[i]
  <2>1. n <= Len(t)
    BY <1>2, <1>3
  <2>2. ASSUME NEW i \in 1..n PROVE t[i] = Primaries(disk)[i]
    <3>1. i \in 1..N
      BY <1>2
    <3>2. t[i] = o[i] /\ o[i] = Primaries(disk)[i]
      BY <1>2, <1>3, <3>1
    <3> QED BY <3>2
  <2> QED BY <2>1, <2>2
<1>14. Filled(disk, t, V)
  BY <1>3, <1>11, <1>12, <1>13 DEF Filled, n
<1> QED BY <1>14 DEF t, V

\* What the slots of one more EBR hold.
LEMMA HeldMore ==
    ASSUME NEW disk, NEW C, NEW c
    PROVE  Held(disk, C \cup {c}) = Held(disk, C) \cup ({c} \X LogicalSlots(disk[c[2]].slots))
BY DEF Held

\* The primaries are listed first, and nothing else before the chains.
LEMMA PendingFirst ==
    ASSUME image \in Images, 0 \in DOMAIN image
    PROVE  Pending(image, Primaries(image), Picked(parse_mbr(image[0]), Extended), <<>>)
<1> DEFINE s == image[0].slots
           S == {c \in Slots : c.num_sectors > 0}
           t == parse_mbr(image[0])
           todo == Picked(t, Extended)
           D == Described(s)
           J == Links(s)
           o == Primaries(image)
<1>1. /\ t \in Seq(S) /\ Extracts(t, s, D) /\ D \in SUBSET Nat /\ D \subseteq DOMAIN s
      /\ \A j \in DOMAIN s : s[j] \in Slots
  BY ParsedSlots, DescribedExtracted, SlotPlaces
<1>2. Extracts(todo, s, {j \in D : s[j] \in Extended})
  <2> HIDE DEF t, s, S, D
  <2> QED BY <1>1, PickedAgain
<1>3. {j \in D : s[j] \in Extended} = J
  <2> HIDE DEF s
  <2>1. \A j \in D : s[j] \in Slots
    BY <1>1
  <2> QED BY <2>1 DEF Links, Extended
<1>4. o \in Seq(S)
  <2>1. Picked(t, Slots \ Extended) \in Seq(S \cap (Slots \ Extended))
    <3> HIDE DEF t, S
    <3> QED BY <1>1, PickedFrom
  <2>2. S \cap (Slots \ Extended) \subseteq S
    OBVIOUS
  <2> HIDE DEF S
  <2>3. Seq(S \cap (Slots \ Extended)) \subseteq Seq(S)
    BY <2>2
  <2> QED BY <2>1, <2>3 DEF Primaries
<1>5. PICK x \in [1..Len(todo) -> J] :
          Counts(x, Len(todo), J) /\ \A i \in 1..Len(todo) : todo[i] = s[x[i]]
  <2> HIDE DEF todo, s, D, J
  <2> QED BY <1>2, <1>3 DEF Extracts
<1>6. Held(image, Finished(image, J) \cup {<<x[1], a>> : a \in ToSet(<<>>)}) = {}
  <2>1. Finished(image, J) = {}
    BY DEF Finished
  <2>2. {<<x[1], a>> : a \in ToSet(<<>>)} = {}
    BY DEF ToSet
  <2> QED BY <2>1, <2>2 DEF Held
<1>7. Filled(image, o, {})
  <2> DEFINE n == Len(o)
             f == [i \in {} |-> 0]
  <2>1. n \in Nat /\ n + 1..n = {}
    BY <1>4
  <2>2. f \in Bijection({}, {})
    BY DEF Bijection, Injection, Surjection, IsInjective
  <2> HIDE DEF f
  <2> QED BY <2>1, <2>2 DEF Filled
<1> HIDE DEF o, todo
<1>8. Filled(image, o, Held(image, Finished(image, J) \cup {<<x[1], a>> : a \in ToSet(<<>>)}))
  BY <1>6, <1>7
<1> HIDE DEF t
<1> QED BY <1>5, <1>8 DEF Pending, o, todo, t

\* The EBR at work adds its logical partitions.
LEMMA PendingMore ==
    ASSUME image \in Images, 0 \in DOMAIN image, NEW S, NEW o \in Seq(S),
           NEW todo \in Seq(Chains), todo # <<>>, NEW q \in Seq(Ebrs(image)),
           Pending(image, o, todo, q),
           NEW e \in Ebrs(image), e \notin ToSet(q),
           Logicals(e, Head(todo)) \in Seq(S)
    PROVE  Pending(image, o \o Logicals(e, Head(todo)), todo, Append(q, e))
<1> DEFINE s == image[0].slots
           n == Len(todo)
           l == Logicals(e, Head(todo))
<1>0. PICK J \in SUBSET Links(s) : \E x \in [1..n -> J] :
        /\ Counts(x, n, J)
        /\ \A i \in 1..n : todo[i] = s[x[i]]
        /\ Filled(image, o, Held(image, Finished(image, J) \cup {<<x[1], a>> : a \in ToSet(q)}))
  BY DEF Pending
<1>1. PICK x \in [1..n -> J] :
        /\ Counts(x, n, J)
        /\ \A i \in 1..n : todo[i] = s[x[i]]
        /\ Filled(image, o, Held(image, Finished(image, J) \cup {<<x[1], a>> : a \in ToSet(q)}))
  BY <1>0
<1> DEFINE C == Finished(image, J) \cup {<<x[1], a>> : a \in ToSet(q)}
           c == <<x[1], e>>
           L == LogicalSlots(image[e].slots)
<1>2. 1 \in 1..n /\ x[1] \in J
  <2>1. n \in Nat /\ n # 0
    OBVIOUS
  <2>2. 1 \in 1..n
    BY <2>1
  <2> HIDE DEF n
  <2> QED BY <2>2
<1>3. e \in DOMAIN image
  BY DEF Ebrs
<1>4. PICK y \in [1..Len(l) -> L] :
        /\ Counts(y, Len(l), L)
        /\ \A i \in 1..Len(l) : l[i] = Placed(image, <<c, y[i]>>)
  <2>1. c[2] = e
    OBVIOUS
  <2> HIDE DEF s, n, C, c
  <2>2. PICK y \in [1..Len(l) -> L] :
          /\ Counts(y, Len(l), L)
          /\ \A i \in 1..Len(l) : \A b : b[2] = e => l[i] = Placed(image, <<b, y[i]>>)
    BY <1>3, LogicalsExtracted
  <2> HIDE DEF l, L
  <2> QED BY <2>1, <2>2
<1>5. \A h \in Held(image, C) : h[1] # c
  <2>1. c \notin Finished(image, J)
    BY <1>2 DEF Finished
  <2>2. c \notin {<<x[1], a>> : a \in ToSet(q)}
    OBVIOUS
  <2>3. \A h \in Held(image, C) : h[1] \in C
    BY DEF Held
  <2> QED BY <2>1, <2>2, <2>3
<1>6. L \in SUBSET Nat
  BY <1>3, SlotPlaces
<1>7. Len(Primaries(image)) \in Nat
  BY TablePicked DEF Primaries
<1>8. Filled(image, o \o l, Held(image, C) \cup ({c} \X L))
  <2> HIDE DEF l, L, C, c
  <2> QED BY <1>1, <1>4, <1>5, <1>6, <1>7, FilledMore DEF C, l
<1>9. Held(image, C) \cup ({c} \X L) = Held(image, C \cup {c})
  <2>1. c[2] = e
    OBVIOUS
  <2> HIDE DEF C, c
  <2>2. Held(image, C \cup {c}) = Held(image, C) \cup ({c} \X LogicalSlots(image[c[2]].slots))
    BY HeldMore
  <2> QED BY <2>1, <2>2
<1>10. C \cup {c} = Finished(image, J) \cup {<<x[1], a>> : a \in ToSet(Append(q, e))}
  <2>1. ToSet(Append(q, e)) = ToSet(q) \cup {e}
    <3> DEFINE r == Append(q, e)
               k == Len(q)
    <3>1. k \in Nat /\ DOMAIN q = 1..k /\ DOMAIN r = 1..k + 1 /\ r[k + 1] = e
          /\ \A i \in 1..k : r[i] = q[i]
      OBVIOUS
    <3>2. \A i \in 1..k + 1 : i \in 1..k \/ i = k + 1
      BY <3>1
    <3>3. 1..k \subseteq 1..k + 1 /\ k + 1 \in 1..k + 1
      BY <3>1
    <3> HIDE DEF r, k
    <3>4. ToSet(r) = ToSet(q) \cup {e}
      BY <3>1, <3>2, <3>3 DEF ToSet
    <3> QED BY <3>4 DEF r
  <2> QED BY <2>1
<1>11. Filled(image, o \o l,
              Held(image, Finished(image, J) \cup {<<x[1], a>> : a \in ToSet(Append(q, e))}))
  <2> HIDE DEF C, c, L, l
  <2> QED BY <1>8, <1>9, <1>10
<1> QED BY <1>1, <1>11 DEF Pending

\* A chain that is walked to its end is done.
LEMMA PendingNext ==
    ASSUME NEW disk, NEW o, NEW todo \in Seq(Chains), todo # <<>>, NEW q,
           Links(disk[0].slots) \in SUBSET Nat,
           Pending(disk, o, todo, q), ToSet(q) \subseteq DOMAIN disk,
           ChainWithin(MaxLogicals - 1, disk, Head(todo)) = ToSet(q)
    PROVE  Pending(disk, o, Tail(todo), <<>>)
<1> DEFINE s == disk[0].slots
           n == Len(todo)
           chain(j) == ChainWithin(MaxLogicals - 1, disk, s[j])
<1>1. PICK J \in SUBSET Links(s) : \E x \in [1..n -> J] :
        /\ Counts(x, n, J)
        /\ \A i \in 1..n : todo[i] = s[x[i]]
        /\ Filled(disk, o, Held(disk, Finished(disk, J) \cup {<<x[1], a>> : a \in ToSet(q)}))
  BY DEF Pending
<1>2. PICK x \in [1..n -> J] :
        /\ Counts(x, n, J)
        /\ \A i \in 1..n : todo[i] = s[x[i]]
        /\ Filled(disk, o, Held(disk, Finished(disk, J) \cup {<<x[1], a>> : a \in ToSet(q)}))
  BY <1>1
<1>3. /\ n \in Nat /\ n # 0 /\ Head(todo) = todo[1]
      /\ Len(Tail(todo)) = n - 1 /\ \A i \in 1..n - 1 : Tail(todo)[i] = todo[i + 1]
  OBVIOUS
<1> DEFINE r == Tail(todo)
           K == J \ {x[1]}
           y == [i \in 1..n - 1 |-> x[i + 1]]
<1> HIDE DEF n, r
<1>4. 1 \in 1..n /\ x[1] \in J /\ chain(x[1]) = ToSet(q)
  <2>1. 1 \in 1..n
    BY <1>3
  <2>2. Head(todo) = s[x[1]]
    BY <1>2, <1>3, <2>1
  <2> QED BY <2>1, <2>2
<1>5. \A i \in 1..n - 1 : /\ i \in 1..n /\ i + 1 \in 1..n /\ 1 < i + 1
                          /\ y[i] = x[i + 1] /\ x[1] < y[i]
  <2> SUFFICES ASSUME NEW i \in 1..n - 1
               PROVE  /\ i \in 1..n /\ i + 1 \in 1..n /\ 1 < i + 1
                      /\ y[i] = x[i + 1] /\ x[1] < y[i]
    OBVIOUS
  <2>1. i \in 1..n /\ i + 1 \in 1..n /\ 1 < i + 1
    BY <1>3
  <2>2. y[i] = x[i + 1]
    OBVIOUS
  <2>3. x[1] < x[i + 1]
    BY <1>2, <1>4, <2>1 DEF Counts
  <2> QED BY <2>1, <2>2, <2>3
<1>6. \A j \in J : j \in Nat
  OBVIOUS
<1>7. y \in [1..n - 1 -> K]
  <2>1. \A i \in 1..n - 1 : y[i] \in K
    <3> HIDE DEF y
    <3> QED BY <1>2, <1>4, <1>5, <1>6
  <2> HIDE DEF K
  <2> QED BY <2>1
<1> HIDE DEF y
<1>8. Counts(y, n - 1, K)
  <2>1. ASSUME NEW i \in 1..n - 1, NEW k \in 1..n - 1, i < k PROVE y[i] < y[k]
    <3>1. i + 1 < k + 1 /\ i + 1 \in 1..n /\ k + 1 \in 1..n
      BY <1>5, <2>1
    <3> QED BY <1>2, <1>5, <3>1 DEF Counts
  <2>2. ASSUME NEW j \in K PROVE \E i \in 1..n - 1 : y[i] = j
    <3>1. PICK i \in 1..n : x[i] = j
      BY <1>2 DEF Counts
    <3>2. i - 1 \in 1..n - 1 /\ (i - 1) + 1 = i
      BY <1>3, <3>1
    <3>3. y[i - 1] = j
      BY <1>5, <3>1, <3>2
    <3> QED BY <3>2, <3>3
  <2> QED BY <1>7, <2>1, <2>2 DEF Counts
<1>9. \A i \in 1..n - 1 : r[i] = s[y[i]]
  BY <1>2, <1>3, <1>5 DEF r
<1>10. Finished(disk, J) \cup {<<x[1], a>> : a \in ToSet(q)} = Finished(disk, K)
  <2>1. \A c : c \in Finished(disk, J) <=>
                  /\ c \in (Links(s) \ J) \X DOMAIN disk
                  /\ c[2] \in chain(c[1])
    BY DEF Finished
  <2>2. \A c : c \in Finished(disk, K) <=>
                  /\ c \in (Links(s) \ K) \X DOMAIN disk
                  /\ c[2] \in chain(c[1])
    BY DEF Finished
  <2> HIDE DEF chain, s
  <2>3. ASSUME NEW a \in ToSet(q) PROVE <<x[1], a>> \in Finished(disk, K)
    <3> DEFINE c == <<x[1], a>>
    <3>1. c \in (Links(s) \ K) \X DOMAIN disk
      BY <1>4
    <3>2. c[1] = x[1] /\ c[2] = a
      OBVIOUS
    <3> HIDE DEF c, K
    <3>3. c \in Finished(disk, K)
      BY <1>4, <2>2, <3>1, <3>2
    <3> QED BY <3>3 DEF c
  <2>4. ASSUME NEW c \in Finished(disk, J) PROVE c \in Finished(disk, K)
    <3>1. c \in (Links(s) \ J) \X DOMAIN disk /\ c[2] \in chain(c[1])
      BY <2>1
    <3>2. Links(s) \ J \subseteq Links(s) \ K
      OBVIOUS
    <3> HIDE DEF K
    <3>3. c \in (Links(s) \ K) \X DOMAIN disk
      BY <3>1, <3>2
    <3> QED BY <2>2, <3>1, <3>3
  <2>5. ASSUME NEW c \in Finished(disk, K), c \notin Finished(disk, J)
        PROVE  \E a \in ToSet(q) : c = <<x[1], a>>
    <3>1. c \in (Links(s) \ K) \X DOMAIN disk /\ c[2] \in chain(c[1])
      BY <2>2
    <3>2. c = <<c[1], c[2]>> /\ c[1] \in Links(s) \ K /\ c[2] \in DOMAIN disk
      BY <3>1
    <3>3. c[1] \in J
      <4> SUFFICES ASSUME c[1] \notin J PROVE FALSE
        OBVIOUS
      <4>1. <<c[1], c[2]>> \in (Links(s) \ J) \X DOMAIN disk
        BY <3>2
      <4> QED BY <2>1, <2>5, <3>1, <3>2, <4>1
    <3>4. c[1] = x[1]
      BY <3>2, <3>3
    <3>5. c[2] \in ToSet(q)
      BY <1>4, <3>1, <3>4
    <3> QED BY <3>2, <3>4, <3>5
  <2> QED BY <2>3, <2>4, <2>5
<1>11. {<<y[1], a>> : a \in ToSet(<<>>)} = {}
  BY DEF ToSet
<1>12. Filled(disk, o, Held(disk, Finished(disk, K) \cup {<<y[1], a>> : a \in ToSet(<<>>)}))
  <2>1. Finished(disk, K) \cup {<<y[1], a>> : a \in ToSet(<<>>)} = Finished(disk, K)
    BY <1>11
  <2> HIDE DEF K
  <2> QED BY <1>2, <1>10, <2>1
<1>13. Len(r) = n - 1 /\ K \in SUBSET Links(s)
  BY <1>3 DEF r
<1> HIDE DEF K
<1>14. Pending(disk, o, r, <<>>)
  <2>1. y \in [1..Len(r) -> K] /\ Counts(y, Len(r), K) /\ \A i \in 1..Len(r) : r[i] = s[y[i]]
    BY <1>7, <1>8, <1>9, <1>13
  <2> QED BY <1>12, <1>13, <2>1 DEF Pending
<1> QED BY <1>14 DEF r

\* With no chain left, everything is listed.
LEMMA PendingNone ==
    ASSUME NEW disk, NEW o, Pending(disk, o, <<>>, <<>>)
    PROVE  Filled(disk, o, Held(disk, ChainedEbrs(disk)))
<1> DEFINE s == disk[0].slots
<1>1. Len(<<>>) = 0 /\ 1..0 = {} /\ ToSet(<<>>) = {}
  BY DEF ToSet
<1> DEFINE t == <<>>
<1> HIDE DEF t
<1>2. PICK J \in SUBSET Links(s) : \E x \in [1..Len(t) -> J] :
        /\ Counts(x, Len(t), J)
        /\ \A i \in 1..Len(t) : t[i] = s[x[i]]
        /\ Filled(disk, o, Held(disk, Finished(disk, J) \cup {<<x[1], a>> : a \in ToSet(t)}))
  <2>1. Pending(disk, o, t, t)
    BY DEF t
  <2> QED BY <2>1 DEF Pending
<1>3. PICK x \in [1..Len(t) -> J] :
        /\ Counts(x, Len(t), J)
        /\ Filled(disk, o, Held(disk, Finished(disk, J) \cup {<<x[1], a>> : a \in ToSet(t)}))
  BY <1>2
<1>4. J = {}
  BY <1>1, <1>3 DEF Counts, t
<1>5. Finished(disk, J) \cup {<<x[1], a>> : a \in ToSet(t)} = ChainedEbrs(disk)
  BY <1>1, <1>4 DEF Finished, ChainedEbrs, t
<1> QED BY <1>3, <1>5

\* The walk goes on with an EBR that is new.
LEMMA WalkedMore ==
    ASSUME NEW disk, NEW ext, NEW q, Walked(disk, q, ext), Len(q) < MaxLogicals,
           NEW e \in Ebrs(disk), UpNext(disk, q, e, ext), e \notin ToSet(q)
    PROVE  Walked(disk, Append(q, e), ext)
<1> DEFINE r == Append(q, e)
           n == Len(q)
           E == Ebrs(disk)
<1>1. q \in Seq(E) /\ e \in E /\ MaxLogicals \in Nat
  BY PartitionTableAssumption DEF Walked
<1>2. /\ n \in Nat /\ DOMAIN q = 1..n /\ r \in Seq(E) /\ Len(r) = n + 1 /\ r[n + 1] = e
      /\ \A i \in 1..n : r[i] = q[i]
      /\ n = 0 <=> q = <<>>
  <2> HIDE DEF E
  <2> QED BY <1>1
<1> HIDE DEF r, n
<1>3. \A i \in 1..n + 1 : i \in 1..n \/ i = n + 1
  BY <1>2
<1>4. \A i \in 1..n : q[i] # e
  BY <1>2 DEF ToSet
<1>5. ASSUME NEW i \in 1..n + 1, NEW k \in 1..n + 1, r[i] = r[k] PROVE i = k
  <2>1. CASE i \in 1..n /\ k \in 1..n
    BY <1>2, <1>5, <2>1 DEF Walked, n
  <2> QED BY <1>2, <1>3, <1>4, <1>5, <2>1
<1>6. r[1] = ext.start_lba
  <2>1. CASE q = <<>>
    BY <1>2, <2>1 DEF UpNext
  <2>2. CASE q # <<>>
    <3>1. 1 \in 1..n
      BY <1>2, <2>2
    <3> QED BY <1>2, <2>2, <3>1 DEF Walked
  <2> QED BY <2>1, <2>2
<1>7. ASSUME NEW i \in 1..(n + 1) - 1 PROVE Linked(disk[r[i]].slots, r[i + 1], ext)
  <2>1. CASE i = n
    <3>1. q # <<>> /\ n \in 1..n
      BY <1>2, <2>1
    <3> QED BY <1>2, <2>1, <3>1 DEF UpNext, n
  <2>2. CASE i # n
    <3>1. i \in 1..n - 1 /\ i \in 1..n /\ i + 1 \in 1..n
      BY <1>2, <2>2
    <3> QED BY <1>2, <3>1 DEF Walked, n
  <2> QED BY <2>1, <2>2
<1>8. n + 1 <= MaxLogicals
  BY <1>1, <1>2 DEF n
<1>9. Walked(disk, r, ext)
  BY <1>2, <1>5, <1>6, <1>7, <1>8 DEF Walked
<1> QED BY <1>9 DEF r

\* The walk ends where there is nowhere new to go.
LEMMA WalkEnds ==
    ASSUME NEW disk \in Images, NEW ext, NEW q, Walked(disk, q, ext),
           NEW e, UpNext(disk, q, e, ext),
           \/ ~(Len(q) < MaxLogicals)
           \/ e \in ToSet(q)
           \/ e \notin Ebrs(disk)
    PROVE  Complete(disk, q, ext)
<1>1. /\ q \in Seq(Ebrs(disk)) /\ Len(q) \in Nat /\ MaxLogicals \in Nat
      /\ Len(q) <= MaxLogicals
  BY PartitionTableAssumption DEF Walked
<1>2. CASE ~(Len(q) < MaxLogicals)
  BY <1>1, <1>2 DEF Complete
<1>3. CASE e \in ToSet(q) \/ e \notin Ebrs(disk)
  <2> SUFFICES ASSUME NEW b \in Ebrs(disk), UpNext(disk, q, b, ext) PROVE b = e
    BY <1>3 DEF Complete
  <2>1. CASE q = <<>>
    BY <2>1 DEF UpNext
  <2>2. CASE q # <<>>
    <3>1. Len(q) \in 1..Len(q)
      BY <1>1, <2>2
    <3>2. q[Len(q)] \in DOMAIN disk
      BY <1>1, <3>1 DEF Ebrs
    <3> QED BY <2>2, <3>2, LinkedOnce DEF UpNext
  <2> QED BY <2>1, <2>2
<1> QED BY <1>2, <1>3

\* While chains are walked the listing is complete up to the EBR at work, and
\* when they are done it is complete.
WalkInv ==
    /\ ebr_lba = -1 => visited = <<>>
    /\ ebr_lba # -1 =>
          /\ 0 \in DOMAIN image /\ ~has_gpt_protective(image[0])
          /\ Walked(image, visited, Head(extended))
          /\ UpNext(image, visited, ebr_lba, Head(extended))
          /\ Pending(image, out, extended, visited)
    /\ result = "listed" /\ ~has_gpt_protective(image[0]) =>
          0 \in DOMAIN image /\ Filled(image, out, Held(image, ChainedEbrs(image)))

\* Chains that are still to be walked are walked from their first sectors, and
\* without any the listing is complete.
LEMMA ChainsStart ==
    ASSUME ListInv', 0 \in DOMAIN image, ~has_gpt_protective(image[0]),
           image' = image, visited' = <<>>,
           Pending(image, out', extended', <<>>),
           IF extended' = <<>> THEN result' = "listed" /\ ebr_lba' = -1
           ELSE result' = "pending" /\ ebr_lba' = Head(extended').start_lba
    PROVE  WalkInv'
<1>1. CASE extended' = <<>>
  <2>1. Filled(image, out', Held(image, ChainedEbrs(image)))
    BY <1>1, PendingNone
  <2> QED BY <1>1, <2>1 DEF WalkInv
<1>2. CASE extended' # <<>>
  <2> DEFINE ext == Head(extended')
  <2>1. Walked(image, <<>>, ext)
    BY PartitionTableAssumption DEF Walked
  <2>2. UpNext(image, <<>>, ebr_lba', ext)
    BY <1>2 DEF UpNext
  <2>3. ebr_lba' # -1 /\ result' = "pending"
    <3>1. extended' \in Seq(Chains)
      BY DEF ListInv
    <3> QED BY <1>2, <3>1, ChainStart
  <2> QED BY <1>2, <2>1, <2>2, <2>3 DEF WalkInv
<1> QED BY <1>1, <1>2

\* Sector 0 lists the primaries and starts the first chain.
LEMMA ReadSectorZeroWalk == ListInv /\ ListInv' /\ WalkInv /\ ReadSectorZero => WalkInv'
<1> SUFFICES ASSUME ListInv, ListInv', WalkInv, ReadSectorZero PROVE WalkInv'
  OBVIOUS
<1>1. /\ UNCHANGED <<image, gpt, visited>> /\ visited = <<>>
      /\ result = "pending" /\ ebr_lba = -1 /\ image \in Images
  BY DEF ReadSectorZero, WalkInv, ListInv
<1>2. CASE result' \in {"error", "unpartitioned"} /\ UNCHANGED ebr_lba
  BY <1>1, <1>2 DEF WalkInv
<1>3. CASE has_gpt_protective(image[0]) /\ UNCHANGED ebr_lba
  BY <1>1, <1>3 DEF WalkInv
<1>4. CASE /\ Readable(0) /\ ~has_gpt_protective(image[0])
           /\ out' = Picked(parse_mbr(image[0]), Slots \ Extended)
           /\ extended' = Picked(parse_mbr(image[0]), Extended)
           /\ IF extended' = <<>>
              THEN result' = "listed" /\ UNCHANGED ebr_lba
              ELSE UNCHANGED result /\ ebr_lba' = Head(extended').start_lba
  <2>1. 0 \in DOMAIN image
    BY <1>4 DEF Readable
  <2>2. Pending(image, out', extended', <<>>)
    <3>1. Pending(image, Primaries(image), Picked(parse_mbr(image[0]), Extended), <<>>)
      BY <1>1, <2>1, PendingFirst
    <3> QED BY <1>4, <3>1 DEF Primaries
  <2> QED BY <1>1, <1>4, <2>1, <2>2, ChainsStart
<1> QED BY <1>2, <1>3, <1>4 DEF ReadSectorZero

\* At the end of a chain the next one starts.
LEMMA EndChainWalk ==
    ASSUME ListInv, ListInv', WalkInv, ebr_lba # -1, image' = image, EndChain, NEW q,
           Walked(image, q, Head(extended)), Complete(image, q, Head(extended)),
           Pending(image, out', extended, q)
    PROVE  WalkInv'
<1> DEFINE ext == Head(extended)
<1>1. /\ image \in Images /\ extended \in Seq(Chains) /\ extended # <<>> /\ result = "pending"
      /\ 0 \in DOMAIN image /\ ~has_gpt_protective(image[0])
  BY DEF ListInv, ChainInv, WalkInv
<1>2. ChainWithin(MaxLogicals - 1, image, ext) = ToSet(q)
  BY <1>1, ChainIsWalked
<1>3. ToSet(q) \subseteq DOMAIN image
  BY DEF Walked, Ebrs, ToSet
<1>4. Links(image[0].slots) \in SUBSET Nat
  BY <1>1, SlotPlaces
<1>5. Pending(image, out', Tail(extended), <<>>)
  BY <1>1, <1>2, <1>3, <1>4, PendingNext
<1>6. Pending(image, out', extended', <<>>)
  BY <1>5 DEF EndChain
<1> QED BY <1>1, <1>6, ChainsStart DEF EndChain

\* A turn of the loop lists what one more EBR holds, or ends the chain.
LEMMA FollowEbrWalk == ListInv /\ ListInv' /\ WalkInv /\ FollowEbr => WalkInv'
<1> SUFFICES ASSUME ListInv, ListInv', WalkInv, FollowEbr PROVE WalkInv'
  OBVIOUS
<1> DEFINE ext == Head(extended)
           next == NextEbr(ebr_lba, ext)
           q == Append(visited, ebr_lba)
<1>1. /\ image' = image /\ ebr_lba # -1 /\ result = "pending"
      /\ image \in Images /\ extended \in Seq(Chains) /\ extended # <<>>
      /\ out \in Seq(Listable) /\ visited \in Seq(DOMAIN image)
      /\ 0 \in DOMAIN image /\ ~has_gpt_protective(image[0])
      /\ Walked(image, visited, ext) /\ UpNext(image, visited, ebr_lba, ext)
      /\ Pending(image, out, extended, visited)
  BY DEF FollowEbr, ListInv, ChainInv, WalkInv
<1>2. \A l : Readable(l) <=> l \in Ebrs(image)
  BY DEF Readable, Ebrs
<1>3. CASE ~WalkOn /\ EndChain /\ UNCHANGED out
  <2>1. Complete(image, visited, ext)
    BY <1>1, <1>2, <1>3, WalkEnds DEF WalkOn
  <2>2. Pending(image, out', extended, visited)
    BY <1>1, <1>3
  <2> QED BY <1>1, <1>3, <2>1, <2>2, EndChainWalk
<1>4. ASSUME WalkOn, out' = out \o Logicals(ebr_lba, ext)
      PROVE  /\ ebr_lba \in DOMAIN image /\ Walked(image, q, ext)
             /\ Pending(image, out', extended, q)
  <2>1. ebr_lba \in Ebrs(image) /\ ebr_lba \notin ToSet(visited) /\ Len(visited) < MaxLogicals
    BY <1>2, <1>4 DEF WalkOn
  <2>2. ebr_lba \in DOMAIN image
    BY <2>1 DEF Ebrs
  <2>3. Logicals(ebr_lba, ext) \in Seq(Listable)
    BY <1>1, <2>2, LogicalsListable
  <2>4. visited \in Seq(Ebrs(image))
    BY <1>1 DEF Walked
  <2>5. Pending(image, out \o Logicals(ebr_lba, ext), extended, q)
    BY <1>1, <2>1, <2>3, <2>4, PendingMore
  <2> QED BY <1>1, <1>4, <2>1, <2>2, <2>5, WalkedMore
<1>5. q # <<>> /\ q[Len(q)] = ebr_lba
  <2> HIDE DEF ext, next
  <2>1. visited \in Seq(Nat) /\ ebr_lba \in Int
    BY <1>1, PartitionTableAssumption DEF ListInv, ChainInv
  <2> QED BY <2>1
<1>6. CASE WalkOn /\ out' = out \o Logicals(ebr_lba, ext) /\ next = {} /\ EndChain
  <2>1. ebr_lba \in DOMAIN image /\ Walked(image, q, ext) /\ Pending(image, out', extended, q)
    BY <1>4, <1>6
  <2>2. \A e : ~UpNext(image, q, e, ext)
    BY <1>1, <1>5, <1>6, <2>1, NextIsLinked DEF UpNext
  <2>3. Complete(image, q, ext)
    BY <2>2 DEF Complete
  <2> QED BY <1>1, <1>6, <2>1, <2>3, EndChainWalk
<1>7. CASE /\ WalkOn /\ out' = out \o Logicals(ebr_lba, ext)
           /\ ebr_lba' \in next /\ Visit /\ UNCHANGED <<result, extended>>
  <2>1. ebr_lba \in DOMAIN image /\ Walked(image, q, ext) /\ Pending(image, out', extended, q)
    BY <1>4, <1>7
  <2>2. visited' = q /\ extended' = extended /\ result' = "pending"
    BY <1>1, <1>7 DEF Visit
  <2>3. UpNext(image, q, ebr_lba', ext)
    BY <1>1, <1>5, <1>7, <2>1, NextIsLinked DEF UpNext
  <2>4. ebr_lba' # -1
    <3>1. ebr_lba' \in Nat
      BY <1>1, <1>7, <2>1, NextEbrInside, ChainStart
    <3> QED BY <3>1
  <2> HIDE DEF q
  <2> QED BY <1>1, <2>1, <2>2, <2>3, <2>4 DEF WalkInv
<1> QED BY <1>3, <1>6, <1>7 DEF FollowEbr

\* The invariant holds throughout.
LEMMA WalkCorrect == Spec => []WalkInv
<1>1. Init => WalkInv
  BY DEF Init, WalkInv
<1>2. ListInv /\ ListInv' /\ WalkInv /\ [Next]_vars => WalkInv'
  <2>1. WalkInv /\ UNCHANGED vars => WalkInv'
    BY DEF vars, WalkInv
  <2> QED BY <2>1, ReadSectorZeroWalk, FollowEbrWalk DEF Next
<1> QED BY <1>1, <1>2, ListCorrect, PTL DEF Spec

\* How many places have been counted off.
LEMMA CountsCardinality ==
    ASSUME NEW n \in Nat, NEW J \in SUBSET Nat, NEW x \in [1..n -> J], Counts(x, n, J)
    PROVE  /\ Cardinality(J) = n
           /\ \A k \in 1..n : Cardinality({j \in J : j <= x[k]}) = k
<1>1. ASSUME NEW k \in Nat, k <= n, NEW L,
             \A j : j \in L <=> \E i \in 1..k : x[i] = j
      PROVE  Cardinality(L) = k
  <2> DEFINE f == [i \in 1..k |-> x[i]]
  <2>1. \A i \in 1..k : i \in 1..n /\ f[i] = x[i] /\ f[i] \in L
    BY <1>1
  <2>2. f \in [1..k -> L]
    <3> HIDE DEF f
    <3>1. f = [i \in 1..k |-> f[i]]
      BY DEF f
    <3> QED BY <2>1, <3>1
  <2>3. \A a, b \in 1..k : f[a] = f[b] => a = b
    <3> SUFFICES ASSUME NEW a \in 1..k, NEW b \in 1..k, f[a] = f[b] PROVE a = b
      OBVIOUS
    <3>1. x[a] = x[b] /\ x[a] \in Nat /\ a \in 1..n /\ b \in 1..n
      BY <2>1
    <3>2. (a < b => x[a] < x[b]) /\ (b < a => x[b] < x[a])
      BY <3>1 DEF Counts
    <3> QED BY <3>1, <3>2
  <2>4. \A j \in L : \E i \in 1..k : f[i] = j
    BY <1>1
  <2> HIDE DEF f
  <2>5. f \in Bijection(1..k, L)
    BY <2>2, <2>3, <2>4 DEF Bijection, Injection, Surjection, IsInjective
  <2> QED BY <2>5, FS_CountingElements DEF ExistsBijection
<1>2. Cardinality(J) = n
  <2>1. \A j : j \in J <=> \E i \in 1..n : x[i] = j
    BY DEF Counts
  <2> QED BY <1>1, <2>1
<1>3. ASSUME NEW k \in 1..n PROVE Cardinality({j \in J : j <= x[k]}) = k
  <2> DEFINE L == {j \in J : j <= x[k]}
  <2>1. ASSUME NEW i \in 1..k PROVE x[i] \in L
    <3>1. i \in 1..n /\ x[i] \in Nat /\ x[k] \in Nat /\ x[i] \in J
      <4>1. i \in 1..n
        OBVIOUS
      <4> HIDE DEF L
      <4> QED BY <4>1
    <3>2. i = k \/ x[i] < x[k]
      BY <3>1 DEF Counts
    <3> QED BY <3>1, <3>2
  <2>2. ASSUME NEW j \in L PROVE \E i \in 1..k : x[i] = j
    <3>1. PICK i \in 1..n : x[i] = j
      BY DEF Counts
    <3>2. ~(k < i)
      <4> SUFFICES ASSUME k < i PROVE FALSE
        OBVIOUS
      <4>1. x[k] < x[i] /\ x[i] \in Nat /\ x[k] \in Nat
        BY DEF Counts
      <4> QED BY <3>1, <4>1
    <3> QED BY <3>1, <3>2
  <2>3. k \in Nat /\ k <= n
    OBVIOUS
  <2> HIDE DEF L
  <2>4. \A j : j \in L <=> \E i \in 1..k : x[i] = j
    BY <2>1, <2>2
  <2>5. Cardinality(L) = k
    BY <1>1, <2>3, <2>4
  <2> QED BY <2>5 DEF L
<1> QED BY <1>2, <1>3

\* The primaries are those of the table, in slot order.
LEMMA PrimariesExtracted ==
    ASSUME image \in Images, 0 \in DOMAIN image
    PROVE  LET s == image[0].slots
               J == Described(s) \ Links(s)
               n == Len(Primaries(image))
           IN  /\ Cardinality(J) = n /\ n \in Nat
               /\ \A j \in J : LET k == Cardinality({i \in J : i <= j})
                               IN  k \in 1..n /\ Primaries(image)[k] = s[j]
<1> DEFINE s == image[0].slots
           S == {c \in Slots : c.num_sectors > 0}
           t == parse_mbr(image[0])
           D == Described(s)
           J == D \ Links(s)
           keep == Slots \ Extended
           o == Primaries(image)
           n == Len(o)
<1>1. /\ t \in Seq(S) /\ Extracts(t, s, D) /\ D \in SUBSET Nat
      /\ \A j \in D : s[j] \in Slots
  BY ParsedSlots, DescribedExtracted, SlotPlaces
<1>2. Extracts(Picked(t, keep), s, {j \in D : s[j] \in keep})
  <2> HIDE DEF t, s, S, D, keep
  <2> QED BY <1>1, PickedAgain
<1>3. {j \in D : s[j] \in keep} = J
  <2> HIDE DEF s
  <2>1. \A j \in D : s[j] \in Slots
    BY <1>1
  <2> QED BY <2>1 DEF Links, Extended
<1>4. n \in Nat
  BY TablePicked DEF Primaries
<1>5. J \in SUBSET Nat /\ o = Picked(t, keep)
  BY <1>1 DEF Primaries
<1> HIDE DEF o, J, s, D, keep, t
<1>6. PICK x \in [1..n -> J] : Counts(x, n, J) /\ \A i \in 1..n : o[i] = s[x[i]]
  BY <1>2, <1>3, <1>5 DEF Extracts
<1>7. Cardinality(J) = n /\ \A k \in 1..n : Cardinality({i \in J : i <= x[k]}) = k
  <2> HIDE DEF n
  <2> QED BY <1>4, <1>5, <1>6, CountsCardinality
<1>8. ASSUME NEW j \in J
      PROVE  LET k == Cardinality({i \in J : i <= j}) IN k \in 1..n /\ o[k] = s[j]
  <2>1. PICK k \in 1..n : x[k] = j
    BY <1>6 DEF Counts
  <2>2. Cardinality({i \in J : i <= j}) = k
    BY <1>7, <2>1
  <2> QED BY <1>6, <2>1, <2>2
<1> QED BY <1>4, <1>7, <1>8 DEF o, J, s, D

\* What is listed after the primaries is what the slots in W hold, once each.
LEMMA FilledCount ==
    ASSUME NEW disk, NEW S, NEW o \in Seq(S), NEW W, Filled(disk, o, W),
           Len(Primaries(disk)) \in Nat, NEW p
    PROVE  LET l == SubSeq(o, Len(Primaries(disk)) + 1, Len(o))
           IN  Cardinality({i \in DOMAIN l : l[i] = p})
                   = Cardinality({h \in W : Placed(disk, h) = p})
<1> DEFINE n == Len(Primaries(disk))
           N == Len(o)
           l == SubSeq(o, n + 1, N)
           A == {i \in DOMAIN l : l[i] = p}
           B == {h \in W : Placed(disk, h) = p}
<1>1. PICK f \in Bijection(n + 1..N, W) : \A i \in n + 1..N : o[i] = Placed(disk, f[i])
  BY DEF Filled
<1>2. n \in Nat /\ N \in Nat /\ n <= N
  BY DEF Filled
<1>3. DOMAIN l = 1..N - n /\ \A i \in 1..N - n : n + i \in n + 1..N /\ l[i] = o[n + i]
  <2> HIDE DEF n
  <2> QED BY <1>2
<1>4. /\ f \in [n + 1..N -> W]
      /\ \A i, k \in n + 1..N : f[i] = f[k] => i = k
      /\ \A h \in W : \E i \in n + 1..N : f[i] = h
  BY <1>1 DEF Bijection, Injection, Surjection, IsInjective
<1> HIDE DEF n, N, l
<1> DEFINE g == [i \in A |-> f[n + i]]
<1>5. \A i \in A : /\ i \in 1..N - n /\ n + i \in n + 1..N
                   /\ g[i] = f[n + i] /\ g[i] \in B
  <2> SUFFICES ASSUME NEW i \in A
               PROVE  /\ i \in 1..N - n /\ n + i \in n + 1..N
                      /\ g[i] = f[n + i] /\ g[i] \in B
    OBVIOUS
  <2>1. i \in 1..N - n /\ n + i \in n + 1..N /\ o[n + i] = p
    BY <1>3
  <2>2. g[i] = f[n + i]
    OBVIOUS
  <2>3. f[n + i] \in W /\ Placed(disk, f[n + i]) = p
    BY <1>1, <1>4, <2>1
  <2> QED BY <2>1, <2>2, <2>3
<1>6. g \in [A -> B]
  <2> HIDE DEF A, B
  <2> QED BY <1>5
<1>7. \A i, k \in A : g[i] = g[k] => i = k
  <2> SUFFICES ASSUME NEW i \in A, NEW k \in A, g[i] = g[k] PROVE i = k
    OBVIOUS
  <2>1. n + i = n + k
    <3> HIDE DEF A, g
    <3> QED BY <1>4, <1>5
  <2>2. i \in 1..N - n /\ k \in 1..N - n
    BY <1>5
  <2> QED BY <1>2, <2>1, <2>2
<1>8. ASSUME NEW h \in B PROVE \E i \in A : g[i] = h
  <2>1. PICK k \in n + 1..N : f[k] = h
    BY <1>4
  <2>2. k - n \in 1..N - n /\ n + (k - n) = k
    BY <1>2
  <2>3. l[k - n] = p
    BY <1>1, <1>3, <2>1, <2>2
  <2>4. k - n \in A
    BY <1>3, <2>2, <2>3
  <2>5. g[k - n] = h
    BY <1>5, <2>1, <2>2, <2>4
  <2> QED BY <2>4, <2>5
<1>9. ExistsBijection(A, B)
  <2> HIDE DEF g, A, B
  <2>1. g \in Bijection(A, B)
    BY <1>6, <1>7, <1>8 DEF Bijection, Injection, Surjection, IsInjective
  <2> QED BY <2>1 DEF ExistsBijection
<1>10. IsFiniteSet(A)
  <2>1. A \in SUBSET (1..N - n)
    BY <1>3
  <2>2. IsFiniteSet(1..N - n)
    BY <1>2, FS_Interval
  <2> QED BY <2>1, <2>2, FS_Subset
<1>11. Cardinality(A) = Cardinality(B)
  <2> HIDE DEF A, B
  <2> QED BY <1>9, <1>10, FS_Bijection
<1> QED BY <1>11 DEF A, B, l, n, N

\* On every disk with an MBR the listing is exactly the primaries, in slot
\* order, and the logical partitions of the EBRs that its extended partitions
\* chain together, once each and where they lie.
THEOREM ListingIsWhole == Spec => []LogicalsListed
<1>1. ListInv /\ WalkInv => LogicalsListed
  <2> SUFFICES ASSUME ListInv, WalkInv, result = "listed", ~has_gpt_protective(image[0])
               PROVE  LogicalsListed
    BY DEF LogicalsListed
  <2> DEFINE s == image[0].slots
             J == Described(s) \ Links(s)
             n == Cardinality(J)
             W == Held(image, ChainedEbrs(image))
             l == SubSeq(out, n + 1, Len(out))
  <2>1. /\ image \in Images /\ 0 \in DOMAIN image /\ out \in Seq(Listable)
        /\ Filled(image, out, W)
    BY DEF ListInv, WalkInv
  <2>2. /\ n = Len(Primaries(image)) /\ n \in Nat
        /\ \A j \in J : LET k == Cardinality({i \in J : i <= j})
                        IN  k \in 1..n /\ Primaries(image)[k] = s[j]
    BY <2>1, PrimariesExtracted
  <2>3. n <= Len(out) /\ \A i \in 1..n : out[i] = Primaries(image)[i]
    <3> HIDE DEF W, n
    <3> QED BY <2>1, <2>2 DEF Filled
  <2>4. \A j \in J : out[Cardinality({i \in J : i <= j})] = s[j]
    <3> HIDE DEF J, s, n
    <3> QED BY <2>2, <2>3
  <2>5. \A p : Cardinality({i \in DOMAIN l : l[i] = p})
                   = Cardinality({h \in W : Placed(image, h) = p})
    <3> HIDE DEF n, W
    <3> QED BY <2>1, <2>2, FilledCount
  <2> QED BY <2>3, <2>4, <2>5 DEF LogicalsListed
<1> QED BY <1>1, ListCorrect, WalkCorrect, PTL

\* Every turn of the loop gives up a chain, or takes one of the MaxLogicals hops
\* that the chain has: whatever the sectors hold, the parser takes no more than
\* MaxLogicals + 1 turns for an extended partition.
THEOREM WalkIsBounded ==
    Spec => [][ebr_lba # -1 =>
                  \/ Len(extended') = Len(extended) - 1 /\ Len(extended) > 0
                  \/ /\ extended' = extended
                     /\ Len(visited') = Len(visited) + 1 /\ Len(visited') <= MaxLogicals]_vars
<1>1. ListInv /\ WalkInv /\ WalkInv' /\ [Next]_vars =>
          [ebr_lba # -1 =>
              \/ Len(extended') = Len(extended) - 1 /\ Len(extended) > 0
              \/ /\ extended' = extended
                 /\ Len(visited') = Len(visited) + 1 /\ Len(visited') <= MaxLogicals]_vars
  <2> SUFFICES ASSUME ListInv, FollowEbr
               PROVE  \/ Len(extended') = Len(extended) - 1 /\ Len(extended) > 0
                      \/ /\ extended' = extended
                         /\ Len(visited') = Len(visited) + 1 /\ Len(visited') <= MaxLogicals
    BY DEF Next, ReadSectorZero
  <2>1. extended \in Seq(Chains) /\ extended # <<>> /\ visited \in Seq(DOMAIN image)
    BY DEF FollowEbr, ListInv, ChainInv
  <2>2. CASE EndChain
    BY <2>1, <2>2 DEF EndChain
  <2>3. CASE WalkOn /\ Visit /\ UNCHANGED extended
    BY <2>1, <2>3, PartitionTableAssumption DEF WalkOn, Visit
  <2> QED BY <2>2, <2>3 DEF FollowEbr
<1> QED BY <1>1, ListCorrect, WalkCorrect, PTL DEF Spec
=============================================================================
