-------------------------- MODULE DomainNamesProofs --------------------------
(***************************************************************************)
(* Proofs about DomainNames, for any texts and names: what sortSuffixes    *)
(* and sortHostSuffixes (internal/cache/rule_cache.go) make of a slice of  *)
(* any length.                                                             *)
(*                                                                         *)
(* The loops are recursive functions.  Induction is over a set of numbers, *)
(* by way of its least element, and a loop has a value because a function  *)
(* that iterates a step exists up to every bound.                          *)
(***************************************************************************)
EXTENDS DomainNames, WellFoundedInduction, FiniteSetTheorems, TLAPS

-----------------------------------------------------------------------------
(***************************************************************************)
(* Induction and iteration.                                                *)
(***************************************************************************)

Less == {ss \in Nat \X Nat : ss[1] < ss[2]}

\* Numbers have no endless descent.
LEMMA LessWellFounded == IsWellFoundedOn(Less, Nat)
  <1>1. OpToRel(<, Nat) = Less
    BY DEF OpToRel, Less
  <1> QED  BY <1>1, NatLessThanWellFounded

\* A set with 0 and the successors of its members has every number.
LEMMA NumbersByInduction ==
    ASSUME NEW S, 0 \in S, \A n \in Nat : n \in S => n + 1 \in S
    PROVE  Nat \subseteq S
  <1> DEFINE T == Nat \ S
  <1> SUFFICES ASSUME T # {} PROVE FALSE
    OBVIOUS
  <1>1. PICK x \in T : \A y \in T : ~(<<y, x>> \in Less)
    <2>1. T \subseteq Nat
      OBVIOUS
    <2> HIDE DEF T
    <2> QED  BY LessWellFounded, WFMin, <2>1
  <1>2. x # 0
    OBVIOUS
  <1>3. x - 1 \in Nat /\ <<x - 1, x>> \in Less
    BY <1>2 DEF Less
  <1>4. x - 1 \in S /\ x = (x - 1) + 1
    BY <1>1, <1>3
  <1> QED  BY <1>3, <1>4

\* f iterates a step, N times, in S.
Iterates(f, S, first, step, N) ==
    /\ f \in [0 .. N -> S]
    /\ f[0] = first
    /\ \A n \in 1 .. N : f[n] = step[<<n, f[n - 1]>>]

\* A step can be iterated any number of times.
LEMMA IterationExists ==
    ASSUME NEW S, NEW first \in S, NEW step \in [Nat \X S -> S], NEW N \in Nat
    PROVE  \E f : Iterates(f, S, first, step, N)
  <1> DEFINE Runs(n) == {f \in [0 .. n -> S] :
                            f[0] = first /\ \A m \in 1 .. n : f[m] = step[<<m, f[m - 1]>>]}
             Good == {n \in Nat : Runs(n) # {}}
  <1>1. 0 \in Good
    <2>1. [m \in 0 .. 0 |-> first] \in Runs(0)
      OBVIOUS
    <2> QED  BY <2>1
  <1>2. ASSUME NEW n \in Nat, n \in Good PROVE n + 1 \in Good
    <2>1. PICK f \in [0 .. n -> S] :
              f[0] = first /\ \A m \in 1 .. n : f[m] = step[<<m, f[m - 1]>>]
      BY <1>2
    <2> DEFINE g == [m \in 0 .. n + 1 |-> IF m <= n THEN f[m] ELSE step[<<m, f[n]>>]]
    <2>2. f[n] \in S /\ step[<<n + 1, f[n]>>] \in S
      BY <2>1
    <2>3. g \in [0 .. n + 1 -> S]
      <3>1. ASSUME NEW m \in 0 .. n + 1 PROVE g[m] \in S
        <4>1. CASE m <= n
          BY <2>1, <4>1
        <4>2. CASE ~(m <= n)
          <5>1. m = n + 1
            BY <4>2
          <5> QED  BY <2>2, <5>1
        <4> QED  BY <4>1, <4>2
      <3> QED  BY <3>1
    <2>4. g[0] = first
      BY <2>1
    <2>5. ASSUME NEW m \in 1 .. n + 1 PROVE g[m] = step[<<m, g[m - 1]>>]
      <3>1. CASE m <= n
        <4>1. m \in 1 .. n /\ m - 1 \in 0 .. n + 1 /\ m - 1 <= n /\ m \in 0 .. n + 1
          BY <3>1
        <4> QED  BY <2>1, <3>1, <4>1
      <3>2. CASE ~(m <= n)
        <4>1. m = n + 1 /\ m - 1 = n /\ n \in 0 .. n + 1 /\ m \in 0 .. n + 1
          BY <3>2
        <4> QED  BY <3>2, <4>1
      <3> QED  BY <3>1, <3>2
    <2> HIDE DEF g
    <2>6. g \in Runs(n + 1)
      BY <2>3, <2>4, <2>5
    <2> QED  BY <2>6
  <1> HIDE DEF Good
  <1>3. N \in Good
    BY <1>1, <1>2, NumbersByInduction
  <1> QED  BY <1>3 DEF Good, Iterates

-----------------------------------------------------------------------------
(***************************************************************************)
(* The order of the wildcard entries.                                      *)
(***************************************************************************)

\* len(domain) is a number.
LEMMA TextLenType ==
    ASSUME NEW name \in Names
    PROVE  TextLen(name) \in Nat
  <1> DEFINE Body(f) == [k \in 0 .. Len(name) |->
                           IF k = 0 THEN 0 ELSE f[k - 1] + LabelLen[name[k]] + 1]
             bytes == CHOOSE f : f = Body(f)
             step == [x \in Nat \X Nat |->
                        IF x[1] \in 1 .. Len(name) THEN x[2] + LabelLen[name[x[1]]] + 1 ELSE 0]
  <1>1. Len(name) \in Nat /\ \A k \in 1 .. Len(name) : LabelLen[name[k]] \in Nat
    BY TextsAssumption DEF Names
  <1>2. TextLen(name) = IF name = <<>> THEN 1 ELSE bytes[Len(name)]
    BY DEF TextLen
  <1>3. step \in [Nat \X Nat -> Nat]
    BY <1>1
  <1>4. PICK f \in [0 .. Len(name) -> Nat] :
            f[0] = 0 /\ \A k \in 1 .. Len(name) : f[k] = step[<<k, f[k - 1]>>]
    <2>1. 0 \in Nat /\ Len(name) \in Nat /\ step \in [Nat \X Nat -> Nat]
      BY <1>1, <1>3
    <2> HIDE DEF step
    <2>2. \E f : Iterates(f, Nat, 0, step, Len(name))
      BY <2>1, IterationExists
    <2> QED  BY <2>2 DEF Iterates
  <1>5. ASSUME NEW k \in 1 .. Len(name) PROVE f[k] = f[k - 1] + LabelLen[name[k]] + 1
    <2>1. k \in Nat /\ k - 1 \in 0 .. Len(name) /\ f[k - 1] \in Nat
      <3>1. k \in Nat /\ k - 1 \in 0 .. Len(name)
        BY <1>1
      <3> QED  BY <3>1
    <2>2. step[<<k, f[k - 1]>>] = f[k - 1] + LabelLen[name[k]] + 1
      BY <2>1
    <2> HIDE DEF step
    <2> QED  BY <1>4, <2>2
  <1>6. f = Body(f)
    <2>1. ASSUME NEW k \in 0 .. Len(name)
          PROVE  f[k] = IF k = 0 THEN 0 ELSE f[k - 1] + LabelLen[name[k]] + 1
      <3>1. CASE k = 0
        BY <1>4, <3>1
      <3>2. CASE k # 0
        <4>1. k \in 1 .. Len(name)
          BY <1>1, <3>2
        <4> QED  BY <1>5, <3>2, <4>1
      <3> QED  BY <3>1, <3>2
    <2> HIDE DEF step
    <2> QED  BY <1>4, <2>1
  <1>7. bytes = Body(bytes)
    <2> HIDE DEF Body
    <2> QED  BY <1>6
  <1> DEFINE Good == {n \in Nat : n <= Len(name) => bytes[n] \in Nat}
  <1> HIDE DEF bytes, step
  <1>8. 0 \in Good
    BY <1>1, <1>7
  <1>9. ASSUME NEW n \in Nat, n \in Good PROVE n + 1 \in Good
    <2> SUFFICES ASSUME n + 1 <= Len(name) PROVE bytes[n + 1] \in Nat
      OBVIOUS
    <2>1. bytes[n] \in Nat /\ n + 1 \in 1 .. Len(name) /\ n + 1 # 0 /\ (n + 1) - 1 = n
      BY <1>1, <1>9
    <2>2. n + 1 \in 0 .. Len(name)
      BY <1>1, <2>1
    <2>3. bytes[n + 1] = bytes[n] + LabelLen[name[n + 1]] + 1
      BY <1>7, <2>1, <2>2
    <2> QED  BY <1>1, <2>1, <2>3
  <1> HIDE DEF Good
  <1>10. Len(name) \in Good
    BY <1>1, <1>8, <1>9, NumbersByInduction
  <1> QED  BY <1>1, <1>2, <1>10 DEF Good

\* The comparison of the sort is a strict order of the entries.
LEMMA PrecedesOrders ==
    ASSUME NEW x, NEW y, NEW z, x.domain \in Names, y.domain \in Names, z.domain \in Names
    PROVE  /\ Precedes(x, y) \in BOOLEAN
           /\ ~Precedes(x, x)
           /\ Precedes(x, y) => ~Precedes(y, x)
           /\ Precedes(x, y) /\ Precedes(y, z) => Precedes(x, z)
  <1>1. /\ TextLen(x.domain) \in Nat /\ TextLen(y.domain) \in Nat /\ TextLen(z.domain) \in Nat
        /\ Len(x.domain) \in Nat /\ Len(y.domain) \in Nat /\ Len(z.domain) \in Nat
    BY TextLenType DEF Names
  <1> QED  BY <1>1 DEF Precedes, labelsCount

-----------------------------------------------------------------------------
(***************************************************************************)
(* Permutations of a slice.                                                *)
(***************************************************************************)

\* The ways to reorder n positions.
Shuffles(n) ==
    {p \in [1 .. n -> 1 .. n] :
        /\ \A a, b \in 1 .. n : p[a] = p[b] => a = b
        /\ \A b \in 1 .. n : \E a \in 1 .. n : p[a] = b}

\* t has the n elements of s, each as often, in some order.
Permuted(s, t, n) == \E p \in Shuffles(n) : t = [k \in 1 .. n |-> s[p[k]]]

\* A slice is a permutation of itself.
LEMMA PermutedSelf ==
    ASSUME NEW S, NEW n \in Nat, NEW s \in [1 .. n -> S]
    PROVE  Permuted(s, s, n)
  <1> DEFINE p == [k \in 1 .. n |-> k]
  <1>1. p \in Shuffles(n) /\ s = [k \in 1 .. n |-> s[p[k]]]
    BY DEF Shuffles
  <1> HIDE DEF p
  <1> QED  BY <1>1 DEF Permuted

\* Two permutations in a row are one.
LEMMA PermutedTwice ==
    ASSUME NEW n \in Nat, NEW s, NEW t, NEW u, Permuted(s, t, n), Permuted(t, u, n)
    PROVE  Permuted(s, u, n)
  <1>1. PICK p \in Shuffles(n) : t = [k \in 1 .. n |-> s[p[k]]]
    BY DEF Permuted
  <1>2. PICK q \in Shuffles(n) : u = [k \in 1 .. n |-> t[q[k]]]
    BY DEF Permuted
  <1> DEFINE r == [k \in 1 .. n |-> p[q[k]]]
  <1>3. /\ p \in [1 .. n -> 1 .. n] /\ q \in [1 .. n -> 1 .. n]
        /\ \A a, b \in 1 .. n : p[a] = p[b] => a = b
        /\ \A a, b \in 1 .. n : q[a] = q[b] => a = b
        /\ \A b \in 1 .. n : \E a \in 1 .. n : p[a] = b
        /\ \A b \in 1 .. n : \E a \in 1 .. n : q[a] = b
    BY DEF Shuffles
  <1>4. r \in [1 .. n -> 1 .. n] /\ \A a, b \in 1 .. n : r[a] = r[b] => a = b
    BY <1>3
  <1>5. ASSUME NEW b \in 1 .. n PROVE \E a \in 1 .. n : r[a] = b
    <2>1. PICK c \in 1 .. n : p[c] = b
      BY <1>3
    <2>2. PICK a \in 1 .. n : q[a] = c
      BY <1>3
    <2> QED  BY <2>1, <2>2
  <1>6. u = [k \in 1 .. n |-> s[r[k]]]
    BY <1>1, <1>2, <1>3
  <1> HIDE DEF r
  <1> QED  BY <1>4, <1>5, <1>6 DEF Permuted, Shuffles

-----------------------------------------------------------------------------
(***************************************************************************)
(* sortSuffixes.  S is a set of entries, the slice has n of them.          *)
(***************************************************************************)

\* What one comparison of the sort does to two positions.
LEMMA ExchangeFacts ==
    ASSUME NEW S, \A x \in S : x.domain \in Names,
           NEW n \in Nat, NEW t \in [1 .. n -> S], NEW i \in 1 .. n, NEW j \in 1 .. n, i < j
    PROVE  LET u == Exchange(t, i, j)
           IN  /\ u \in [1 .. n -> S]
               /\ \A k \in 1 .. n : k # i /\ k # j => u[k] = t[k]
               /\ \/ u[i] = t[i] /\ u[j] = t[j] /\ ~Precedes(t[j], t[i])
                  \/ u[i] = t[j] /\ u[j] = t[i] /\ Precedes(t[j], t[i])
               /\ Permuted(t, u, n)
  <1> DEFINE u == Exchange(t, i, j)
  <1>0. i # j
    OBVIOUS
  <1>1. CASE Precedes(t[j], t[i])
    <2>1. u = [t EXCEPT ![i] = t[j], ![j] = t[i]]
      BY <1>1 DEF Exchange
    <2>2. /\ u \in [1 .. n -> S]
          /\ \A k \in 1 .. n : k # i /\ k # j => u[k] = t[k]
          /\ u[i] = t[j] /\ u[j] = t[i]
      BY <1>0, <2>1
    <2> DEFINE p == [k \in 1 .. n |-> IF k = i THEN j ELSE IF k = j THEN i ELSE k]
    <2>3. p \in [1 .. n -> 1 .. n] /\ \A a, b \in 1 .. n : p[a] = p[b] => a = b
      BY <1>0
    <2>4. ASSUME NEW b \in 1 .. n PROVE \E a \in 1 .. n : p[a] = b
      <3>1. CASE b = i
        BY <1>0, <3>1
      <3>2. CASE b = j
        BY <1>0, <3>2
      <3>3. CASE b # i /\ b # j
        BY <3>3
      <3> QED  BY <3>1, <3>2, <3>3
    <2>5. \A k \in 1 .. n : u[k] = t[p[k]]
      BY <1>0, <2>2
    <2> HIDE DEF u, p
    <2>6. u = [k \in 1 .. n |-> t[p[k]]]
      BY <2>2, <2>5
    <2> QED  BY <1>1, <2>2, <2>3, <2>4, <2>6 DEF Permuted, Shuffles, u
  <1>2. CASE ~Precedes(t[j], t[i])
    <2>1. u = t
      BY <1>2 DEF Exchange
    <2> QED  BY <1>2, <2>1, PermutedSelf
  <1> QED  BY <1>1, <1>2

\* No later entry should come before one of the first i.
Placed(t, i, n) == \A a \in 1 .. i, b \in 1 .. n : a < b => ~Precedes(t[b], t[a])

\* After position i has been compared with all positions up to j.
Compared(s, t, S, i, j, n) ==
    /\ t \in [1 .. n -> S] /\ Permuted(s, t, n)
    /\ Placed(t, i - 1, n)
    /\ \A b \in i + 1 .. j : ~Precedes(t[b], t[i])

\* One comparison of the inner loop.
LEMMA ComparedNext ==
    ASSUME NEW S, \A x \in S : x.domain \in Names,
           NEW n \in Nat, NEW s, NEW t, NEW i \in 1 .. n, NEW j \in i + 1 .. n,
           Compared(s, t, S, i, j - 1, n)
    PROVE  Compared(s, Exchange(t, i, j), S, i, j, n)
  <1> DEFINE u == Exchange(t, i, j)
  <1>1. /\ t \in [1 .. n -> S] /\ Permuted(s, t, n) /\ Placed(t, i - 1, n)
        /\ \A b \in i + 1 .. j - 1 : ~Precedes(t[b], t[i])
    BY DEF Compared
  <1>2. j \in 1 .. n /\ i < j
    OBVIOUS
  <1>3. /\ u \in [1 .. n -> S]
        /\ \A k \in 1 .. n : k # i /\ k # j => u[k] = t[k]
        /\ \/ u[i] = t[i] /\ u[j] = t[j] /\ ~Precedes(t[j], t[i])
           \/ u[i] = t[j] /\ u[j] = t[i] /\ Precedes(t[j], t[i])
        /\ Permuted(t, u, n)
    BY <1>1, <1>2, ExchangeFacts
  <1> HIDE DEF u
  <1>4. Permuted(s, u, n)
    BY <1>1, <1>3, PermutedTwice
  <1>5. Placed(u, i - 1, n)
    <2> SUFFICES ASSUME NEW a \in 1 .. i - 1, NEW b \in 1 .. n, a < b
                 PROVE  ~Precedes(u[b], u[a])
      BY DEF Placed
    <2>1. a \in 1 .. n /\ a # i /\ a # j /\ a < i /\ a < j
      BY <1>2
    <2>2. u[a] = t[a]
      BY <1>3, <2>1
    <2>3. \A c \in 1 .. n : a < c => ~Precedes(t[c], t[a])
      BY <1>1 DEF Placed
    <2>4. u[b] = t[b] \/ u[b] = t[i] \/ u[b] = t[j]
      BY <1>3
    <2> QED  BY <1>2, <2>1, <2>2, <2>3, <2>4
  <1>6. ASSUME NEW b \in i + 1 .. j PROVE ~Precedes(u[b], u[i])
    <2>0. b \in 1 .. n /\ b # i /\ (b # j => b \in i + 1 .. j - 1)
      OBVIOUS
    <2>1. t[i].domain \in Names /\ t[j].domain \in Names /\ t[b].domain \in Names
      BY <1>1, <1>2, <2>0
    <2>2. CASE u[i] = t[i] /\ u[j] = t[j] /\ ~Precedes(t[j], t[i])
      BY <1>1, <1>3, <2>0, <2>2
    <2>3. CASE u[i] = t[j] /\ u[j] = t[i] /\ Precedes(t[j], t[i])
      <3>1. CASE b = j
        BY <2>1, <2>3, <3>1, PrecedesOrders
      <3>2. CASE b # j
        <4>1. u[b] = t[b] /\ ~Precedes(t[b], t[i])
          BY <1>1, <1>3, <2>0, <3>2
        <4>2. Precedes(t[b], t[j]) /\ Precedes(t[j], t[i]) => Precedes(t[b], t[i])
          BY <2>1, PrecedesOrders
        <4> QED  BY <2>3, <4>1, <4>2
      <3> QED  BY <3>1, <3>2
    <2> QED  BY <1>3, <2>2, <2>3
  <1> QED  BY <1>3, <1>4, <1>5, <1>6 DEF Compared, u

\* The inner loop: afterwards nothing behind position i should come before it.
LEMMA InnerLoopCompares ==
    ASSUME NEW S, \A x \in S : x.domain \in Names,
           NEW n \in Nat, NEW s \in [1 .. n -> S], Len(s) = n,
           NEW i \in 1 .. n, Placed(s, i - 1, n)
    PROVE  Compared(s, InnerLoop(s, i), S, i, n, n)
  <1> DEFINE A == [1 .. n -> S]
             Body(f) == [j \in i .. Len(s) |-> IF j = i THEN s ELSE Exchange(f[j - 1], i, j)]
             after == CHOOSE f : f = Body(f)
             N == n - i
             step == [x \in Nat \X A |->
                        IF x[1] \in 1 .. N THEN Exchange(x[2], i, i + x[1]) ELSE x[2]]
  <1>1. InnerLoop(s, i) = after[n]
    BY DEF InnerLoop
  <1>2. N \in Nat /\ i \in Nat /\ i <= n
    OBVIOUS
  <1>3. step \in [Nat \X A -> A]
    <2>1. ASSUME NEW x \in Nat \X A PROVE step[x] \in A
      <3>1. CASE x[1] \in 1 .. N
        <4> DEFINE j == i + x[1]
                   t == x[2]
        <4>1. j \in 1 .. n /\ i < j /\ t \in [1 .. n -> S]
          BY <1>2, <3>1
        <4> HIDE DEF j, t
        <4>2. Exchange(t, i, j) \in A
          BY <4>1, ExchangeFacts
        <4> QED  BY <3>1, <4>2 DEF j, t
      <3>2. CASE ~(x[1] \in 1 .. N)
        BY <3>2
      <3> QED  BY <3>1, <3>2
    <2> QED  BY <2>1
  <1> HIDE DEF step, N, A
  <1>4. PICK f : Iterates(f, A, s, step, N)
    <2>1. s \in A
      BY DEF A
    <2> QED  BY <1>2, <1>3, <2>1, IterationExists
  <1>5. /\ f \in [0 .. N -> A] /\ f[0] = s
        /\ \A m \in 1 .. N : f[m] = Exchange(f[m - 1], i, i + m)
    <2>1. /\ f \in [0 .. N -> A] /\ f[0] = s
          /\ \A m \in 1 .. N : f[m] = step[<<m, f[m - 1]>>]
      BY <1>4 DEF Iterates
    <2>2. ASSUME NEW m \in 1 .. N PROVE f[m] = Exchange(f[m - 1], i, i + m)
      <3>1. m \in Nat /\ m - 1 \in 0 .. N /\ f[m - 1] \in A
        BY <1>2, <2>1
      <3> QED  BY <2>1, <3>1 DEF step
    <2> QED  BY <2>1, <2>2
  <1> DEFINE g == [j \in i .. Len(s) |-> f[j - i]]
  <1>6. g = Body(g)
    <2>1. ASSUME NEW j \in i .. Len(s)
          PROVE  g[j] = IF j = i THEN s ELSE Exchange(g[j - 1], i, j)
      <3>1. CASE j = i
        BY <1>5, <3>1
      <3>2. CASE j # i
        <4>1. j - i \in 1 .. N /\ j - 1 \in i .. Len(s) /\ i + (j - i) = j
              /\ (j - 1) - i = (j - i) - 1
          BY <1>2, <3>2 DEF N
        <4> QED  BY <1>5, <3>2, <4>1
      <3> QED  BY <3>1, <3>2
    <2> QED  BY <2>1
  <1>7. after = Body(after)
    <2> HIDE DEF Body, g
    <2> QED  BY <1>6
  <1> HIDE DEF after, g
  <1> DEFINE Good == {m \in Nat : m <= N => Compared(s, after[i + m], S, i, i + m, n)}
  <1>8. 0 \in Good
    <2>1. i \in i .. Len(s)
      BY <1>2
    <2>2. after[i] = s
      BY <1>7, <2>1
    <2>3. i + 0 = i /\ i + 1 .. i = {}
      BY <1>2
    <2>4. Compared(s, s, S, i, i, n)
      BY <1>2, <2>3, PermutedSelf DEF Compared
    <2> QED  BY <2>2, <2>3, <2>4
  <1>9. ASSUME NEW m \in Nat, m \in Good PROVE m + 1 \in Good
    <2> SUFFICES ASSUME m + 1 <= N PROVE Compared(s, after[i + (m + 1)], S, i, i + (m + 1), n)
      OBVIOUS
    <2> DEFINE j == i + (m + 1)
    <2>1. /\ m <= N /\ j \in i .. Len(s) /\ j \in i + 1 .. n /\ j # i /\ j - 1 = i + m
      BY <1>2 DEF N
    <2>2. Compared(s, after[j - 1], S, i, j - 1, n)
      BY <1>9, <2>1
    <2>3. after[j] = Exchange(after[j - 1], i, j)
      BY <1>7, <2>1
    <2> HIDE DEF j
    <2>4. Compared(s, after[j], S, i, j, n)
      BY <2>1, <2>2, <2>3, ComparedNext
    <2> QED  BY <2>4 DEF j
  <1> HIDE DEF Good
  <1>10. N \in Good
    BY <1>2, <1>8, <1>9, NumbersByInduction
  <1>11. i + N = n
    BY <1>2 DEF N
  <1> QED  BY <1>1, <1>2, <1>10, <1>11 DEF Good

\* After the outer loop has been through position i.
Sorted(s, t, S, i, n) == t \in [1 .. n -> S] /\ Permuted(s, t, n) /\ Placed(t, i, n)

\* One round of the outer loop.
LEMMA SortedNext ==
    ASSUME NEW S, \A x \in S : x.domain \in Names,
           NEW n \in Nat, NEW s, NEW t, NEW i \in 1 .. n,
           Sorted(s, t, S, i - 1, n), t \in Seq(S), Len(t) = n
    PROVE  Sorted(s, InnerLoop(t, i), S, i, n)
  <1> DEFINE u == InnerLoop(t, i)
  <1>1. t \in [1 .. n -> S] /\ Permuted(s, t, n) /\ Placed(t, i - 1, n)
    BY DEF Sorted
  <1>2. Compared(t, u, S, i, n, n)
    BY <1>1, InnerLoopCompares
  <1> HIDE DEF u
  <1>3. /\ u \in [1 .. n -> S] /\ Permuted(t, u, n) /\ Placed(u, i - 1, n)
        /\ \A b \in i + 1 .. n : ~Precedes(u[b], u[i])
    BY <1>2 DEF Compared
  <1>4. Permuted(s, u, n)
    BY <1>1, <1>3, PermutedTwice
  <1>5. Placed(u, i, n)
    <2> SUFFICES ASSUME NEW a \in 1 .. i, NEW b \in 1 .. n, a < b
                 PROVE  ~Precedes(u[b], u[a])
      BY DEF Placed
    <2>1. CASE a = i
      BY <1>3, <2>1
    <2>2. CASE a # i
      BY <1>3, <2>2 DEF Placed
    <2> QED  BY <2>1, <2>2
  <1> QED  BY <1>3, <1>4, <1>5 DEF Sorted, u

\* A function on the first numbers is a sequence of that length.
LEMMA ArrayIsSeq ==
    ASSUME NEW S, NEW n \in Nat, NEW t \in [1 .. n -> S]
    PROVE  t \in Seq(S) /\ Len(t) = n
  OBVIOUS

\* sortSuffixes and sortHostSuffixes sort: the result has the entries of
\* the slice, each as often, and none comes behind one it should precede.
THEOREM SortSuffixesSorts ==
    ASSUME NEW S, \A x \in S : x.domain \in Names, NEW s \in Seq(S)
    PROVE  LET t == sortSuffixes(s) IN
              /\ t \in Seq(S) /\ Len(t) = Len(s)
              /\ Permuted(s, t, Len(s))
              /\ \A a, b \in 1 .. Len(t) : a < b => ~Precedes(t[b], t[a])
  <1> DEFINE n == Len(s)
             A == [1 .. n -> S]
             Body(f) == [i \in 0 .. Len(s) |-> IF i = 0 THEN s ELSE InnerLoop(f[i - 1], i)]
             after == CHOOSE f : f = Body(f)
  <1>1. sortSuffixes(s) = after[n]
    BY DEF sortSuffixes
  <1>2. n \in Nat /\ s \in A
    OBVIOUS
  <1> HIDE DEF n, A
  <1> DEFINE Runs(m) == {f \in [0 .. m -> A] :
                 /\ f[0] = s
                 /\ \A i \in 1 .. m : i <= n => f[i] = InnerLoop(f[i - 1], i)
                 /\ \A i \in 0 .. m : i <= n => Sorted(s, f[i], S, i, n)}
             Good == {m \in Nat : Runs(m) # {}}
  <1>3. 0 \in Good
    <2> DEFINE f == [i \in 0 .. 0 |-> s]
    <2>1. Sorted(s, s, S, 0, n)
      <3>1. Placed(s, 0, n)
        BY DEF Placed
      <3> QED  BY <1>2, <3>1, PermutedSelf DEF Sorted, A
    <2>2. f \in Runs(0)
      BY <1>2, <2>1
    <2> QED  BY <2>2
  <1>4. ASSUME NEW m \in Nat, m \in Good PROVE m + 1 \in Good
    <2>1. PICK f \in Runs(m) : TRUE
      BY <1>4
    <2>2. /\ f \in [0 .. m -> A] /\ f[0] = s
          /\ \A i \in 1 .. m : i <= n => f[i] = InnerLoop(f[i - 1], i)
          /\ \A i \in 0 .. m : i <= n => Sorted(s, f[i], S, i, n)
      OBVIOUS
    <2> DEFINE new == IF m + 1 <= n THEN InnerLoop(f[m], m + 1) ELSE s
               g == [i \in 0 .. m + 1 |-> IF i <= m THEN f[i] ELSE new]
    <2>3. new \in A /\ (m + 1 <= n => Sorted(s, new, S, m + 1, n))
      <3>1. CASE m + 1 <= n
        <4>1. f[m] \in A /\ Sorted(s, f[m], S, m, n) /\ m + 1 \in 1 .. n /\ (m + 1) - 1 = m
          BY <1>2, <2>2, <3>1
        <4>2. f[m] \in Seq(S) /\ Len(f[m]) = n
          BY <1>2, <4>1, ArrayIsSeq DEF A
        <4>3. Sorted(s, InnerLoop(f[m], m + 1), S, m + 1, n)
          BY <1>2, <4>1, <4>2, SortedNext
        <4> QED  BY <3>1, <4>3 DEF Sorted, A
      <3>2. CASE ~(m + 1 <= n)
        BY <1>2, <3>2
      <3> QED  BY <3>1, <3>2
    <2> HIDE DEF new
    <2>4. /\ \A i \in 0 .. m : g[i] = f[i] /\ f[i] \in A
          /\ g[m + 1] = new /\ g[0] = s
          /\ \A i \in 0 .. m + 1 : i <= m \/ i = m + 1
      BY <2>2
    <2>5. g \in [0 .. m + 1 -> A]
      BY <2>3, <2>4
    <2> HIDE DEF g
    <2>6. ASSUME NEW i \in 1 .. m + 1, i <= n PROVE g[i] = InnerLoop(g[i - 1], i)
      <3>1. CASE i <= m
        <4>1. i \in 1 .. m /\ i \in 0 .. m /\ i - 1 \in 0 .. m
          BY <3>1
        <4> QED  BY <2>2, <2>4, <2>6, <4>1
      <3>2. CASE ~(i <= m)
        <4>1. i = m + 1 /\ i - 1 = m /\ m \in 0 .. m
          BY <3>2
        <4> QED  BY <2>4, <2>6, <4>1 DEF new
      <3> QED  BY <3>1, <3>2
    <2>7. ASSUME NEW i \in 0 .. m + 1, i <= n PROVE Sorted(s, g[i], S, i, n)
      <3>1. CASE i <= m
        BY <2>2, <2>4, <2>7, <3>1
      <3>2. CASE ~(i <= m)
        BY <2>3, <2>4, <2>7, <3>2
      <3> QED  BY <3>1, <3>2
    <2>8. g \in Runs(m + 1)
      BY <2>4, <2>5, <2>6, <2>7
    <2> QED  BY <2>8
  <1> HIDE DEF Good
  <1>5. n \in Good
    BY <1>2, <1>3, <1>4, NumbersByInduction
  <1>6. PICK f \in Runs(n) : TRUE
    BY <1>5 DEF Good
  <1>7. f = Body(f) /\ f \in [0 .. n -> A]
    BY <1>2 DEF n
  <1>8. after = Body(after)
    <2> HIDE DEF Body
    <2> QED  BY <1>7
  <1> HIDE DEF after
  <1> DEFINE Same == {m \in Nat : m <= n => after[m] = f[m]}
  <1>9. 0 \in Same
    BY <1>2, <1>7, <1>8 DEF n
  <1>10. ASSUME NEW m \in Nat, m \in Same PROVE m + 1 \in Same
    <2> SUFFICES ASSUME m + 1 <= n PROVE after[m + 1] = f[m + 1]
      OBVIOUS
    <2>1. after[m] = f[m] /\ m + 1 \in 0 .. Len(s) /\ m + 1 # 0 /\ (m + 1) - 1 = m
      BY <1>2, <1>10 DEF n
    <2> HIDE DEF Same
    <2> QED  BY <1>7, <1>8, <2>1
  <1> HIDE DEF Same
  <1>11. n \in Same
    BY <1>2, <1>9, <1>10, NumbersByInduction
  <1>12. Sorted(s, sortSuffixes(s), S, n, n)
    <2>1. sortSuffixes(s) = f[n]
      BY <1>1, <1>2, <1>11 DEF Same
    <2> QED  BY <1>2, <1>6, <2>1
  <1> DEFINE t == sortSuffixes(s)
  <1>13. t \in [1 .. n -> S] /\ Permuted(s, t, n) /\ Placed(t, n, n)
    BY <1>12 DEF Sorted
  <1> HIDE DEF t
  <1>14. t \in Seq(S) /\ Len(t) = n
    BY <1>2, <1>13, ArrayIsSeq
  <1>15. \A a, b \in 1 .. Len(t) : a < b => ~Precedes(t[b], t[a])
    BY <1>13, <1>14 DEF Placed
  <1> QED  BY <1>13, <1>14, <1>15 DEF n, t

\* The first of some positions.
LEMMA FirstPosition ==
    ASSUME NEW n \in Nat, NEW T, T \subseteq 1 .. n, T # {}
    PROVE  Min(T) \in T /\ \A y \in T : Min(T) <= y
  <1>1. T \subseteq Nat
    OBVIOUS
  <1>2. PICK x \in T : \A y \in T : ~(<<y, x>> \in Less)
    BY LessWellFounded, WFMin, <1>1
  <1>3. ASSUME NEW y \in T PROVE x <= y
    <2>1. x \in Nat /\ y \in Nat /\ ~(<<y, x>> \in Less)
      BY <1>1, <1>2
    <2>2. ~(y < x)
      BY <2>1 DEF Less
    <2> QED  BY <2>1, <2>2
  <1> QED  BY <1>3 DEF Min

-----------------------------------------------------------------------------
(***************************************************************************)
(* Lists of the members of a set, each once.                               *)
(***************************************************************************)

\* The ways to give n positions to the members of I.
Arrangements(n, I) ==
    {at \in [1 .. n -> I] :
        /\ \A a, b \in 1 .. n : at[a] = at[b] => a = b
        /\ \A i \in I : \E a \in 1 .. n : at[a] = i}

\* s shows val[i] for every i in I, each as often as there are such i.
Shows(s, val, I) ==
    \E at \in Arrangements(Len(s), I) : \A k \in 1 .. Len(s) : s[k] = val[at[k]]

\* What is shown instead has its place at the same position.
LEMMA ShowsImage ==
    ASSUME NEW s, NEW t, NEW val, NEW new, NEW I, Shows(s, val, I), Len(t) = Len(s),
           \A k \in 1 .. Len(s), i \in I : s[k] = val[i] => t[k] = new[i]
    PROVE  Shows(t, new, I)
  <1>1. PICK at \in Arrangements(Len(s), I) : \A k \in 1 .. Len(s) : s[k] = val[at[k]]
    BY DEF Shows
  <1>2. \A k \in 1 .. Len(s) : t[k] = new[at[k]]
    BY <1>1 DEF Arrangements
  <1> QED  BY <1>1, <1>2 DEF Shows

\* Two arrangements, one after the other.
LEMMA ShowsThrough ==
    ASSUME NEW s, NEW t, NEW val, NEW I, NEW J, NEW K, Shows(s, val, I), Shows(t, s, J),
           J \subseteq 1 .. Len(s), K \subseteq I,
           \A m \in 1 .. Len(s), i \in I : s[m] = val[i] => (m \in J <=> i \in K)
    PROVE  Shows(t, val, K)
  <1> DEFINE n == Len(s)
             l == Len(t)
  <1>1. PICK at \in Arrangements(n, I) : \A m \in 1 .. n : s[m] = val[at[m]]
    BY DEF Shows
  <1>2. PICK pos \in Arrangements(l, J) : \A k \in 1 .. l : t[k] = s[pos[k]]
    BY DEF Shows
  <1> HIDE DEF l
  <1> DEFINE both == [k \in 1 .. l |-> at[pos[k]]]
  <1>3. /\ at \in [1 .. n -> I] /\ \A a, b \in 1 .. n : at[a] = at[b] => a = b
        /\ \A i \in I : \E a \in 1 .. n : at[a] = i
    BY DEF Arrangements
  <1>4. /\ pos \in [1 .. l -> J] /\ \A a, b \in 1 .. l : pos[a] = pos[b] => a = b
        /\ \A m \in J : \E a \in 1 .. l : pos[a] = m
    BY DEF Arrangements
  <1>5. \A m \in 1 .. n : m \in J <=> at[m] \in K
    BY <1>1, <1>3
  <1>6. \A k \in 1 .. l : pos[k] \in 1 .. n /\ both[k] = at[pos[k]] /\ both[k] \in K
    BY <1>4, <1>5
  <1>7. both \in [1 .. l -> K]
    BY <1>6
  <1> HIDE DEF both, n
  <1>8. \A a, b \in 1 .. l : both[a] = both[b] => a = b
    BY <1>3, <1>4, <1>6
  <1>9. ASSUME NEW i \in K PROVE \E a \in 1 .. l : both[a] = i
    <2>1. PICK m \in 1 .. n : at[m] = i
      BY <1>3
    <2>2. PICK a \in 1 .. l : pos[a] = m
      BY <1>4, <1>5, <2>1
    <2> QED  BY <1>6, <2>1, <2>2
  <1>10. both \in Arrangements(l, K)
    BY <1>7, <1>8, <1>9 DEF Arrangements
  <1>11. \A k \in 1 .. l : t[k] = val[both[k]]
    BY <1>1, <1>2, <1>6
  <1> QED  BY <1>10, <1>11 DEF Shows, l

\* As many positions as members, and the values of the members.
LEMMA ShowsCounts ==
    ASSUME NEW s, NEW val, NEW I, Len(s) \in Nat, Shows(s, val, I)
    PROVE  /\ IsFiniteSet(I) /\ Cardinality(I) = Len(s)
           /\ {s[k] : k \in 1 .. Len(s)} = {val[i] : i \in I}
           /\ Len(s) = 0 <=> I = {}
  <1> DEFINE n == Len(s)
  <1>1. PICK at \in Arrangements(n, I) : \A k \in 1 .. n : s[k] = val[at[k]]
    BY DEF Shows
  <1>2. /\ at \in [1 .. n -> I] /\ \A a, b \in 1 .. n : at[a] = at[b] => a = b
        /\ \A i \in I : \E a \in 1 .. n : at[a] = i
    BY DEF Arrangements
  <1> HIDE DEF n
  <1>3. at \in Bijection(1 .. n, I)
    BY <1>2 DEF Bijection, Injection, Surjection, IsInjective
  <1>4. n \in Nat /\ IsFiniteSet(1 .. n) /\ Cardinality(1 .. n) = n
    <2>1. n \in Nat
      BY DEF n
    <2>2. n - 1 + 1 = n
      BY <2>1
    <2> QED  BY <2>1, <2>2, FS_Interval
  <1>5. IsFiniteSet(I) /\ Cardinality(I) = n
    <2> DEFINE P == 1 .. n
    <2> HIDE DEF P
    <2>1. at \in Bijection(P, I) /\ IsFiniteSet(P) /\ Cardinality(P) = n
      BY <1>3, <1>4 DEF P
    <2>2. ExistsBijection(P, I)
      BY <2>1 DEF ExistsBijection
    <2> QED  BY <2>1, <2>2, FS_Bijection
  <1>6. {s[k] : k \in 1 .. n} = {val[i] : i \in I}
    BY <1>1, <1>2
  <1>7. n = 0 <=> I = {}
    <2>1. n # 0 => 1 \in 1 .. n
      BY <1>4
    <2>2. n = 0 => 1 .. n = {}
      BY <1>4
    <2> QED  BY <1>2, <2>1, <2>2
  <1> QED  BY <1>5, <1>6, <1>7 DEF n

\* A permutation shows the same.
LEMMA PermutedShows ==
    ASSUME NEW s, NEW t, NEW val, NEW I, Shows(s, val, I), Permuted(s, t, Len(s)),
           Len(t) = Len(s)
    PROVE  Shows(t, val, I)
  <1> DEFINE n == Len(s)
  <1>1. PICK p \in Shuffles(n) : t = [k \in 1 .. n |-> s[p[k]]]
    BY DEF Permuted
  <1>2. p \in Arrangements(n, 1 .. n) /\ \A k \in 1 .. n : t[k] = s[p[k]]
    BY <1>1 DEF Shuffles, Arrangements
  <1>3. Shows(t, s, 1 .. n)
    BY <1>2 DEF Shows
  <1>4. \A m \in 1 .. n, i \in I : s[m] = val[i] => (m \in 1 .. n <=> i \in I)
    OBVIOUS
  <1> QED  BY <1>3, <1>4, ShowsThrough

\* t has what the first n elements of s have in W.
Found(s, t, V, W, n) == t \in Seq(V) /\ Shows(t, s, {m \in 1 .. n : s[m] \in W})

\* One element more.
LEMMA FoundNext ==
    ASSUME NEW V, NEW s \in Seq(V), NEW t, NEW W, NEW n \in Nat, n + 1 <= Len(s),
           Found(s, t, V, W, n)
    PROVE  Found(s, IF s[n + 1] \in W THEN Append(t, s[n + 1]) ELSE t, V, W, n + 1)
  <1> DEFINE e == s[n + 1]
             J == {m \in 1 .. n : s[m] \in W}
             K == {m \in 1 .. n + 1 : s[m] \in W}
             l == Len(t)
             u == Append(t, e)
  <1>1. t \in Seq(V) /\ Shows(t, s, J) /\ e \in V
    BY DEF Found
  <1>2. /\ l \in Nat /\ u \in Seq(V) /\ Len(u) = l + 1 /\ u[l + 1] = e
        /\ \A k \in 1 .. l : u[k] = t[k]
    BY <1>1
  <1>3. /\ \A m \in 1 .. n : m \in 1 .. n + 1 /\ m # n + 1
        /\ \A m \in 1 .. n + 1 : m \in 1 .. n \/ m = n + 1
        /\ n + 1 \in 1 .. n + 1
    OBVIOUS
  <1> HIDE DEF u, l
  <1>4. CASE e \in W
    <2>1. K = J \cup {n + 1} /\ n + 1 \notin J
      BY <1>3, <1>4
    <2> HIDE DEF J, K
    <2>2. PICK at \in Arrangements(l, J) : \A k \in 1 .. l : t[k] = s[at[k]]
      BY <1>1 DEF Shows, l
    <2>3. /\ at \in [1 .. l -> J] /\ \A a, b \in 1 .. l : at[a] = at[b] => a = b
          /\ \A i \in J : \E a \in 1 .. l : at[a] = i
      BY DEF Arrangements
    <2> DEFINE new == [k \in 1 .. l + 1 |-> IF k = l + 1 THEN n + 1 ELSE at[k]]
    <2>4. /\ \A k \in 1 .. l : k \in 1 .. l + 1 /\ k # l + 1
          /\ \A k \in 1 .. l + 1 : k \in 1 .. l \/ k = l + 1
          /\ l + 1 \in 1 .. l + 1
      BY <1>2
    <2>5. new \in [1 .. l + 1 -> K]
      BY <2>1, <2>3, <2>4
    <2>6. new[l + 1] = n + 1 /\ \A k \in 1 .. l : new[k] = at[k] /\ at[k] \in J
      BY <2>3, <2>4
    <2> HIDE DEF new
    <2>7. \A a, b \in 1 .. l + 1 : new[a] = new[b] => a = b
      BY <2>1, <2>3, <2>4, <2>6
    <2>8. \A i \in K : \E a \in 1 .. l + 1 : new[a] = i
      BY <2>1, <2>3, <2>4, <2>6
    <2>9. \A k \in 1 .. l + 1 : u[k] = s[new[k]]
      BY <1>2, <2>2, <2>4, <2>6
    <2>10. new \in Arrangements(l + 1, K)
      BY <2>5, <2>7, <2>8 DEF Arrangements
    <2>11. Shows(u, s, K)
      BY <1>2, <2>9, <2>10 DEF Shows
    <2> QED  BY <1>2, <1>4, <2>11 DEF Found, K, u
  <1>5. CASE e \notin W
    <2>1. K = J
      BY <1>3, <1>5
    <2> QED  BY <1>1, <1>5, <2>1 DEF Found
  <1> QED  BY <1>4, <1>5

\* The loop finds every element that is in W, each at its place.
LEMMA WhereFinds ==
    ASSUME NEW V, NEW s \in Seq(V), NEW W
    PROVE  Found(s, Where(s, W), V, W, Len(s))
  <1> DEFINE N == Len(s)
             S == Seq(V)
             Body(f) == [k \in 0 .. Len(s) |->
                           IF k = 0 THEN <<>>
                           ELSE IF s[k] \in W THEN Append(f[k - 1], s[k])
                           ELSE f[k - 1]]
             found == CHOOSE f : f = Body(f)
             step == [x \in Nat \X S |->
                        IF x[1] \in 1 .. N /\ s[x[1]] \in W THEN Append(x[2], s[x[1]]) ELSE x[2]]
  <1>1. Where(s, W) = found[N]
    BY DEF Where
  <1>2. N \in Nat /\ <<>> \in S /\ \A k \in 1 .. N : s[k] \in V
    OBVIOUS
  <1> HIDE DEF S
  <1>3. step \in [Nat \X S -> S]
    <2>1. ASSUME NEW x \in Nat \X S PROVE step[x] \in S
      <3> DEFINE m == x[1]
                 w == x[2]
      <3>1. w \in S
        OBVIOUS
      <3> HIDE DEF m, w
      <3>2. CASE m \in 1 .. N /\ s[m] \in W
        <4>1. Append(w, s[m]) \in S
          BY <1>2, <3>1, <3>2 DEF S
        <4> QED  BY <3>2, <4>1 DEF m, w
      <3>3. CASE ~(m \in 1 .. N /\ s[m] \in W)
        BY <3>1, <3>3 DEF m, w
      <3> QED  BY <3>2, <3>3
    <2> QED  BY <2>1
  <1> HIDE DEF step, N
  <1>4. PICK f : Iterates(f, S, <<>>, step, N)
    BY <1>2, <1>3, IterationExists
  <1>5. /\ f \in [0 .. N -> S] /\ f[0] = <<>>
        /\ \A k \in 1 .. N : f[k] = step[<<k, f[k - 1]>>]
    BY <1>4 DEF Iterates
  <1>6. f = Body(f)
    <2>1. ASSUME NEW k \in 0 .. N
          PROVE  f[k] = IF k = 0 THEN <<>>
                        ELSE IF s[k] \in W THEN Append(f[k - 1], s[k])
                        ELSE f[k - 1]
      <3>1. CASE k = 0
        BY <1>5, <3>1
      <3>2. CASE k # 0
        <4>1. k \in 1 .. N /\ k \in Nat /\ k - 1 \in 0 .. N
          BY <1>2, <3>2
        <4>2. f[k - 1] \in S
          BY <1>5, <4>1
        <4> DEFINE w == f[k - 1]
        <4>3. f[k] = step[<<k, w>>]
          BY <1>5, <4>1
        <4>4. step[<<k, w>>] = IF s[k] \in W THEN Append(w, s[k]) ELSE w
          <5>1. w \in S
            BY <4>2
          <5> HIDE DEF w
          <5> QED  BY <4>1, <5>1 DEF step
        <4> QED  BY <3>2, <4>3, <4>4
      <3> QED  BY <3>1, <3>2
    <2> QED  BY <1>5, <2>1 DEF N
  <1>7. found = Body(found)
    <2> HIDE DEF Body
    <2> QED  BY <1>6
  <1> HIDE DEF found
  <1> DEFINE Good == {n \in Nat : n <= N => Found(s, found[n], V, W, n)}
  <1>8. 0 \in Good
    <2>1. found[0] = <<>>
      BY <1>2, <1>7 DEF N
    <2>2. {m \in 1 .. 0 : s[m] \in W} = {}
      OBVIOUS
    <2>3. Found(s, <<>>, V, W, 0)
      <3> DEFINE at == [k \in 1 .. 0 |-> k]
      <3>1. Len(<<>>) = 0 /\ <<>> \in Seq(V)
        OBVIOUS
      <3>2. at \in Arrangements(0, {})
        BY DEF Arrangements
      <3>3. Shows(<<>>, s, {})
        BY <3>1, <3>2 DEF Shows
      <3> QED  BY <2>2, <3>1, <3>3 DEF Found
    <2> QED  BY <2>1, <2>3
  <1>9. ASSUME NEW n \in Nat, n \in Good PROVE n + 1 \in Good
    <2> SUFFICES ASSUME n + 1 <= N PROVE Found(s, found[n + 1], V, W, n + 1)
      OBVIOUS
    <2>1. Found(s, found[n], V, W, n) /\ n + 1 <= Len(s)
      BY <1>2, <1>9 DEF N
    <2>2. n + 1 \in 0 .. Len(s) /\ n + 1 # 0 /\ (n + 1) - 1 = n
      BY <1>2 DEF N
    <2>3. found[n + 1] = IF s[n + 1] \in W THEN Append(found[n], s[n + 1]) ELSE found[n]
      BY <1>7, <2>2
    <2> HIDE DEF Good
    <2> QED  BY <2>1, <2>3, FoundNext
  <1> HIDE DEF Good
  <1>10. N \in Good
    BY <1>2, <1>8, <1>9, NumbersByInduction
  <1> QED  BY <1>1, <1>2, <1>10 DEF Good, N

\* What a list shows, the loop over it shows of the members with a value in W.
LEMMA WhereShows ==
    ASSUME NEW V, NEW s \in Seq(V), NEW W, NEW val, NEW I, Shows(s, val, I)
    PROVE  /\ Where(s, W) \in Seq(V)
           /\ Shows(Where(s, W), val, {i \in I : val[i] \in W})
  <1> DEFINE J == {m \in 1 .. Len(s) : s[m] \in W}
             K == {i \in I : val[i] \in W}
  <1>1. Where(s, W) \in Seq(V) /\ Shows(Where(s, W), s, J)
    BY WhereFinds DEF Found
  <1>2. \A m \in 1 .. Len(s), i \in I : s[m] = val[i] => (m \in J <=> i \in K)
    OBVIOUS
  <1>3. J \subseteq 1 .. Len(s) /\ K \subseteq I
    OBVIOUS
  <1> HIDE DEF J, K
  <1>4. Shows(Where(s, W), val, K)
    BY <1>1, <1>2, <1>3, ShowsThrough
  <1> QED  BY <1>1, <1>4 DEF K

\* The loop finds the values that are in W, and none if there are none.
LEMMA WhereValues ==
    ASSUME NEW V, NEW s \in Seq(V), NEW W
    PROVE  /\ Where(s, W) \in Seq(V)
           /\ ToSet(Where(s, W)) = ToSet(s) \cap W
           /\ Where(s, W) = <<>> <=> ToSet(s) \cap W = {}
  <1> DEFINE w == Where(s, W)
             J == {m \in 1 .. Len(s) : s[m] \in W}
  <1>1. w \in Seq(V) /\ Shows(w, s, J)
    BY WhereFinds DEF Found
  <1> HIDE DEF w, J
  <1>2. Len(w) \in Nat /\ DOMAIN w = 1 .. Len(w) /\ (w = <<>> <=> Len(w) = 0)
    BY <1>1
  <1>3. {w[k] : k \in 1 .. Len(w)} = {s[m] : m \in J} /\ (Len(w) = 0 <=> J = {})
    BY <1>1, <1>2, ShowsCounts
  <1>4. ToSet(w) = {w[k] : k \in 1 .. Len(w)} /\ ToSet(s) = {s[m] : m \in 1 .. Len(s)}
    BY <1>2 DEF ToSet
  <1>5. {s[m] : m \in J} = ToSet(s) \cap W
    BY <1>4 DEF J
  <1>6. J = {} <=> {s[m] : m \in J} = {}
    OBVIOUS
  <1> QED  BY <1>1, <1>2, <1>3, <1>4, <1>5, <1>6 DEF w

\* A strict total order of S, by the members before each.
StrictlyOrders(earlier, S) ==
    /\ earlier \in [S -> SUBSET S]
    /\ \A i \in S : i \notin earlier[i]
    /\ \A i, j \in S : i # j => i \in earlier[j] \/ j \in earlier[i]
    /\ \A i, j \in S : i \in earlier[j] => earlier[i] \subseteq earlier[j]

\* The members before one are counted from 0, and differently for each.
LEMMA RanksDiffer ==
    ASSUME NEW S, IsFiniteSet(S), NEW earlier, StrictlyOrders(earlier, S)
    PROVE  /\ Cardinality(S) \in Nat
           /\ \A i \in S : Cardinality(earlier[i]) \in 0 .. Cardinality(S) - 1
           /\ \A i, j \in S : Cardinality(earlier[i]) = Cardinality(earlier[j]) => i = j
           /\ \A i, j \in S : i \in earlier[j] =>
                                 Cardinality(earlier[i]) < Cardinality(earlier[j])
  <1>1. Cardinality(S) \in Nat
    BY FS_CardinalityType
  <1>2. ASSUME NEW i \in S
        PROVE  /\ IsFiniteSet(earlier[i]) /\ Cardinality(earlier[i]) \in Nat
               /\ Cardinality(earlier[i]) < Cardinality(S)
    <2>1. i \notin earlier[i] /\ earlier[i] \in SUBSET S
      BY DEF StrictlyOrders
    <2>2. /\ IsFiniteSet(earlier[i]) /\ Cardinality(earlier[i]) <= Cardinality(S)
          /\ Cardinality(S) = Cardinality(earlier[i]) => S = earlier[i]
      BY <2>1, FS_Subset
    <2>3. Cardinality(earlier[i]) \in Nat
      BY <2>2, FS_CardinalityType
    <2> QED  BY <1>1, <2>1, <2>2, <2>3
  <1>3. ASSUME NEW i \in S, NEW j \in S, i \in earlier[j]
        PROVE  Cardinality(earlier[i]) < Cardinality(earlier[j])
    <2>1. i \notin earlier[i] /\ earlier[i] \in SUBSET earlier[j]
      BY <1>3 DEF StrictlyOrders
    <2>2. /\ IsFiniteSet(earlier[j]) /\ Cardinality(earlier[j]) \in Nat
          /\ Cardinality(earlier[i]) \in Nat
      BY <1>2
    <2>3. /\ Cardinality(earlier[i]) <= Cardinality(earlier[j])
          /\ Cardinality(earlier[j]) = Cardinality(earlier[i]) => earlier[j] = earlier[i]
      BY <2>1, <2>2, FS_Subset
    <2> QED  BY <1>3, <2>1, <2>2, <2>3
  <1>4. ASSUME NEW i \in S, NEW j \in S, i # j
        PROVE  Cardinality(earlier[i]) # Cardinality(earlier[j])
    <2>1. i \in earlier[j] \/ j \in earlier[i]
      BY <1>4 DEF StrictlyOrders
    <2>2. \/ Cardinality(earlier[i]) < Cardinality(earlier[j])
          \/ Cardinality(earlier[j]) < Cardinality(earlier[i])
      BY <1>3, <2>1
    <2>3. Cardinality(earlier[i]) \in Nat /\ Cardinality(earlier[j]) \in Nat
      BY <1>2
    <2> QED  BY <2>2, <2>3
  <1>5. \A i \in S : Cardinality(earlier[i]) \in 0 .. Cardinality(S) - 1
    BY <1>1, <1>2
  <1> QED  BY <1>1, <1>3, <1>4, <1>5

\* ORDER BY gives every member one position, and the order is kept.
LEMMA OrderByArranges ==
    ASSUME NEW S, IsFiniteSet(S), NEW earlier, StrictlyOrders(earlier, S)
    PROVE  LET ids == OrderBy(earlier)
               n   == Cardinality(S)
           IN  /\ n \in Nat /\ ids \in Arrangements(n, S)
               /\ \A k, l \in 1 .. n : k < l => ids[k] \in earlier[ids[l]]
  <1> DEFINE n == Cardinality(S)
             rank == [i \in S |-> Cardinality(earlier[i])]
             choice(k) == CHOOSE i \in S : Cardinality(earlier[i]) = k - 1
             ids == OrderBy(earlier)
  <1>1. /\ n \in Nat
        /\ \A i \in S : Cardinality(earlier[i]) \in 0 .. n - 1
        /\ \A i, j \in S : Cardinality(earlier[i]) = Cardinality(earlier[j]) => i = j
        /\ \A i, j \in S : i \in earlier[j] =>
                              Cardinality(earlier[i]) < Cardinality(earlier[j])
    BY RanksDiffer
  <1>2. ids = [k \in 1 .. n |-> choice(k)]
    BY DEF OrderBy, StrictlyOrders
  <1> HIDE DEF n, ids
  <1>3. rank \in Surjection(S, 0 .. n - 1)
    <2>1. rank \in Injection(S, 0 .. n - 1)
      BY <1>1 DEF Injection, IsInjective
    <2>2. IsFiniteSet(0 .. n - 1) /\ Cardinality(0 .. n - 1) = n
      BY <1>1, FS_Interval
    <2>3. Cardinality(S) = Cardinality(0 .. n - 1)
      BY <2>2 DEF n
    <2> HIDE DEF rank
    <2> QED  BY <2>1, <2>2, <2>3, FS_Injection
  <1>4. ASSUME NEW k \in 1 .. n PROVE choice(k) \in S /\ Cardinality(earlier[choice(k)]) = k - 1
    <2>1. k - 1 \in 0 .. n - 1
      BY <1>1
    <2>2. \E i \in S : Cardinality(earlier[i]) = k - 1
      BY <1>3, <2>1 DEF Surjection
    <2> QED  BY <2>2
  <1> HIDE DEF choice
  <1>5. /\ ids \in [1 .. n -> S]
        /\ \A k \in 1 .. n : Cardinality(earlier[ids[k]]) = k - 1
    BY <1>2, <1>4
  <1>6. \A a, b \in 1 .. n : ids[a] = ids[b] => a = b
    <2> SUFFICES ASSUME NEW a \in 1 .. n, NEW b \in 1 .. n, ids[a] = ids[b] PROVE a = b
      OBVIOUS
    <2>1. a - 1 = b - 1
      BY <1>5
    <2> QED  BY <1>1, <2>1
  <1>7. ASSUME NEW i \in S PROVE \E k \in 1 .. n : ids[k] = i
    <2> DEFINE k == Cardinality(earlier[i]) + 1
    <2>1. k \in 1 .. n /\ k - 1 = Cardinality(earlier[i])
      BY <1>1
    <2>2. ids[k] = i
      BY <1>1, <1>5, <2>1
    <2> QED  BY <2>1, <2>2
  <1>8. ASSUME NEW k \in 1 .. n, NEW l \in 1 .. n, k < l
        PROVE  ids[k] \in earlier[ids[l]]
    <2>1. /\ ids[k] \in S /\ ids[l] \in S
          /\ Cardinality(earlier[ids[k]]) = k - 1 /\ Cardinality(earlier[ids[l]]) = l - 1
      BY <1>5
    <2>2. ids[k] # ids[l] /\ ~(ids[l] \in earlier[ids[k]])
      BY <1>1, <1>8, <2>1
    <2> QED  BY <2>1, <2>2 DEF StrictlyOrders
  <1>9. ids \in Arrangements(n, S)
    BY <1>5, <1>6, <1>7 DEF Arrangements
  <1> QED  BY <1>1, <1>8, <1>9 DEF n, ids

=============================================================================
