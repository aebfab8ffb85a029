--------------------------- MODULE RuleCacheProofs ---------------------------
(***************************************************************************)
(* Proofs about RuleCache, for any number of rules and any names: the      *)
(* cache is what Load makes of the whole table, and the most specific rule *)
(* decides where a name goes.                                              *)
(***************************************************************************)
EXTENDS RuleCache, DomainNamesProofs

-----------------------------------------------------------------------------
(***************************************************************************)
(* Positions.                                                              *)
(***************************************************************************)

\* The last of some positions.
LEMMA LastPosition ==
    ASSUME NEW n \in Nat, NEW T, T \subseteq 1 .. n, T # {}
    PROVE  Max(T) \in T /\ \A y \in T : Max(T) >= y
  <1> DEFINE U == {n - x : x \in T}
  <1>1. U \subseteq Nat /\ U # {}
    <2>1. ASSUME NEW x \in T PROVE n - x \in Nat
      <3>1. x \in 1 .. n
        OBVIOUS
      <3> QED  BY <3>1
    <2>2. PICK x \in T : TRUE
      OBVIOUS
    <2> QED  BY <2>1, <2>2
  <1>2. PICK u \in U : \A v \in U : ~(<<v, u>> \in Less)
    <2> HIDE DEF U
    <2> QED  BY LessWellFounded, WFMin, <1>1
  <1>3. PICK x \in T : u = n - x
    BY <1>2
  <1>4. ASSUME NEW y \in T PROVE x >= y
    <2>1. n - y \in U /\ ~(n - y < n - x)
      BY <1>1, <1>2, <1>3 DEF Less
    <2> QED  BY <2>1
  <1> QED  BY <1>4 DEF Max

-----------------------------------------------------------------------------
(***************************************************************************)
(* ListRules.                                                              *)
(***************************************************************************)

Tables == [Ids -> DomainRule \cup {NoRow}]

\* The order of the listing is a strict total order of the rows.
LEMMA BeforeOrders ==
    ASSUME NEW table \in Tables,
           NEW i \in Stored(table), NEW j \in Stored(table), NEW k \in Stored(table)
    PROVE  /\ ~Before(table, i, i)
           /\ i # j => Before(table, i, j) \/ Before(table, j, i)
           /\ Before(table, i, j) /\ Before(table, j, k) => Before(table, i, k)
  <1>1. \A x \in Stored(table) : x \in Int /\ table[x].domain \in Int
    BY TextsAssumption DEF Tables, Stored, Ids, DomainRule, DomainIds
  <1> QED  BY <1>1 DEF Before

\* at[k] is the row at position k of the listing: every stored row has a
\* position, and they come in order.
Lists(table, list, at) ==
    /\ list \in Seq(DomainRule)
    /\ at \in [1 .. Len(list) -> Stored(table)]
    /\ \A k \in 1 .. Len(list) : list[k] = table[at[k]]
    /\ \A i \in Stored(table) : \E k \in 1 .. Len(list) : at[k] = i
    /\ \A k, l \in 1 .. Len(list) : k < l => Before(table, at[k], at[l])

\* Every table has such positions: ListRules orders the rows by Before.
LEMMA Listing ==
    ASSUME NEW table \in Tables
    PROVE  \E at : Lists(table, ListRules(table), at)
  <1> DEFINE S == Stored(table)
             N == Cardinality(S)
             earlier == [i \in S |-> {j \in S : Before(table, j, i)}]
             at == OrderBy(earlier)
             list == ListRules(table)
  <1>1. IsFiniteSet(S)
    <2>1. S \in SUBSET (1 .. MaxRules) /\ IsFiniteSet(1 .. MaxRules)
      BY RulesAssumption, FS_Interval DEF Stored, Ids
    <2> QED  BY <2>1, FS_Subset
  <1>2. StrictlyOrders(earlier, S)
    <2>1. \A i, j, k \in S :
            /\ ~Before(table, i, i)
            /\ i # j => Before(table, i, j) \/ Before(table, j, i)
            /\ Before(table, i, j) /\ Before(table, j, k) => Before(table, i, k)
      BY BeforeOrders
    <2> HIDE DEF S
    <2>2. \A i, j \in S : i \in earlier[j] => earlier[i] \subseteq earlier[j]
      BY <2>1
    <2> QED  BY <2>1, <2>2 DEF StrictlyOrders
  <1>3. list = [k \in DOMAIN at |-> table[at[k]]]
    BY DEF ListRules
  <1>4. \A i \in S : table[i] \in DomainRule
    BY DEF Stored, Tables
  <1> HIDE DEF S, at, list
  <1>5. /\ N \in Nat /\ at \in Arrangements(N, S)
        /\ \A k, l \in 1 .. N : k < l => at[k] \in earlier[at[l]]
    <2> HIDE DEF earlier
    <2> QED  BY <1>1, <1>2, OrderByArranges DEF at
  <1> HIDE DEF N
  <1>6. at \in [1 .. N -> S] /\ \A i \in S : \E k \in 1 .. N : at[k] = i
    BY <1>5 DEF Arrangements
  <1>7. list \in [1 .. N -> DomainRule] /\ \A k \in 1 .. N : list[k] = table[at[k]]
    BY <1>3, <1>4, <1>6
  <1>8. list \in Seq(DomainRule) /\ Len(list) = N
    BY <1>5, <1>7, ArrayIsSeq
  <1>9. \A k, l \in 1 .. N : k < l => Before(table, at[k], at[l])
    BY <1>5, <1>6
  <1>10. Lists(table, list, at)
    BY <1>6, <1>7, <1>8, <1>9 DEF Lists, S
  <1> QED  BY <1>10 DEF list

-----------------------------------------------------------------------------
(***************************************************************************)
(* The suffix list.                                                        *)
(***************************************************************************)

Entries == [domain : Names, upstream : Upstreams]

\* A rule becomes an entry with a name and an upstream.
LEMMA EntryType ==
    ASSUME NEW r \in DomainRule
    PROVE  Entry(r) \in Entries
  <1>1. r.domain \in DOMAIN Texts /\ r.upstream \in Upstreams
    BY DEF DomainRule, DomainIds
  <1>2. Texts[r.domain].labels \in Names
    <2> DEFINE Typed == [labels : Names, dot : BOOLEAN]
    <2>1. Texts \in Seq(Typed)
      BY TextsAssumption
    <2> HIDE DEF Typed
    <2>2. Texts[r.domain] \in Typed
      BY <1>1, <2>1
    <2> QED  BY <2>2 DEF Typed
  <1> QED  BY <1>1, <1>2 DEF Entry, Entries, normalize, Labels

\* All the wildcard rules of the listing, and no others.
LEMMA WildEntriesCollected ==
    ASSUME NEW list \in Seq(DomainRule)
    PROVE  LET w == WildEntries(list) IN
           /\ w \in Seq(Entries)
           /\ \A k \in 1 .. Len(w) : \E m \in 1 .. Len(list) :
                 IsWild(list[m]) /\ w[k] = Entry(list[m])
           /\ \A m \in 1 .. Len(list) :
                 IsWild(list[m]) => \E k \in 1 .. Len(w) : w[k] = Entry(list[m])
  <1> DEFINE Wild == {r \in DomainRule : IsWild(r)}
             rs == Where(list, Wild)
             w  == [k \in DOMAIN rs |-> Entry(rs[k])]
             J  == {m \in 1 .. Len(list) : list[m] \in Wild}
  <1>1. WildEntries(list) = w
    BY DEF WildEntries
  <1>2. \A m \in 1 .. Len(list) : m \in J <=> IsWild(list[m])
    OBVIOUS
  <1>3. rs \in Seq(DomainRule) /\ Shows(rs, list, J)
    <2> HIDE DEF Wild
    <2> QED  BY WhereFinds DEF Found
  <1>4. J \subseteq 1 .. Len(list)
    OBVIOUS
  <1> HIDE DEF rs, J
  <1>5. /\ Len(rs) \in Nat /\ DOMAIN rs = 1 .. Len(rs)
        /\ \A k \in 1 .. Len(rs) : rs[k] \in DomainRule
    BY <1>3
  <1>6. PICK at \in Arrangements(Len(rs), J) : \A k \in 1 .. Len(rs) : rs[k] = list[at[k]]
    BY <1>3 DEF Shows
  <1>7. /\ at \in [1 .. Len(rs) -> J]
        /\ \A m \in J : \E k \in 1 .. Len(rs) : at[k] = m
    BY DEF Arrangements
  <1>8. w \in Seq(Entries) /\ Len(w) = Len(rs)
    <2>1. w \in [1 .. Len(rs) -> Entries]
      BY <1>5, EntryType
    <2> HIDE DEF w
    <2> QED  BY <1>5, <2>1, ArrayIsSeq
  <1>9. \A k \in 1 .. Len(rs) : w[k] = Entry(list[at[k]]) /\ at[k] \in J
    BY <1>5, <1>6, <1>7
  <1> HIDE DEF w
  <1>10. ASSUME NEW k \in 1 .. Len(w)
         PROVE  \E m \in 1 .. Len(list) : IsWild(list[m]) /\ w[k] = Entry(list[m])
    BY <1>2, <1>4, <1>8, <1>9
  <1>11. ASSUME NEW m \in 1 .. Len(list), IsWild(list[m])
         PROVE  \E k \in 1 .. Len(w) : w[k] = Entry(list[m])
    <2>1. PICK k \in 1 .. Len(rs) : at[k] = m
      BY <1>2, <1>7, <1>11
    <2> QED  BY <1>8, <1>9, <2>1
  <1> QED  BY <1>1, <1>8, <1>10, <1>11

\* The suffix list has them all, and none behind one it should precede.
LEMMA SuffixListSorted ==
    ASSUME NEW list \in Seq(DomainRule)
    PROVE  LET t == SuffixList(list) IN
           /\ t \in Seq(Entries)
           /\ \A k \in 1 .. Len(t) : \E m \in 1 .. Len(list) :
                 IsWild(list[m]) /\ t[k] = Entry(list[m])
           /\ \A m \in 1 .. Len(list) :
                 IsWild(list[m]) => \E k \in 1 .. Len(t) : t[k] = Entry(list[m])
           /\ \A a, b \in 1 .. Len(t) : a < b => ~Precedes(t[b], t[a])
  <1> DEFINE w == WildEntries(list)
             t == sortSuffixes(w)
  <1>0. SuffixList(list) = t
    BY DEF SuffixList
  <1>2. /\ w \in Seq(Entries)
        /\ \A k \in 1 .. Len(w) : \E m \in 1 .. Len(list) :
              IsWild(list[m]) /\ w[k] = Entry(list[m])
        /\ \A m \in 1 .. Len(list) :
              IsWild(list[m]) => \E k \in 1 .. Len(w) : w[k] = Entry(list[m])
    BY WildEntriesCollected
  <1> HIDE DEF w
  <1>3. \A x \in Entries : x.domain \in Names
    BY DEF Entries
  <1>4. /\ t \in Seq(Entries) /\ Len(t) = Len(w)
        /\ Permuted(w, t, Len(w))
        /\ \A a, b \in 1 .. Len(t) : a < b => ~Precedes(t[b], t[a])
    BY <1>2, <1>3, SortSuffixesSorts
  <1> HIDE DEF t
  <1>5. PICK p \in Shuffles(Len(w)) : t = [k \in 1 .. Len(w) |-> w[p[k]]]
    BY <1>4 DEF Permuted
  <1>6. \A k \in 1 .. Len(t) : \E m \in 1 .. Len(w) : t[k] = w[m]
    BY <1>4, <1>5 DEF Shuffles
  <1>7. \A m \in 1 .. Len(w) : \E k \in 1 .. Len(t) : t[k] = w[m]
    BY <1>4, <1>5 DEF Shuffles
  <1>8. ASSUME NEW k \in 1 .. Len(t)
        PROVE  \E m \in 1 .. Len(list) : IsWild(list[m]) /\ t[k] = Entry(list[m])
    <2>1. PICK m \in 1 .. Len(w) : t[k] = w[m]
      BY <1>6
    <2> QED  BY <1>2, <2>1
  <1>9. ASSUME NEW m \in 1 .. Len(list), IsWild(list[m])
        PROVE  \E k \in 1 .. Len(t) : t[k] = Entry(list[m])
    <2>1. PICK k \in 1 .. Len(w) : w[k] = Entry(list[m])
      BY <1>2, <1>9
    <2> QED  BY <1>7, <2>1
  <1> QED  BY <1>0, <1>4, <1>8, <1>9

-----------------------------------------------------------------------------
(***************************************************************************)
(* What the cache made of a table says of a name.                          *)
(***************************************************************************)

\* The rows of the table that apply to a name.
ExactRows(table, n) ==
    {i \in Stored(table) : IsName(table[i]) /\ normalize(table[i].domain) = n}
WildRows(table, n) ==
    {i \in Stored(table) : IsWild(table[i]) /\ Covers(Entry(table[i]).domain, n)}
AnyRows(table) == {i \in Stored(table) : IsAny(table[i])}

\* Row i is the last of S in the listing, or has the most labels of S.
IsLast(table, S, i) == i \in S /\ \A j \in S : j = i \/ Before(table, j, i)
IsDeepest(table, S, i) ==
    i \in S /\ \A j \in S : Len(Labels(table[j].domain)) <= Len(Labels(table[i].domain))

\* The last position with a rule of a kind is that of the last such row.
LEMMA LastRow ==
    ASSUME NEW table \in Tables, NEW Kind
    PROVE  LET list == ListRules(table)
               Rows == {i \in Stored(table) : table[i] \in Kind}
               Hits == {k \in 1 .. Len(list) : list[k] \in Kind}
           IN  /\ Rows = {} <=> Hits = {}
               /\ Rows # {} => \E i : IsLast(table, Rows, i) /\ list[Max(Hits)] = table[i]
  <1> DEFINE list == ListRules(table)
             Rows == {i \in Stored(table) : table[i] \in Kind}
             Hits == {k \in 1 .. Len(list) : list[k] \in Kind}
             last == Max(Hits)
  <1>1. PICK at : Lists(table, list, at)
    BY Listing
  <1> HIDE DEF list
  <1>2. /\ list \in Seq(DomainRule)
        /\ at \in [1 .. Len(list) -> Stored(table)]
        /\ \A k \in 1 .. Len(list) : list[k] = table[at[k]]
        /\ \A i \in Stored(table) : \E k \in 1 .. Len(list) : at[k] = i
        /\ \A k, l \in 1 .. Len(list) : k < l => Before(table, at[k], at[l])
    BY <1>1 DEF Lists
  <1>3. /\ \A k \in Hits : at[k] \in Rows
        /\ \A i \in Rows : \E k \in Hits : at[k] = i
    BY <1>2
  <1>4. Hits \subseteq 1 .. Len(list) /\ Len(list) \in Nat
    BY <1>2
  <1> HIDE DEF Rows, Hits
  <1>5. CASE Hits = {}
    BY <1>3, <1>5 DEF Rows, Hits, list
  <1>6. CASE Hits # {}
    <2>1. last \in Hits /\ \A k \in Hits : last >= k
      BY <1>4, <1>6, LastPosition
    <2> HIDE DEF last
    <2>2. ASSUME NEW j \in Rows PROVE j = at[last] \/ Before(table, j, at[last])
      <3>1. PICK k \in Hits : at[k] = j
        BY <1>3
      <3>2. k \in 1 .. Len(list) /\ last \in 1 .. Len(list) /\ last >= k
        BY <1>4, <2>1, <3>1
      <3>3. CASE k = last
        BY <3>1, <3>3
      <3>4. CASE k # last
        <4>1. k < last
          BY <3>2, <3>4
        <4> QED  BY <1>2, <3>1, <3>2, <4>1
      <3> QED  BY <3>3, <3>4
    <2>3. IsLast(table, Rows, at[last])
      BY <1>3, <2>1, <2>2 DEF IsLast
    <2>4. list[last] = table[at[last]]
      BY <1>2, <1>4, <2>1
    <2>5. Rows # {}
      BY <1>3, <2>1
    <2> QED  BY <1>6, <2>3, <2>4, <2>5 DEF Rows, Hits, list, last
  <1> QED  BY <1>5, <1>6

\* The map has the names of the exact rules, each with the upstream of the
\* last rule of the name.
LEMMA ExactMapRight ==
    ASSUME NEW table \in Tables, NEW n
    PROVE  LET map == ExactMap(ListRules(table)) IN
           /\ n \in DOMAIN map <=> ExactRows(table, n) # {}
           /\ n \in DOMAIN map =>
                 \E i : IsLast(table, ExactRows(table, n), i) /\ map[n] = table[i].upstream
  <1> DEFINE list == ListRules(table)
             map  == ExactMap(list)
             Kind == {r \in DomainRule : IsName(r) /\ normalize(r.domain) = n}
             Rows == {i \in Stored(table) : table[i] \in Kind}
             Hits == {k \in 1 .. Len(list) : list[k] \in Kind}
             Same == {k \in 1 .. Len(list) : IsName(list[k]) /\ normalize(list[k].domain) = n}
             D    == {normalize(r.domain) : r \in {r \in ToSet(list) : IsName(r)}}
  <1>1. list \in Seq(DomainRule)
    <2>1. PICK at : Lists(table, list, at)
      BY Listing
    <2> QED  BY <2>1 DEF Lists
  <1>2. /\ DOMAIN map = D
        /\ n \in D => map[n] = list[IF Same # {} THEN Max(Same) ELSE 0].upstream
    BY DEF ExactMap, SelectLastInSeq
  <1>3. /\ Rows = {} <=> Hits = {}
        /\ Rows # {} => \E i : IsLast(table, Rows, i) /\ list[Max(Hits)] = table[i]
    <2> HIDE DEF Kind
    <2> QED  BY LastRow
  <1> HIDE DEF list, map
  <1>4. Hits = Same
    BY <1>1
  <1>5. n \in D <=> Same # {}
    <2>1. DOMAIN list = 1 .. Len(list)
      BY <1>1
    <2> QED  BY <2>1 DEF ToSet
  <1>6. Rows = ExactRows(table, n)
    BY DEF ExactRows, Stored, Tables
  <1> HIDE DEF D, Hits, Rows, Same
  <1> QED  BY <1>2, <1>3, <1>4, <1>5, <1>6 DEF list, map

\* The default is the upstream of the last "*" rule.
LEMMA DefaultRight ==
    ASSUME NEW table \in Tables
    PROVE  LET default == DefaultOf(ListRules(table)) IN
           /\ AnyRows(table) = {} => default = Unset
           /\ AnyRows(table) # {} =>
                 \E i : IsLast(table, AnyRows(table), i) /\ default = table[i].upstream
  <1> DEFINE list == ListRules(table)
             Kind == {r \in DomainRule : IsAny(r)}
             Rows == {i \in Stored(table) : table[i] \in Kind}
             Hits == {k \in 1 .. Len(list) : list[k] \in Kind}
             Same == {k \in 1 .. Len(list) : IsAny(list[k])}
             last == IF Same # {} THEN Max(Same) ELSE 0
  <1>1. list \in Seq(DomainRule)
    <2>1. PICK at : Lists(table, list, at)
      BY Listing
    <2> QED  BY <2>1 DEF Lists
  <1>2. DefaultOf(list) = IF last = 0 THEN Unset ELSE list[last].upstream
    BY DEF DefaultOf, SelectLastInSeq
  <1>3. /\ Rows = {} <=> Hits = {}
        /\ Rows # {} => \E i : IsLast(table, Rows, i) /\ list[Max(Hits)] = table[i]
    <2> HIDE DEF Kind
    <2> QED  BY LastRow
  <1> HIDE DEF list
  <1>4. Hits = Same
    BY <1>1
  <1>5. Rows = AnyRows(table)
    BY DEF AnyRows, Stored, Tables
  <1>6. Same # {} => Max(Same) # 0
    <2>1. Same \subseteq 1 .. Len(list) /\ Len(list) \in Nat
      BY <1>1
    <2> HIDE DEF Same
    <2>2. Same # {} => Max(Same) \in Same
      BY <2>1, LastPosition
    <2> QED  BY <2>1, <2>2
  <1> HIDE DEF Hits, Rows, Same
  <1> QED  BY <1>2, <1>3, <1>4, <1>5, <1>6 DEF list

FirstCovering(list, n) == SelectInSeq(SuffixList(list), LAMBDA s : Covers(s.domain, n))

\* The first covering entry is from a covering rule with the most labels.
LEMMA FirstCoveringRight ==
    ASSUME NEW table \in Tables, NEW n
    PROVE  LET list == ListRules(table)
               first == FirstCovering(list, n)
           IN  /\ WildRows(table, n) = {} => first = 0
               /\ WildRows(table, n) # {} =>
                    /\ first # 0
                    /\ \E i : /\ IsDeepest(table, WildRows(table, n), i)
                              /\ SuffixList(list)[first].upstream = table[i].upstream
  <1> DEFINE list == ListRules(table)
             suf  == SuffixList(list)
             Rows == WildRows(table, n)
             Hits == {k \in 1 .. Len(suf) : Covers(suf[k].domain, n)}
             first == Min(Hits)
  <1>1. PICK at : Lists(table, list, at)
    BY Listing
  <1> HIDE DEF list
  <1>2. /\ list \in Seq(DomainRule)
        /\ at \in [1 .. Len(list) -> Stored(table)]
        /\ \A k \in 1 .. Len(list) : list[k] = table[at[k]]
        /\ \A i \in Stored(table) : \E k \in 1 .. Len(list) : at[k] = i
    BY <1>1 DEF Lists
  <1>3. FirstCovering(list, n) = IF Hits # {} THEN first ELSE 0
    BY DEF FirstCovering, SelectInSeq
  <1> HIDE DEF suf
  <1>4. /\ suf \in Seq(Entries)
        /\ \A k \in 1 .. Len(suf) : \E m \in 1 .. Len(list) :
              IsWild(list[m]) /\ suf[k] = Entry(list[m])
        /\ \A m \in 1 .. Len(list) :
              IsWild(list[m]) => \E k \in 1 .. Len(suf) : suf[k] = Entry(list[m])
        /\ \A a, b \in 1 .. Len(suf) : a < b => ~Precedes(suf[b], suf[a])
    BY <1>2, SuffixListSorted DEF suf
  <1>5. ASSUME NEW k \in Hits
        PROVE  \E i \in Rows : suf[k] = Entry(table[i])
    <2>1. PICK m \in 1 .. Len(list) : IsWild(list[m]) /\ suf[k] = Entry(list[m])
      BY <1>4
    <2>2. at[m] \in Stored(table) /\ list[m] = table[at[m]]
      BY <1>2
    <2> QED  BY <2>1, <2>2 DEF WildRows
  <1>6. ASSUME NEW i \in Rows
        PROVE  \E k \in Hits : suf[k] = Entry(table[i])
    <2>1. i \in Stored(table) /\ IsWild(table[i]) /\ Covers(Entry(table[i]).domain, n)
      BY DEF WildRows
    <2>2. PICK m \in 1 .. Len(list) : list[m] = table[i]
      BY <1>2, <2>1
    <2>3. PICK k \in 1 .. Len(suf) : suf[k] = Entry(list[m])
      BY <1>4, <2>1, <2>2
    <2> QED  BY <2>1, <2>2, <2>3
  <1>7. CASE Hits = {}
    BY <1>3, <1>6, <1>7 DEF list
  <1>8. CASE Hits # {}
    <2>1. first \in Hits /\ \A k \in Hits : first <= k
      <3>1. Hits \subseteq 1 .. Len(suf) /\ Len(suf) \in Nat
        BY <1>4
      <3> HIDE DEF Hits
      <3> QED  BY <1>8, <3>1, FirstPosition
    <2> HIDE DEF first
    <2>2. PICK i \in Rows : suf[first] = Entry(table[i])
      BY <1>5, <2>1
    <2>3. ASSUME NEW j \in Rows
          PROVE  Len(Labels(table[j].domain)) <= Len(Labels(table[i].domain))
      <3>1. PICK k \in Hits : suf[k] = Entry(table[j])
        BY <1>6
      <3>2. first <= k /\ first \in 1 .. Len(suf) /\ k \in 1 .. Len(suf)
        BY <2>1, <3>1
      <3>3. /\ Len(suf[k].domain) \in Nat /\ Len(suf[first].domain) \in Nat
            /\ suf[k].domain = Labels(table[j].domain)
            /\ suf[first].domain = Labels(table[i].domain)
        <4>1. suf[k] \in Entries /\ suf[first] \in Entries
          <5>1. suf \in Seq(Entries)
            BY <1>4
          <5> QED  BY <3>2, <5>1
        <4>2. suf[k].domain \in Names /\ suf[first].domain \in Names
          BY <4>1 DEF Entries
        <4>3. Len(suf[k].domain) \in Nat /\ Len(suf[first].domain) \in Nat
          BY <4>2 DEF Names
        <4> QED  BY <2>2, <3>1, <4>3 DEF Entry, normalize
      <3>4. CASE k = first
        BY <3>3, <3>4
      <3>5. CASE k # first
        <4>1. first < k
          BY <3>2, <3>5
        <4>2. ~Precedes(suf[k], suf[first])
          BY <1>4, <3>2, <4>1
        <4>3. ~(Len(suf[k].domain) > Len(suf[first].domain))
          BY <4>2 DEF Precedes, labelsCount
        <4> QED  BY <3>3, <4>3
      <3> QED  BY <3>4, <3>5
    <2>4. IsDeepest(table, Rows, i)
      BY <2>3 DEF IsDeepest
    <2>5. suf[first].upstream = table[i].upstream
      BY <2>2 DEF Entry
    <2>6. first # 0 /\ FirstCovering(list, n) = first
      BY <1>3, <1>8, <2>1
    <2> HIDE DEF Rows
    <2> QED  BY <2>2, <2>4, <2>5, <2>6 DEF suf, list, Rows
  <1> QED  BY <1>7, <1>8

Sent(upstream) == [upstream |-> upstream, ok |-> TRUE]
ByDefault(upstream) == [upstream |-> upstream, ok |-> upstream # Unset]

\* Where the rows alone say that a name goes.
Decides(table, n, result) ==
    IF ExactRows(table, n) # {}
    THEN \E i : IsLast(table, ExactRows(table, n), i) /\ result = Sent(table[i].upstream)
    ELSE IF WildRows(table, n) # {}
    THEN \E i : IsDeepest(table, WildRows(table, n), i) /\ result = Sent(table[i].upstream)
    ELSE IF AnyRows(table) # {}
    THEN \E i : IsLast(table, AnyRows(table), i) /\ result = ByDefault(table[i].upstream)
    ELSE result = ByDefault(Unset)

\* Match, of the three parts of a cache.
MatchIn(map, list, default, n) ==
    LET first == SelectInSeq(list, LAMBDA s : Covers(s.domain, n)) IN
    CASE n \in DOMAIN map -> Sent(map[n])
      [] n \notin DOMAIN map /\ first # 0 -> Sent(list[first].upstream)
      [] n \notin DOMAIN map /\ first = 0 -> ByDefault(default)

\* They do so in the cache that Load makes of them.
LEMMA RowsDecide ==
    ASSUME NEW table \in Tables, NEW n
    PROVE  LET list == ListRules(table)
               m    == MatchIn(ExactMap(list), SuffixList(list), DefaultOf(list), n)
           IN  Decides(table, n, m)
  <1> DEFINE list == ListRules(table)
             map == ExactMap(list)
             suf == SuffixList(list)
             default == DefaultOf(list)
             first == FirstCovering(list, n)
             m == MatchIn(map, suf, default, n)
  <1>1. /\ n \in DOMAIN map <=> ExactRows(table, n) # {}
        /\ n \in DOMAIN map =>
              \E i : IsLast(table, ExactRows(table, n), i) /\ map[n] = table[i].upstream
    BY ExactMapRight
  <1>2. /\ WildRows(table, n) = {} => first = 0
        /\ WildRows(table, n) # {} =>
              /\ first # 0
              /\ \E i : /\ IsDeepest(table, WildRows(table, n), i)
                        /\ suf[first].upstream = table[i].upstream
    BY FirstCoveringRight
  <1>3. /\ AnyRows(table) = {} => default = Unset
        /\ AnyRows(table) # {} =>
              \E i : IsLast(table, AnyRows(table), i) /\ default = table[i].upstream
    BY DefaultRight
  <1>4. /\ n \in DOMAIN map => m = Sent(map[n])
        /\ n \notin DOMAIN map /\ first # 0 => m = Sent(suf[first].upstream)
        /\ n \notin DOMAIN map /\ first = 0 => m = ByDefault(default)
    <2> HIDE DEF map, default, list
    <2> QED  BY DEF MatchIn, FirstCovering
  <1> HIDE DEF map, suf, default, first, m
  <1>5. Decides(table, n, m)
    BY <1>1, <1>2, <1>3, <1>4 DEF Decides
  <1> QED  BY <1>5 DEF m, map, suf, default

-----------------------------------------------------------------------------
(***************************************************************************)
(* The invariant.                                                          *)
(***************************************************************************)

\* New makes the cache of the empty table.
LEMMA InitInvariant == Init => IndInv
  <1> SUFFICES ASSUME Init PROVE IndInv
    OBVIOUS
  <1> DEFINE list == ListRules(rules)
  <1>1. TypeOK
    BY RulesAssumption DEF Init, TypeOK, Ids
  <1>2. Stored(rules) = {}
    BY DEF Init, Stored
  <1>3. list \in Seq(DomainRule) /\ list = <<>> /\ Len(list) = 0
    <2>1. PICK at : Lists(rules, list, at)
      BY <1>1, Listing DEF TypeOK, Tables
    <2> HIDE DEF list
    <2>2. list \in Seq(DomainRule) /\ \A k \in 1 .. Len(list) : at[k] \in Stored(rules)
      BY <2>1 DEF Lists
    <2> QED  BY <1>2, <2>2
  <1> HIDE DEF list
  <1>4. exact = ExactMap(list)
    <2>1. {normalize(r.domain) : r \in {r \in ToSet(list) : IsName(r)}} = {}
      BY <1>3 DEF ToSet
    <2> DEFINE value(n) ==
                 LET About(r) == IsName(r) /\ normalize(r.domain) = n
                 IN  list[SelectLastInSeq(list, About)].upstream
    <2>2. ExactMap(list) = [n \in {} |-> value(n)]
      BY <2>1, Zenon DEF ExactMap
    <2> HIDE DEF value
    <2>3. [n \in {} |-> value(n)] = <<>>
      OBVIOUS
    <2> QED  BY <2>2, <2>3 DEF Init
  <1>5. suffix = SuffixList(list)
    <2> DEFINE t == SuffixList(list)
    <2>1. /\ t \in Seq(Entries)
          /\ \A k \in 1 .. Len(t) : \E m \in 1 .. Len(list) :
                IsWild(list[m]) /\ t[k] = Entry(list[m])
      BY <1>3, SuffixListSorted
    <2> HIDE DEF t
    <2>2. t = <<>>
      BY <1>3, <2>1
    <2> QED  BY <2>2 DEF Init, t
  <1>6. defaultUpstream = DefaultOf(list)
    <2>1. {k \in 1 .. Len(list) : IsAny(list[k])} = {}
      BY <1>3
    <2> QED  BY <2>1 DEF Init, DefaultOf, SelectLastInSeq
  <1> QED  BY <1>1, <1>4, <1>5, <1>6 DEF IndInv, Loaded, list

\* Every request that changes a row ends with the cache loaded.
LEMMA ReloadLoads == Reload => Loaded'
  BY DEF Reload, Load, Loaded

\* Every request keeps the invariant.
LEMMA NextInvariant == IndInv /\ [Next]_vars => IndInv'
  <1> SUFFICES ASSUME IndInv, [Next]_vars PROVE IndInv'
    OBVIOUS
  <1>1. TypeOK /\ Loaded
    BY DEF IndInv
  <1>2. CASE CreateRule
    <2>1. TypeOK'
      BY <1>1, <1>2, RulesAssumption DEF CreateRule, TypeOK, Ids
    <2>2. Loaded'
      BY <1>2, ReloadLoads DEF CreateRule
    <2> QED  BY <2>1, <2>2 DEF IndInv
  <1>3. CASE UpdateRule
    <2>1. PICK i \in Stored(rules) : \E r \in Patched(rules[i]) :
              rules' = [rules EXCEPT ![i] = r] /\ UNCHANGED nextId
      BY <1>3 DEF UpdateRule
    <2>2. rules[i] \in DomainRule
      BY <1>1 DEF TypeOK, Stored
    <2>3. Patched(rules[i]) \subseteq DomainRule
      BY <2>2 DEF Patched, DomainRule
    <2>4. TypeOK'
      BY <1>1, <2>1, <2>3 DEF TypeOK
    <2>5. Loaded'
      BY <1>3, ReloadLoads DEF UpdateRule
    <2> QED  BY <2>4, <2>5 DEF IndInv
  <1>4. CASE DeleteRule
    <2>1. TypeOK'
      BY <1>1, <1>4 DEF DeleteRule, TypeOK, Stored
    <2>2. Loaded'
      BY <1>4, ReloadLoads DEF DeleteRule
    <2> QED  BY <2>1, <2>2 DEF IndInv
  <1>5. CASE RequestRefused \/ UNCHANGED vars
    <2>1. UNCHANGED vars
      BY <1>5 DEF RequestRefused
    <2> QED  BY <1>1, <2>1 DEF vars, IndInv, TypeOK, Loaded
  <1> QED  BY <1>2, <1>3, <1>4, <1>5 DEF Next


-----------------------------------------------------------------------------
(***************************************************************************)
(* Match.                                                                  *)
(***************************************************************************)

\* Match looks at the cache, and the cache is what Load made of the rows.
LEMMA MatchDecided ==
    ASSUME TypeOK, Loaded, NEW n
    PROVE  Decides(rules, n, Match(n))
  <1> DEFINE list == ListRules(rules)
             m == MatchIn(ExactMap(list), SuffixList(list), DefaultOf(list), n)
  <1>1. Decides(rules, n, m)
    BY RowsDecide DEF TypeOK, Tables
  <1>2. m = MatchIn(exact, suffix, defaultUpstream, n)
    BY DEF Loaded
  <1>3. MatchIn(exact, suffix, defaultUpstream, n) = Match(n)
    BY DEF MatchIn, Match, Sent, ByDefault
  <1> HIDE DEF m
  <1> QED  BY <1>1, <1>2, <1>3

\* The same after a step.
LEMMA MatchDecidedNext ==
    ASSUME TypeOK', Loaded', NEW n
    PROVE  Decides(rules', n, Match(n)')
  <1> DEFINE list == ListRules(rules')
             m == MatchIn(ExactMap(list), SuffixList(list), DefaultOf(list), n)
  <1>1. Decides(rules', n, m)
    BY RowsDecide DEF TypeOK, Tables
  <1>2. m = MatchIn(exact', suffix', defaultUpstream', n)
    BY DEF Loaded
  <1>3. MatchIn(exact', suffix', defaultUpstream', n) = Match(n)'
    BY DEF MatchIn, Match, Sent, ByDefault
  <1> HIDE DEF m
  <1> QED  BY <1>1, <1>2, <1>3

\* The reference definitions speak of the same rows.
LEMMA SameRows ==
    ASSUME NEW n
    PROVE  /\ ExactFor(n) = ExactRows(rules, n)
           /\ WildFor(n) = WildRows(rules, n)
           /\ Stars = AnyRows(rules)
  BY DEF ExactFor, WildFor, Stars, Live, ExactRows, WildRows, AnyRows,
         IsName, IsWild, IsAny, Kept, Entry, normalize

\* A loaded cache sends every name where the most specific rule says.
LEMMA LoadedIsRight ==
    ASSUME IndInv
    PROVE  MostSpecificWins
  <1> DEFINE M(n) == Match(n)
  <1>1. ASSUME NEW n \in Questions PROVE Decides(rules, n, M(n))
    BY MatchDecided DEF IndInv
  <1> HIDE DEF M
  <1>2. ASSUME NEW n \in Questions, ExactFor(n) # {}
        PROVE  M(n).ok /\ M(n).upstream \in UpstreamsOf(ExactFor(n))
    BY <1>1, <1>2, SameRows DEF Decides, IsLast, Sent, UpstreamsOf
  <1>3. ASSUME NEW n \in Questions, ExactFor(n) = {}, WildFor(n) # {}
        PROVE  M(n).ok /\ M(n).upstream \in UpstreamsOf(DeepestFor(n))
    <2>1. PICK i : IsDeepest(rules, WildFor(n), i) /\ M(n) = Sent(rules[i].upstream)
      BY <1>1, <1>3, SameRows DEF Decides
    <2>2. i \in DeepestFor(n)
      BY <2>1 DEF IsDeepest, DeepestFor
    <2> QED  BY <2>1, <2>2 DEF Sent, UpstreamsOf
  <1>4. ASSUME NEW n \in Questions, ExactFor(n) = {}, WildFor(n) = {}
        PROVE  IF M(n).ok THEN M(n).upstream \in UpstreamsOf(Stars)
                          ELSE Stars = {} \/ Unset \in UpstreamsOf(Stars)
    <2>1. CASE Stars # {}
      <3>1. PICK i \in Stars : M(n) = ByDefault(rules[i].upstream)
        BY <1>1, <1>4, <2>1, SameRows DEF Decides, IsLast
      <3>2. M(n).ok = (rules[i].upstream # Unset) /\ M(n).upstream = rules[i].upstream
        BY <3>1 DEF ByDefault
      <3>3. M(n).ok => rules[i].upstream # Unset
        BY <3>2, Zenon
      <3>4. ~M(n).ok => rules[i].upstream = Unset
        BY <3>2, Zenon
      <3> QED  BY <3>2, <3>3, <3>4 DEF UpstreamsOf
    <2>2. CASE Stars = {}
      <3>1. M(n) = ByDefault(Unset)
        BY <1>1, <1>4, <2>2, SameRows DEF Decides
      <3>2. M(n).ok = (Unset # Unset)
        BY <3>1 DEF ByDefault
      <3> QED  BY <2>2, <3>2, Zenon
    <2> QED  BY <2>1, <2>2
  <1> QED  BY <1>2, <1>3, <1>4 DEF MostSpecificWins, M

-----------------------------------------------------------------------------
(***************************************************************************)
(* A request about other names.                                            *)
(***************************************************************************)

\* A name has one suffix of every length.
LEMMA CoveringOfOneLength ==
    ASSUME NEW a \in Names, NEW b \in Names, NEW n, Covers(a, n), Covers(b, n), Len(a) = Len(b)
    PROVE  a = b
  <1> DEFINE l == Len(a)
             start == SubSeq(Reverse(n), 1, l)
  <1>1. l \in Nat /\ Len(b) = l
    BY DEF Names
  <1>2. ASSUME NEW x \in Names, Len(x) = l, Covers(x, n)
        PROVE  \A k \in 1 .. l : start[k] = x[l - k + 1]
    <2>1. x \in Seq(DOMAIN LabelLen)
      BY DEF Names
    <2>2. /\ Reverse(x) \in Seq(DOMAIN LabelLen) /\ Len(Reverse(x)) = l
          /\ \A k \in 1 .. l : Reverse(x)[k] = x[l - k + 1]
      BY <1>1, <1>2, <2>1 DEF Reverse
    <2>3. start = SubSeq(Reverse(x), 1, l)
      <3>1. CASE x = n
        BY <3>1
      <3>2. CASE x # n
        BY <1>2, <2>2, <3>2 DEF Covers, IsStrictSuffix, IsSuffix, IsPrefix
      <3> QED  BY <3>1, <3>2
    <2> HIDE DEF start, l
    <2>4. \A k \in 1 .. l : SubSeq(Reverse(x), 1, l)[k] = Reverse(x)[k]
      BY <1>1, <2>2
    <2> QED  BY <2>2, <2>3, <2>4
  <1>3. ASSUME NEW k \in 1 .. l PROVE a[k] = b[k]
    <2>1. l - k + 1 \in 1 .. l /\ l - (l - k + 1) + 1 = k
      BY <1>1
    <2> HIDE DEF start
    <2>2. start[l - k + 1] = a[l - (l - k + 1) + 1] /\ start[l - k + 1] = b[l - (l - k + 1) + 1]
      BY <1>1, <1>2, <2>1
    <2> QED  BY <2>1, <2>2
  <1> QED  BY <1>1, <1>3 DEF Names

\* Only one row of a set is the last.
LEMMA OneLast ==
    ASSUME NEW table \in Tables, NEW S, S \subseteq Stored(table), NEW i, NEW j,
           IsLast(table, S, i), IsLast(table, S, j)
    PROVE  i = j
  <1> SUFFICES ASSUME i # j PROVE FALSE
    OBVIOUS
  <1>1. i \in Stored(table) /\ j \in Stored(table)
    BY DEF IsLast
  <1>2. Before(table, j, i)
    BY DEF IsLast
  <1>3. Before(table, i, j)
    BY DEF IsLast
  <1> QED  BY <1>1, <1>2, <1>3, BeforeOrders

\* Two covering rules of one length would be duplicate suffixes.
LEMMA OneDeepest ==
    ASSUME NEW table \in Tables, DistinctWildcards(table), NEW n, NEW i, NEW j,
           IsDeepest(table, WildRows(table, n), i), IsDeepest(table, WildRows(table, n), j)
    PROVE  i = j
  <1>1. /\ i \in WildRows(table, n) /\ j \in WildRows(table, n)
        /\ Len(Labels(table[j].domain)) <= Len(Labels(table[i].domain))
        /\ Len(Labels(table[i].domain)) <= Len(Labels(table[j].domain))
    BY DEF IsDeepest
  <1>2. ASSUME NEW k \in WildRows(table, n)
        PROVE  /\ k \in Stored(table) /\ table[k].mode = "suffix" /\ table[k].enabled
               /\ Labels(table[k].domain) \in Names /\ Covers(Labels(table[k].domain), n)
    <2>1. k \in Stored(table) /\ IsWild(table[k]) /\ Covers(Labels(table[k].domain), n)
      BY DEF WildRows, Entry, normalize
    <2>2. table[k] \in DomainRule
      BY <2>1 DEF Stored, Tables
    <2>3. table[k].mode = "suffix" /\ table[k].enabled
      BY <2>1, <2>2 DEF IsWild, Kept, DomainRule, Modes
    <2>4. Labels(table[k].domain) \in Names
      BY <2>2, EntryType DEF Entry, Entries, normalize
    <2> QED  BY <2>1, <2>3, <2>4
  <1>3. Len(Labels(table[i].domain)) = Len(Labels(table[j].domain))
    <2>1. Len(Labels(table[i].domain)) \in Nat /\ Len(Labels(table[j].domain)) \in Nat
      BY <1>1, <1>2 DEF Names
    <2> QED  BY <1>1, <2>1
  <1>4. Labels(table[i].domain) = Labels(table[j].domain)
    BY <1>1, <1>2, <1>3, CoveringOfOneLength
  <1> QED  BY <1>1, <1>2, <1>4 DEF DistinctWildcards

\* Rows that differ do not concern the name.
Unconcerned(table, other, n) ==
    \A i \in Ids : other[i] # table[i] => ~Concerns(table[i], n) /\ ~Concerns(other[i], n)

\* The rows that apply to the name are in both tables, unchanged.
LEMMA RowsStay ==
    ASSUME NEW table \in Tables, NEW other \in Tables, NEW n, Unconcerned(table, other, n), NEW i
    PROVE  /\ i \in ExactRows(table, n) => i \in ExactRows(other, n) /\ other[i] = table[i]
           /\ i \in WildRows(table, n) => i \in WildRows(other, n) /\ other[i] = table[i]
           /\ i \in AnyRows(table) => i \in AnyRows(other) /\ other[i] = table[i]
  <1>1. i \in ExactRows(table, n) \/ i \in WildRows(table, n) \/ i \in AnyRows(table)
        => i \in Stored(table) /\ Concerns(table[i], n)
    BY DEF ExactRows, WildRows, AnyRows, IsAny, Concerns, Covers, Stored, Entry, normalize
  <1>2. i \in Stored(table) /\ Concerns(table[i], n) => i \in Stored(other) /\ other[i] = table[i]
    BY DEF Unconcerned, Stored
  <1> QED  BY <1>1, <1>2 DEF ExactRows, WildRows, AnyRows

\* The same rows come last, or are deepest.
LEMMA RanksStay ==
    ASSUME NEW table, NEW other, NEW S, \A i \in S : other[i] = table[i], NEW i
    PROVE  /\ IsLast(table, S, i) => IsLast(other, S, i)
           /\ IsDeepest(table, S, i) => IsDeepest(other, S, i)
  BY DEF IsLast, IsDeepest, Before

\* So the name goes to the same place.
LEMMA DecisionStays ==
    ASSUME NEW table \in Tables, NEW other \in Tables, NEW n, Unconcerned(table, other, n),
           DistinctWildcards(table), DistinctWildcards(other),
           NEW r, Decides(table, n, r), NEW q, Decides(other, n, q)
    PROVE  r = q
  <1>1. Unconcerned(other, table, n)
    BY DEF Unconcerned
  <1>2. /\ ExactRows(other, n) = ExactRows(table, n)
        /\ WildRows(other, n) = WildRows(table, n)
        /\ AnyRows(other) = AnyRows(table)
    BY <1>1, RowsStay
  <1>3. /\ \A i \in ExactRows(table, n) : other[i] = table[i]
        /\ \A i \in WildRows(table, n) : other[i] = table[i]
        /\ \A i \in AnyRows(table) : other[i] = table[i]
    BY RowsStay
  <1>4. /\ ExactRows(table, n) \subseteq Stored(other)
        /\ AnyRows(table) \subseteq Stored(other)
    BY <1>2 DEF ExactRows, AnyRows
  <1>5. CASE ExactRows(table, n) # {}
    <2>1. PICK i : IsLast(table, ExactRows(table, n), i) /\ r = Sent(table[i].upstream)
      BY <1>5 DEF Decides
    <2>2. PICK j : IsLast(other, ExactRows(table, n), j) /\ q = Sent(other[j].upstream)
      BY <1>2, <1>5 DEF Decides
    <2>3. IsLast(other, ExactRows(table, n), i) /\ other[i] = table[i]
      BY <1>3, <2>1, RanksStay DEF IsLast
    <2>4. i = j
      BY <1>4, <2>2, <2>3, OneLast
    <2> QED  BY <2>1, <2>2, <2>3, <2>4
  <1>6. CASE ExactRows(table, n) = {} /\ WildRows(table, n) # {}
    <2>1. PICK i : IsDeepest(table, WildRows(table, n), i) /\ r = Sent(table[i].upstream)
      BY <1>6 DEF Decides
    <2>2. PICK j : IsDeepest(other, WildRows(other, n), j) /\ q = Sent(other[j].upstream)
      BY <1>2, <1>6 DEF Decides
    <2>3. IsDeepest(other, WildRows(other, n), i) /\ other[i] = table[i]
      BY <1>2, <1>3, <2>1, RanksStay DEF IsDeepest
    <2>4. i = j
      BY <2>2, <2>3, OneDeepest
    <2> QED  BY <2>1, <2>2, <2>3, <2>4
  <1>7. CASE ExactRows(table, n) = {} /\ WildRows(table, n) = {} /\ AnyRows(table) # {}
    <2>1. PICK i : IsLast(table, AnyRows(table), i) /\ r = ByDefault(table[i].upstream)
      BY <1>7 DEF Decides
    <2>2. PICK j : IsLast(other, AnyRows(table), j) /\ q = ByDefault(other[j].upstream)
      BY <1>2, <1>7 DEF Decides
    <2>3. IsLast(other, AnyRows(table), i) /\ other[i] = table[i]
      BY <1>3, <2>1, RanksStay DEF IsLast
    <2>4. i = j
      BY <1>4, <2>2, <2>3, OneLast
    <2> QED  BY <2>1, <2>2, <2>3, <2>4
  <1>8. CASE ExactRows(table, n) = {} /\ WildRows(table, n) = {} /\ AnyRows(table) = {}
    BY <1>2, <1>8 DEF Decides
  <1> QED  BY <1>5, <1>6, <1>7, <1>8

-----------------------------------------------------------------------------
(***************************************************************************)
(* The theorems.                                                           *)
(***************************************************************************)

\* After every request the cache is what Load makes of the rows.
THEOREM Invariance == Spec => []IndInv
  <1> QED  BY InitInvariant, NextInvariant, PTL DEF Spec

\* Whatever the table and the order of its rows, the most specific rule
\* decides where a name goes, for any number of rules.
THEOREM MostSpecificAlwaysWins == Spec => []MostSpecificWins
  <1> QED  BY Invariance, LoadedIsRight, PTL

\* Without duplicate suffixes a request about other names moves no name,
\* although the sort is not stable and the table is listed anew.
THEOREM UnrelatedRulesStayInert == Spec => UnrelatedRulesInert
  <1> DEFINE Inert ==
        (DistinctWildcards(rules) /\ DistinctWildcards(rules')) =>
          \A n \in Questions :
              (\A i \in Ids : rules'[i] # rules[i] =>
                                  ~Concerns(rules[i], n) /\ ~Concerns(rules'[i], n))
              => Match(n)' = Match(n)
  <1>1. IndInv /\ IndInv' => Inert
    <2> SUFFICES ASSUME IndInv, IndInv',
                        DistinctWildcards(rules), DistinctWildcards(rules'),
                        NEW n \in Questions,
                        \A i \in Ids : rules'[i] # rules[i] =>
                                  ~Concerns(rules[i], n) /\ ~Concerns(rules'[i], n)
                 PROVE  Match(n)' = Match(n)
      OBVIOUS
    <2> DEFINE r == Match(n)
               q == Match(n)'
    <2>1. rules \in Tables /\ rules' \in Tables
      BY DEF IndInv, TypeOK, Tables
    <2>2. Decides(rules, n, r) /\ Decides(rules', n, q)
      BY MatchDecided, MatchDecidedNext DEF IndInv
    <2> HIDE DEF r, q
    <2>3. Unconcerned(rules, rules', n)
      BY DEF Unconcerned
    <2>4. r = q
      BY <2>1, <2>2, <2>3, DecisionStays
    <2> QED  BY <2>4 DEF r, q
  <1> QED  BY Invariance, <1>1, PTL DEF UnrelatedRulesInert

=============================================================================
