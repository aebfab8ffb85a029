--------------------------- MODULE HostRecordsProofs ---------------------------
(***************************************************************************)
(* Proofs about the local records.  LocalRecords: for any number of        *)
(* records, any names and any questions, the cache is what Load makes of   *)
(* the whole table, and a question is answered by the records it should.   *)
(* HostStore: for any number of clients and requests, any values of the    *)
(* ttl field and any width of a TTL, how the columns of a record end up.   *)
(***************************************************************************)
EXTENDS LocalRecords, HostStore, DomainNamesProofs

-----------------------------------------------------------------------------
(***************************************************************************)
(* ListHosts.                                                              *)
(***************************************************************************)

Tables == [Ids -> HostRecord \cup {NoRow}]

\* A stored row is a record.
LEMMA StoredRows ==
    ASSUME NEW table \in Tables, NEW i \in Stored(table)
    PROVE  /\ i \in Ids /\ table[i] \in HostRecord
           /\ table[i].domain \in DomainIds /\ table[i].type \in RecordTypes
           /\ table[i].mode \in Modes /\ table[i].enabled \in BOOLEAN
  BY RecordsAssumption DEF Tables, Stored, HostRecord

\* Types are ranked, differently.
LEMMA TypesRanked ==
    /\ \A x \in RecordTypes : TypeRank[x] \in Nat
    /\ \A x, y \in RecordTypes : TypeRank[x] = TypeRank[y] => x = y
  BY DEF RecordTypes, TypeRank

\* The order of the listing is a strict total order of the rows.
LEMMA BeforeOrders ==
    ASSUME NEW table \in Tables,
           NEW i \in Stored(table), NEW j \in Stored(table), NEW k \in Stored(table)
    PROVE  /\ ~Before(table, i, i)
           /\ i # j => Before(table, i, j) \/ Before(table, j, i)
           /\ Before(table, i, j) /\ Before(table, j, k) => Before(table, i, k)
  <1> DEFINE d(x) == table[x].domain
             r(x) == TypeRank[table[x].type]
             t(x) == table[x].type
  <1>1. \A x \in Stored(table) : x \in Int /\ d(x) \in Int /\ r(x) \in Int
    <2>1. \A x \in Stored(table) : x \in Ids /\ d(x) \in DomainIds /\ t(x) \in RecordTypes
      BY StoredRows
    <2> QED  BY <2>1, TextsAssumption, TypesRanked DEF Ids, DomainIds
  <1>2. \A x, y \in Stored(table) : r(x) = r(y) => t(x) = t(y)
    BY StoredRows, TypesRanked
  <1>3. \A x, y \in Stored(table) : Before(table, x, y) <=>
          \/ d(x) < d(y)
          \/ d(x) = d(y) /\ (r(x) < r(y) \/ (t(x) = t(y) /\ x < y))
    BY DEF Before
  <1>4. \A x, y \in Stored(table) : t(x) = t(y) => r(x) = r(y)
    OBVIOUS
  <1> HIDE DEF d, r, t
  <1> QED  BY <1>1, <1>2, <1>3, <1>4

\* The listing shows every stored row once.
LEMMA Listing ==
    ASSUME NEW table \in Tables
    PROVE  /\ ListHosts(table) \in Seq(HostRecord)
           /\ Shows(ListHosts(table), table, Stored(table))
  <1> DEFINE S == Stored(table)
             N == Cardinality(S)
             earlier == [i \in S |-> {j \in S : Before(table, j, i)}]
             at == OrderBy(earlier)
             list == ListHosts(table)
  <1>1. IsFiniteSet(S)
    <2>1. S \in SUBSET (1 .. MaxRecords) /\ IsFiniteSet(1 .. MaxRecords)
      BY RecordsAssumption, FS_Interval DEF Stored, Ids
    <2> QED  BY <2>1, FS_Subset
  <1>2. StrictlyOrders(earlier, S)
    <2>1. \A i, j, k \in S :
            /\ ~Before(table, i, i)
            /\ i # j => Before(table, i, j) \/ Before(table, j, i)
            /\ Before(table, i, j) /\ Before(table, j, k) => Before(table, i, k)
      BY BeforeOrders
    <2> HIDE DEF S
    <2>2. \A i, j \in S : i \in earlier[j] => earlier[i] \subseteq earlier[j]
      BY <2>1
    <2> QED  BY <2>1, <2>2 DEF StrictlyOrders
  <1>3. list = [k \in DOMAIN at |-> table[at[k]]]
    BY DEF ListHosts
  <1>4. \A i \in S : table[i] \in HostRecord
    BY StoredRows
  <1> HIDE DEF S, at, list
  <1>5. N \in Nat /\ at \in Arrangements(N, S)
    <2> HIDE DEF earlier
    <2> QED  BY <1>1, <1>2, OrderByArranges DEF at
  <1> HIDE DEF N
  <1>6. at \in [1 .. N -> S]
    BY <1>5 DEF Arrangements
  <1>7. list \in [1 .. N -> HostRecord] /\ \A k \in 1 .. N : list[k] = table[at[k]]
    BY <1>3, <1>4, <1>6
  <1>8. list \in Seq(HostRecord) /\ Len(list) = N
    BY <1>5, <1>7, ArrayIsSeq
  <1>9. Shows(list, table, S)
    BY <1>5, <1>7, <1>8 DEF Shows
  <1> QED  BY <1>8, <1>9 DEF list, S

-----------------------------------------------------------------------------
(***************************************************************************)
(* The records of a name.                                                  *)
(***************************************************************************)

RecordEntry(table) == [i \in Stored(table) |-> Entry(table[i])]

\* The entry of a record.
LEMMA EntryType == ASSUME NEW r \in HostRecord PROVE Entry(r) \in HostEntry
  BY DEF Entry, HostEntry, HostRecord

\* Load keeps the live rows, each under the name it is about.
LEMMA NameOfLive ==
    ASSUME TypeOK, NEW i \in Stored(records)
    PROVE  /\ records[i] \in Kept <=> i \in Live
           /\ i \in Live => NameOf(records[i].domain) = About(i) /\ About(i) \in Names
  <1> DEFINE d  == records[i].domain
             ls == Labels(d)
  <1>1. records[i] \in HostRecord /\ d \in DomainIds /\ records[i].enabled \in BOOLEAN
    BY StoredRows DEF TypeOK, Tables
  <1>2. records[i] \in Kept <=> i \in Live
    BY <1>1 DEF Kept, Live
  <1>3. ls \in Names
    <2> DEFINE Typed == [labels : Names, dot : BOOLEAN]
    <2>1. Texts \in Seq(Typed) /\ d \in DOMAIN Texts
      BY <1>1, TextsAssumption DEF DomainIds
    <2> HIDE DEF Typed, d
    <2>2. Texts[d] \in Typed
      BY <2>1
    <2> QED  BY <2>2 DEF Typed, Labels
  <1>4. ls # <<>> => Tail(ls) \in Names /\ Head(ls) = ls[1] /\ Len(ls) \in Nat \ {0}
    <2> HIDE DEF ls
    <2> QED  BY <1>3 DEF Names
  <1>5. /\ NameOf(d) = IF HasWildcard(d) THEN Tail(ls) ELSE ls
        /\ HasWildcard(d) <=> ls # <<>> /\ Head(ls) = "*" /\ (Len(ls) > 1 \/ Texts[d].dot)
        /\ i \in Live => ~(ls = <<"*">> /\ Texts[d].dot)
        /\ About(i) = IF ls # <<>> /\ Head(ls) = "*" /\ ls # <<"*">> THEN Tail(ls) ELSE ls
    BY DEF NameOf, HasWildcard, normalize, Live, IsEmptyName, About
  <1>6. ls # <<>> /\ Head(ls) = "*" => (Len(ls) > 1 <=> ls # <<"*">>)
    <2> HIDE DEF ls
    <2>1. ASSUME ls # <<>>, Head(ls) = "*", ~(Len(ls) > 1) PROVE ls = <<"*">>
      <3> DEFINE m == Len(ls)
      <3>1. m \in Nat /\ m # 0 /\ ~(m > 1) /\ ls[1] = "*"
        BY <1>4, <2>1
      <3> HIDE DEF m
      <3>2. m = 1
        BY <3>1
      <3> USE DEF m
      <3> QED  BY <1>3, <3>1, <3>2 DEF Names
    <2>2. ls = <<"*">> => ~(Len(ls) > 1)
      OBVIOUS
    <2> QED  BY <2>1, <2>2
  <1> HIDE DEF ls, d
  <1> QED  BY <1>2, <1>3, <1>4, <1>5, <1>6 DEF d

\* The entries of a name that have a type.
OwnEntries(map, n, qtype) == IF n \in DOMAIN map THEN filterEntries(map[n], qtype) ELSE <<>>

\* They are the entries of the live records that are about the name and
\* have the type, each of them once.
LEMMA OwnEntriesShown ==
    ASSUME TypeOK, NEW n, NEW qtype
    PROVE  LET own == OwnEntries(ExactMap(ListHosts(records)), n, qtype) IN
           /\ own \in Seq(HostEntry)
           /\ Shows(own, RecordEntry(records), OwnRecords(n, qtype))
  <1> DEFINE list == ListHosts(records)
             S    == Stored(records)
             D    == {NameOf(r.domain) : r \in ToSet(list) \cap Kept}
             rs   == Where(list, KeptAt(n))
             es   == [k \in DOMAIN rs |-> Entry(rs[k])]
             I    == {i \in S : records[i] \in KeptAt(n)}
             E    == RecordEntry(records)
             W    == {h \in HostEntry : qtype \in {h.type, "ANY"}}
             map  == ExactMap(list)
             own  == OwnEntries(map, n, qtype)
  <1>1. list \in Seq(HostRecord) /\ Shows(list, records, S)
    BY Listing DEF TypeOK, Tables
  <1>2. DOMAIN map = D /\ (n \in D => map[n] = es)
    BY DEF ExactMap
  <1> HIDE DEF list, map
  <1>3. \A i \in S : records[i] \in HostRecord
    BY StoredRows DEF TypeOK, Tables
  <1>4. I = {i \in Live : About(i) = n}
    <2>1. \A i \in S : records[i] \in KeptAt(n) <=> i \in Live /\ About(i) = n
      BY NameOfLive DEF KeptAt
    <2>2. Live \subseteq S
      BY DEF Live
    <2> QED  BY <2>1, <2>2
  <1>5. n \in D <=> I # {}
    <2>1. ToSet(list) = {records[i] : i \in S}
      <3>1. Len(list) \in Nat /\ DOMAIN list = 1 .. Len(list)
        BY <1>1
      <3>2. {list[k] : k \in 1 .. Len(list)} = {records[i] : i \in S}
        BY <1>1, <3>1, ShowsCounts
      <3> QED  BY <3>1, <3>2 DEF ToSet
    <2> QED  BY <2>1 DEF KeptAt
  <1>6. rs \in Seq(HostRecord) /\ Shows(rs, records, I)
    <2> HIDE DEF S
    <2> QED  BY <1>1, WhereShows
  <1> HIDE DEF D, rs
  <1>7. es \in Seq(HostEntry) /\ Shows(es, E, I)
    <2>1. /\ Len(rs) \in Nat /\ DOMAIN rs = 1 .. Len(rs)
          /\ \A k \in 1 .. Len(rs) : rs[k] \in HostRecord
      BY <1>6
    <2>2. es \in [1 .. Len(rs) -> HostEntry]
      BY <2>1, EntryType
    <2>3. es \in Seq(HostEntry) /\ Len(es) = Len(rs)
      BY <2>1, <2>2, ArrayIsSeq
    <2>4. \A k \in 1 .. Len(rs), i \in I : rs[k] = records[i] => es[k] = E[i]
      BY <2>1 DEF RecordEntry
    <2> HIDE DEF es, I, E
    <2> QED  BY <1>6, <2>3, <2>4, ShowsImage
  <1>8. OwnRecords(n, qtype) = {i \in I : E[i] \in W}
    <2>1. \A i \in I : E[i] = Entry(records[i]) /\ E[i] \in HostEntry
      BY <1>3, EntryType DEF RecordEntry
    <2>2. \A i \in I : E[i] \in W <=> HasType(i, qtype)
      <3> SUFFICES ASSUME NEW i \in I PROVE E[i] \in W <=> HasType(i, qtype)
        OBVIOUS
      <3>1. E[i] \in W <=> qtype \in {E[i].type, "ANY"}
        BY <2>1
      <3>2. Entry(records[i]).type = records[i].type
        BY DEF Entry
      <3> QED  BY <2>1, <3>1, <3>2 DEF HasType
    <2> QED  BY <1>4, <2>2 DEF OwnRecords
  <1> HIDE DEF I, E, es
  <1>9. CASE n \in D
    <2>1. own = Where(es, W)
      BY <1>2, <1>9 DEF OwnEntries, filterEntries
    <2> HIDE DEF own, W
    <2> QED  BY <1>7, <1>8, <2>1, WhereShows DEF own, map, list, E
  <1>10. CASE n \notin D
    <2>1. own = <<>>
      BY <1>2, <1>10 DEF OwnEntries
    <2>2. I = {} /\ OwnRecords(n, qtype) = {}
      BY <1>5, <1>8, <1>10
    <2>3. Shows(<<>>, E, {})
      <3> DEFINE at == [k \in 1 .. 0 |-> k]
      <3>1. Len(<<>>) = 0
        OBVIOUS
      <3>2. at \in Arrangements(0, {})
        BY DEF Arrangements
      <3> QED  BY <3>1, <3>2 DEF Shows
    <2> QED  BY <2>1, <2>2, <2>3 DEF own, map, list, E
  <1> QED  BY <1>9, <1>10

-----------------------------------------------------------------------------
(***************************************************************************)
(* The wildcards.                                                          *)
(***************************************************************************)

WildEntries == [domain : Names, entries : Seq(HostEntry)]

LiveWild == {i \in Live : records[i].mode = "suffix"}

\* The wildcard of a live record.
LEMMA WildcardType ==
    ASSUME TypeOK, NEW i \in LiveWild
    PROVE  LET w == Wildcard(records[i]) IN
           /\ w \in WildEntries /\ w.domain = About(i)
           /\ w.entries = <<Entry(records[i])>> /\ Entry(records[i]) \in HostEntry
  <1>1. i \in Stored(records) /\ i \in Live
    BY DEF LiveWild, Live
  <1>2. NameOf(records[i].domain) = About(i) /\ About(i) \in Names
    BY <1>1, NameOfLive
  <1>3. Entry(records[i]) \in HostEntry
    BY <1>1, StoredRows, EntryType DEF TypeOK, Tables
  <1>4. <<Entry(records[i])>> \in Seq(HostEntry)
    BY <1>3
  <1> QED  BY <1>2, <1>3, <1>4 DEF Wildcard, WildEntries

\* The suffix list has the wildcard of every live record of that mode, and
\* none behind one it should precede.
LEMMA SuffixListShown ==
    ASSUME TypeOK
    PROVE  LET t == SuffixList(ListHosts(records)) IN
           /\ t \in Seq(WildEntries)
           /\ \A k \in 1 .. Len(t) : \E i \in LiveWild : t[k] = Wildcard(records[i])
           /\ \A i \in LiveWild : \E k \in 1 .. Len(t) : t[k] = Wildcard(records[i])
           /\ \A a, b \in 1 .. Len(t) : a < b => ~Precedes(t[b], t[a])
  <1> DEFINE list == ListHosts(records)
             S    == Stored(records)
             rs   == Where(list, KeptWild)
             ws   == [k \in DOMAIN rs |-> Wildcard(rs[k])]
             I    == {i \in S : records[i] \in KeptWild}
             W    == [i \in S |-> Wildcard(records[i])]
             t    == sortSuffixes(ws)
  <1>1. list \in Seq(HostRecord) /\ Shows(list, records, S)
    BY Listing DEF TypeOK, Tables
  <1>2. SuffixList(list) = t
    BY DEF SuffixList
  <1> HIDE DEF list
  <1>3. I = LiveWild
    BY NameOfLive DEF KeptWild, LiveWild, Live
  <1>4. rs \in Seq(HostRecord) /\ Shows(rs, records, I)
    <2> HIDE DEF S
    <2> QED  BY <1>1, WhereShows
  <1> HIDE DEF rs
  <1>5. Len(rs) \in Nat /\ DOMAIN rs = 1 .. Len(rs)
    BY <1>4
  <1>6. \A i \in I : W[i] = Wildcard(records[i]) /\ W[i] \in WildEntries
    BY <1>3, WildcardType
  <1> HIDE DEF I, W
  <1>7. PICK at \in Arrangements(Len(rs), I) : \A k \in 1 .. Len(rs) : rs[k] = records[at[k]]
    BY <1>4 DEF Shows
  <1>8. /\ at \in [1 .. Len(rs) -> I]
        /\ \A i \in I : \E k \in 1 .. Len(rs) : at[k] = i
    BY DEF Arrangements
  <1>9. \A k \in 1 .. Len(rs) : ws[k] = W[at[k]]
    BY <1>5, <1>6, <1>7, <1>8
  <1>10. ws \in Seq(WildEntries) /\ Len(ws) = Len(rs)
    <2>1. ws \in [1 .. Len(rs) -> WildEntries]
      BY <1>5, <1>6, <1>8, <1>9
    <2> HIDE DEF ws
    <2> QED  BY <1>5, <2>1, ArrayIsSeq
  <1> HIDE DEF ws
  <1>11. /\ t \in Seq(WildEntries) /\ Len(t) = Len(ws)
         /\ Permuted(ws, t, Len(ws))
         /\ \A a, b \in 1 .. Len(t) : a < b => ~Precedes(t[b], t[a])
    <2>1. \A x \in WildEntries : x.domain \in Names
      BY DEF WildEntries
    <2> QED  BY <1>10, <2>1, SortSuffixesSorts
  <1> HIDE DEF t
  <1>12. PICK p \in Shuffles(Len(ws)) : t = [k \in 1 .. Len(ws) |-> ws[p[k]]]
    BY <1>11 DEF Permuted
  <1>13. /\ \A k \in 1 .. Len(ws) : p[k] \in 1 .. Len(ws) /\ t[k] = ws[p[k]]
         /\ \A m \in 1 .. Len(ws) : \E k \in 1 .. Len(ws) : p[k] = m
    BY <1>12 DEF Shuffles
  <1>14. ASSUME NEW k \in 1 .. Len(t)
         PROVE  \E i \in LiveWild : t[k] = Wildcard(records[i])
    <2>1. k \in 1 .. Len(ws) /\ p[k] \in 1 .. Len(rs) /\ t[k] = ws[p[k]]
      BY <1>10, <1>11, <1>13
    <2>2. at[p[k]] \in I /\ ws[p[k]] = W[at[p[k]]]
      BY <1>8, <1>9, <2>1
    <2> QED  BY <1>3, <1>6, <2>1, <2>2
  <1>15. ASSUME NEW i \in LiveWild
         PROVE  \E k \in 1 .. Len(t) : t[k] = Wildcard(records[i])
    <2>1. PICK m \in 1 .. Len(ws) : at[m] = i
      BY <1>3, <1>8, <1>10
    <2>2. PICK k \in 1 .. Len(ws) : p[k] = m
      BY <1>13
    <2>3. m \in 1 .. Len(rs) /\ k \in 1 .. Len(t)
      BY <1>10, <1>11
    <2>4. t[k] = ws[m] /\ ws[m] = W[i] /\ W[i] = Wildcard(records[i])
      BY <1>3, <1>6, <1>9, <1>13, <2>1, <2>2, <2>3
    <2> QED  BY <2>3, <2>4
  <1> QED  BY <1>2, <1>11, <1>14, <1>15 DEF list

\* A wildcard has one entry, and it is found if it has the type.
LEMMA FilterOne ==
    ASSUME NEW e \in HostEntry, NEW qtype
    PROVE  LET w == filterEntries(<<e>>, qtype) IN
           /\ w \in Seq(HostEntry)
           /\ qtype \in {e.type, "ANY"} => w # <<>> /\ ToSet(w) = {e}
           /\ qtype \notin {e.type, "ANY"} => w = <<>>
  <1> DEFINE W == {h \in HostEntry : qtype \in {h.type, "ANY"}}
             s == <<e>>
             w == Where(s, W)
  <1>1. s \in Seq(HostEntry) /\ ToSet(s) = {e}
    <2>1. DOMAIN s = {1} /\ s[1] = e /\ s \in Seq(HostEntry)
      OBVIOUS
    <2> QED  BY <2>1 DEF ToSet
  <1>2. filterEntries(s, qtype) = w
    BY DEF filterEntries
  <1>3. e \in W <=> qtype \in {e.type, "ANY"}
    OBVIOUS
  <1> HIDE DEF s, W
  <1>4. /\ w \in Seq(HostEntry) /\ ToSet(w) = ToSet(s) \cap W
        /\ w = <<>> <=> ToSet(s) \cap W = {}
    BY <1>1, WhereValues
  <1> QED  BY <1>1, <1>2, <1>3, <1>4 DEF s

FirstHit(list, n, qtype) ==
    SelectInSeq(list, LAMBDA s : Covers(s.domain, n) /\ filterEntries(s.entries, qtype) # <<>>)

\* The first wildcard that covers the name and has the type is that of a
\* nearest such record.
LEMMA FirstHitNearest ==
    ASSUME TypeOK, NEW n, NEW qtype
    PROVE  LET list  == SuffixList(ListHosts(records))
               first == FirstHit(list, n, qtype)
           IN  /\ WildRecords(n, qtype) = {} => first = 0
               /\ WildRecords(n, qtype) # {} =>
                    /\ first # 0
                    /\ \E i \in NearestWild(n, qtype) :
                          LET w == filterEntries(list[first].entries, qtype)
                          IN  /\ w \in Seq(HostEntry) /\ w # <<>>
                              /\ ToSet(w) = {Entry(records[i])}
  <1> DEFINE list  == SuffixList(ListHosts(records))
             Hit(s) == Covers(s.domain, n) /\ filterEntries(s.entries, qtype) # <<>>
             Hits  == {k \in 1 .. Len(list) : Hit(list[k])}
             first == Min(Hits)
             Covering == WildRecords(n, qtype)
  <1>1. FirstHit(list, n, qtype) = IF Hits # {} THEN first ELSE 0
    BY DEF FirstHit, SelectInSeq
  <1>2. /\ list \in Seq(WildEntries)
        /\ \A k \in 1 .. Len(list) : \E i \in LiveWild : list[k] = Wildcard(records[i])
        /\ \A i \in LiveWild : \E k \in 1 .. Len(list) : list[k] = Wildcard(records[i])
        /\ \A a, b \in 1 .. Len(list) : a < b => ~Precedes(list[b], list[a])
    BY SuffixListShown
  <1> HIDE DEF list
  <1>3. ASSUME NEW i \in LiveWild
        PROVE  Hit(Wildcard(records[i])) <=> i \in Covering
    <2>1. /\ Wildcard(records[i]).domain = About(i)
          /\ Wildcard(records[i]).entries = <<Entry(records[i])>>
          /\ Entry(records[i]) \in HostEntry
      BY WildcardType
    <2>2. HasType(i, qtype) <=> qtype \in {Entry(records[i]).type, "ANY"}
      BY DEF HasType, Entry
    <2>3. filterEntries(<<Entry(records[i])>>, qtype) # <<>> <=> HasType(i, qtype)
      BY <2>1, <2>2, FilterOne
    <2>4. i \in Covering <=> Covers(About(i), n) /\ HasType(i, qtype)
      BY DEF LiveWild, WildRecords
    <2> QED  BY <2>1, <2>3, <2>4
  <1>4. Covering \subseteq LiveWild
    BY DEF WildRecords, LiveWild
  <1>5. ASSUME NEW k \in Hits PROVE \E i \in Covering : list[k] = Wildcard(records[i])
    <2>1. PICK i \in LiveWild : list[k] = Wildcard(records[i])
      BY <1>2
    <2>2. Hit(Wildcard(records[i]))
      BY <2>1
    <2> QED  BY <1>3, <2>1, <2>2
  <1>6. ASSUME NEW i \in Covering PROVE \E k \in Hits : list[k] = Wildcard(records[i])
    <2>1. PICK k \in 1 .. Len(list) : list[k] = Wildcard(records[i])
      BY <1>2, <1>4
    <2>2. Hit(Wildcard(records[i]))
      BY <1>3, <1>4
    <2> QED  BY <2>1, <2>2
  <1>7. Len(list) \in Nat /\ Hits \subseteq 1 .. Len(list)
    BY <1>2
  <1> HIDE DEF Hits, Hit, Covering
  <1>8. CASE Hits = {}
    BY <1>1, <1>6, <1>8 DEF list, Covering
  <1>9. CASE Hits # {}
    <2>1. first \in Hits /\ \A k \in Hits : first <= k
      BY <1>7, <1>9, FirstPosition
    <2> HIDE DEF first
    <2>2. PICK i \in Covering : list[first] = Wildcard(records[i])
      BY <1>5, <2>1
    <2>3. ASSUME NEW j \in Covering PROVE Len(About(j)) <= Len(About(i))
      <3>1. PICK k \in Hits : list[k] = Wildcard(records[j])
        BY <1>6
      <3>2. /\ list[first].domain = About(i) /\ About(i) \in Names
            /\ list[k].domain = About(j) /\ About(j) \in Names
        BY <1>4, <2>2, <3>1, WildcardType DEF WildEntries
      <3>3. Len(About(i)) \in Nat /\ Len(About(j)) \in Nat
        BY <3>2 DEF Names
      <3>4. CASE k = first
        BY <3>2, <3>3, <3>4
      <3>5. CASE k # first
        <4>1. first < k /\ k \in 1 .. Len(list) /\ first \in 1 .. Len(list)
          BY <1>7, <2>1, <3>5
        <4>2. ~Precedes(list[k], list[first])
          BY <1>2, <4>1
        <4>3. ~(Len(About(j)) > Len(About(i)))
          BY <3>2, <4>2 DEF Precedes, labelsCount
        <4> QED  BY <3>3, <4>3
      <3> QED  BY <3>4, <3>5
    <2>4. i \in NearestWild(n, qtype)
      BY <2>2, <2>3 DEF NearestWild, Covering
    <2>5. /\ list[first].entries = <<Entry(records[i])>> /\ Entry(records[i]) \in HostEntry
          /\ qtype \in {Entry(records[i]).type, "ANY"}
      <3>1. HasType(i, qtype)
        BY <2>2 DEF Covering, WildRecords
      <3>2. qtype \in {Entry(records[i]).type, "ANY"}
        BY <3>1 DEF HasType, Entry
      <3> QED  BY <1>4, <2>2, <3>2, WildcardType
    <2>6. /\ filterEntries(list[first].entries, qtype) \in Seq(HostEntry)
          /\ filterEntries(list[first].entries, qtype) # <<>>
          /\ ToSet(filterEntries(list[first].entries, qtype)) = {Entry(records[i])}
      BY <2>5, FilterOne
    <2>7. first # 0
      BY <1>7, <2>1
    <2> QED  BY <1>1, <1>9, <2>2, <2>4, <2>6, <2>7 DEF first, list, Covering
  <1> QED  BY <1>8, <1>9

-----------------------------------------------------------------------------
(***************************************************************************)
(* Lookup and resolveLocal.                                                *)
(***************************************************************************)

\* Where Lookup takes the entries from when the cache is loaded: every own
\* record of the type, or one of the nearest wildcards that have it.
LEMMA LookupTakes ==
    ASSUME IndInv, NEW n, NEW qtype
    PROVE  LET own   == OwnRecords(n, qtype)
               wild  == WildRecords(n, qtype)
               found == Lookup(n, qtype)
           IN  /\ found \in Seq(HostEntry)
               /\ own # {} => Shows(found, RecordEntry(records), own)
               /\ own = {} /\ wild # {} =>
                     \E i \in NearestWild(n, qtype) : ToSet(found) = {Entry(records[i])}
               /\ found = <<>> <=> own = {} /\ wild = {}
  <1> DEFINE own   == OwnEntries(exact, n, qtype)
             first == FirstHit(suffix, n, qtype)
             wild  == filterEntries(suffix[first].entries, qtype)
             O     == OwnRecords(n, qtype)
             W     == WildRecords(n, qtype)
             found == Lookup(n, qtype)
             E     == RecordEntry(records)
  <1>1. /\ TypeOK
        /\ exact = ExactMap(ListHosts(records)) /\ suffix = SuffixList(ListHosts(records))
    BY DEF IndInv, Loaded
  <1>2. own \in Seq(HostEntry) /\ Shows(own, E, O)
    BY <1>1, OwnEntriesShown
  <1>3. /\ W = {} => first = 0
        /\ W # {} => /\ first # 0 /\ wild \in Seq(HostEntry) /\ wild # <<>>
                     /\ \E i \in NearestWild(n, qtype) : ToSet(wild) = {Entry(records[i])}
    BY <1>1, FirstHitNearest
  <1>4. found = CASE own # <<>> -> own
                  [] own = <<>> /\ first # 0 -> wild
                  [] own = <<>> /\ first = 0 -> <<>>
    BY DEF Lookup, OwnEntries, FirstHit
  <1> HIDE DEF own, first, wild, O, W, found, E
  <1>5. own = <<>> <=> O = {}
    <2>1. Len(own) \in Nat /\ (own = <<>> <=> Len(own) = 0)
      BY <1>2
    <2> QED  BY <1>2, <2>1, ShowsCounts
  <1>6. CASE O # {}
    <2>1. found = own
      BY <1>4, <1>5, <1>6
    <2> QED  BY <1>2, <1>5, <1>6, <2>1 DEF O, found, E
  <1>7. CASE O = {} /\ W # {}
    <2>1. found = wild
      BY <1>3, <1>4, <1>5, <1>7
    <2> QED  BY <1>3, <1>7, <2>1 DEF O, W, found
  <1>8. CASE O = {} /\ W = {}
    <2>1. found = <<>>
      BY <1>3, <1>4, <1>5, <1>8
    <2> QED  BY <1>8, <2>1 DEF O, W, found
  <1> QED  BY <1>6, <1>7, <1>8

\* The entries of a set of records.
LEMMA ShownEntries ==
    ASSUME NEW s \in Seq(HostEntry), NEW I, I \subseteq Stored(records),
           Shows(s, RecordEntry(records), I)
    PROVE  Len(s) = Cardinality(I) /\ ToSet(s) = {Entry(records[i]) : i \in I}
  <1> DEFINE E == RecordEntry(records)
  <1>1. Len(s) \in Nat /\ DOMAIN s = 1 .. Len(s)
    OBVIOUS
  <1>2. Cardinality(I) = Len(s) /\ {s[k] : k \in 1 .. Len(s)} = {E[i] : i \in I}
    BY <1>1, ShowsCounts
  <1>3. \A i \in I : E[i] = Entry(records[i])
    BY DEF RecordEntry
  <1> HIDE DEF E
  <1>4. {E[i] : i \in I} = {Entry(records[i]) : i \in I}
    BY <1>3
  <1> QED  BY <1>1, <1>2, <1>4 DEF ToSet

\* What should be found for a name and a type: LookupFindsNearest, for any
\* name and type.
FoundRight(n, qtype, found) ==
    LET own == OwnRecords(n, qtype)
    IN  CASE own # {} ->
                /\ Len(found) = Cardinality(own)
                /\ ToSet(found) = {Entry(records[i]) : i \in own}
          [] own = {} /\ WildRecords(n, qtype) # {} ->
                /\ found # <<>>
                /\ ToSet(found) \subseteq {Entry(records[i]) : i \in NearestWild(n, qtype)}
          [] own = {} /\ WildRecords(n, qtype) = {} -> found = <<>>

\* Lookup finds it when the cache is loaded.
LEMMA LookupRight ==
    ASSUME IndInv, NEW n, NEW qtype
    PROVE  FoundRight(n, qtype, Lookup(n, qtype))
  <1> DEFINE O     == OwnRecords(n, qtype)
             W     == WildRecords(n, qtype)
             found == Lookup(n, qtype)
  <1>1. /\ found \in Seq(HostEntry)
        /\ O # {} => Shows(found, RecordEntry(records), O)
        /\ O = {} /\ W # {} =>
              \E i \in NearestWild(n, qtype) : ToSet(found) = {Entry(records[i])}
        /\ found = <<>> <=> O = {} /\ W = {}
    BY LookupTakes
  <1>2. O \subseteq Stored(records)
    BY DEF OwnRecords, Live
  <1> HIDE DEF O, W, found
  <1>3. O # {} => Len(found) = Cardinality(O) /\ ToSet(found) = {Entry(records[i]) : i \in O}
    BY <1>1, <1>2, ShownEntries
  <1>4. CASE O # {}
    BY <1>3, <1>4 DEF FoundRight, O, found
  <1>5. CASE O = {} /\ W # {}
    BY <1>1, <1>5 DEF FoundRight, O, W, found
  <1>6. CASE O = {} /\ W = {}
    BY <1>1, <1>6 DEF FoundRight, O, W, found
  <1> QED  BY <1>4, <1>5, <1>6

\* What resolveLocal should make of a question: LocalAnswerRight, for any name.
LocalRight(n, t, local) ==
    LET looked == IF t \in Types THEN t ELSE "ANY"
        own    == OwnRecords(n, looked)
        Good   == {i \in Live : Usable(Entry(records[i]), t)}
        Answers(S) == {Entry(records[i]) : i \in S \cap Good}
    IN  /\ local.found <=> own # {} \/ WildRecords(n, looked) # {}
        /\ own # {} =>
              /\ Len(local.answer) = Cardinality(own \cap Good)
              /\ ToSet(local.answer) = Answers(own)
              /\ local.rcode = "NXDOMAIN" <=> own \cap Good = {}
        /\ own = {} /\ local.found =>
              \E i \in NearestWild(n, looked) :
                 /\ ToSet(local.answer) = Answers({i})
                 /\ local.rcode = "NXDOMAIN" <=> i \notin Good

\* It does: what Lookup takes is filtered once more, and denied if nothing is left.
LEMMA ResolveLocalRight ==
    ASSUME IndInv, NEW n, NEW t \in QuestionTypes
    PROVE  LocalRight(n, t, resolveLocal(n, t))
  <1> DEFINE looked  == IF t \in Types THEN t ELSE "ANY"
             O       == OwnRecords(n, looked)
             W       == WildRecords(n, looked)
             Good    == {i \in Live : Usable(Entry(records[i]), t)}
             E       == RecordEntry(records)
             U       == {e \in HostEntry : Usable(e, t)}
             entries == Lookup(n, looked)
             answer  == Where(entries, U)
             local   == resolveLocal(n, t)
  <1>1. LookupType(t) = looked
    BY RecordsAssumption DEF QuestionTypes, LookupType, RecordTypes, TypeRank
  <1>2. /\ local.found = (entries # <<>>) /\ local.answer = answer
        /\ local.rcode = IF entries # <<>> /\ answer = <<>> THEN "NXDOMAIN" ELSE "NOERROR"
    BY <1>1 DEF resolveLocal
  <1>3. /\ entries \in Seq(HostEntry)
        /\ O # {} => Shows(entries, E, O)
        /\ O = {} /\ W # {} =>
              \E i \in NearestWild(n, looked) : ToSet(entries) = {Entry(records[i])}
        /\ entries = <<>> <=> O = {} /\ W = {}
    BY LookupTakes
  <1>4. O \subseteq Live /\ NearestWild(n, looked) \subseteq Live /\ Live \subseteq Stored(records)
    BY DEF OwnRecords, NearestWild, WildRecords, Live
  <1>5. ASSUME NEW i \in Live
        PROVE  /\ E[i] = Entry(records[i]) /\ Entry(records[i]) \in HostEntry
               /\ Entry(records[i]) \in U <=> i \in Good
    <2>1. E[i] = Entry(records[i]) /\ Entry(records[i]) \in HostEntry
      BY <1>4, StoredRows, EntryType DEF RecordEntry, IndInv, TypeOK, Tables
    <2> QED  BY <2>1
  <1> HIDE DEF looked, O, W, Good, E, U, entries, local
  <1>6. /\ answer \in Seq(HostEntry) /\ ToSet(answer) = ToSet(entries) \cap U
        /\ answer = <<>> <=> ToSet(answer) = {}
    BY <1>3, WhereValues
  <1>7. ASSUME O # {}
        PROVE  /\ Len(answer) = Cardinality(O \cap Good)
               /\ ToSet(answer) = {Entry(records[i]) : i \in O \cap Good}
    <2>1. {i \in O : E[i] \in U} = O \cap Good
      BY <1>4, <1>5
    <2>2. Shows(answer, E, {i \in O : E[i] \in U})
      BY <1>3, <1>7, WhereShows
    <2> HIDE DEF answer
    <2>3. Shows(answer, RecordEntry(records), O \cap Good)
      BY <2>1, <2>2 DEF E
    <2> QED  BY <1>4, <1>6, <2>3, ShownEntries
  <1> HIDE DEF answer
  <1>8. CASE O # {}
    <2>1. answer = <<>> <=> O \cap Good = {}
      BY <1>6, <1>7, <1>8
    <2> QED  BY <1>2, <1>3, <1>7, <1>8, <2>1, Zenon DEF LocalRight, looked, O, W, Good, local
  <1>9. CASE O = {}
    <2>1. ASSUME W # {}
          PROVE  \E i \in NearestWild(n, looked) :
                    /\ ToSet(answer) = {Entry(records[j]) : j \in {i} \cap Good}
                    /\ answer = <<>> <=> i \notin Good
      <3>1. PICK i \in NearestWild(n, looked) : ToSet(entries) = {Entry(records[i])}
        BY <1>3, <1>9, <2>1
      <3>2. Entry(records[i]) \in U <=> i \in Good
        BY <1>4, <1>5
      <3>3. i \in Good => ToSet(answer) = {Entry(records[i])} /\ {i} \cap Good = {i}
        BY <1>6, <3>1, <3>2
      <3>4. i \notin Good => ToSet(answer) = {} /\ {i} \cap Good = {}
        BY <1>6, <3>1, <3>2
      <3>5. ToSet(answer) = {Entry(records[j]) : j \in {i} \cap Good}
        BY <3>3, <3>4
      <3> QED  BY <1>6, <3>3, <3>4, <3>5
    <2>2. local.found <=> W # {}
      BY <1>2, <1>3, <1>9
    <2>3. W # {} => (local.rcode = "NXDOMAIN" <=> answer = <<>>)
      BY <1>2, <1>3, <1>9
    <2> QED  BY <1>2, <1>9, <2>1, <2>2, <2>3, Zenon DEF LocalRight, looked, O, W, Good, local
  <1> QED  BY <1>8, <1>9

-----------------------------------------------------------------------------
(***************************************************************************)
(* LocalRecords: the invariant, and what follows.                          *)
(***************************************************************************)

\* New makes the cache of the empty table.
LEMMA InitInvariant == Init => IndInv
  <1> SUFFICES ASSUME Init PROVE IndInv
    OBVIOUS
  <1> DEFINE list == ListHosts(records)
  <1>1. TypeOK
    BY RecordsAssumption DEF Init, TypeOK, Ids
  <1>2. Stored(records) = {}
    BY DEF Init, Stored
  <1>3. list \in Seq(HostRecord) /\ Len(list) \in Nat /\ Shows(list, records, {})
    <2>1. list \in Seq(HostRecord) /\ Shows(list, records, Stored(records))
      BY <1>1, Listing DEF TypeOK, Tables
    <2> HIDE DEF list
    <2> QED  BY <1>2, <2>1
  <1>4. list = <<>>
    <2> HIDE DEF list
    <2>1. Len(list) = 0
      BY <1>3, ShowsCounts
    <2> QED  BY <1>3, <2>1
  <1> HIDE DEF list
  <1>5. exact = ExactMap(list)
    <2> DEFINE D == {NameOf(r.domain) : r \in ToSet(list) \cap Kept}
               value(n) == LET rs == Where(list, KeptAt(n)) IN [k \in DOMAIN rs |-> Entry(rs[k])]
    <2>1. D = {}
      BY <1>4 DEF ToSet
    <2>2. ExactMap(list) = [n \in D |-> value(n)]
      BY DEF ExactMap
    <2> HIDE DEF value, D
    <2>3. [n \in D |-> value(n)] = <<>>
      BY <2>1
    <2> QED  BY <2>2, <2>3 DEF Init
  <1>6. suffix = SuffixList(list)
    <2> DEFINE t == SuffixList(list)
    <2>1. t \in Seq(WildEntries) /\ \A k \in 1 .. Len(t) : \E i \in LiveWild : TRUE
      BY <1>1, SuffixListShown DEF list
    <2>2. LiveWild = {}
      BY <1>2 DEF LiveWild, Live
    <2> HIDE DEF t
    <2>3. t = <<>>
      BY <2>1, <2>2
    <2> QED  BY <2>3 DEF Init, t
  <1> QED  BY <1>1, <1>5, <1>6 DEF IndInv, Loaded, list

\* Every request that changes a row ends with the cache loaded.
LEMMA ReloadLoads == Reload => Loaded'
  BY DEF Reload, Load, Loaded

\* Every request keeps the invariant.
LEMMA NextInvariant == IndInv /\ [Next]_vars => IndInv'
  <1> SUFFICES ASSUME IndInv, [Next]_vars PROVE IndInv'
    OBVIOUS
  <1>1. TypeOK /\ Loaded
    BY DEF IndInv
  <1>2. CASE CreateHost
    <2>1. TypeOK'
      BY <1>1, <1>2, RecordsAssumption DEF CreateHost, TypeOK, Ids
    <2>2. Loaded'
      BY <1>2, ReloadLoads DEF CreateHost
    <2> QED  BY <2>1, <2>2 DEF IndInv
  <1>3. CASE UpdateHost
    <2>1. PICK i \in Stored(records) : \E r \in Patched(records[i]) :
              records' = [records EXCEPT ![i] = r] /\ UNCHANGED nextId
      BY <1>3 DEF UpdateHost
    <2>2. records[i] \in HostRecord
      BY <1>1 DEF TypeOK, Stored
    <2>3. Patched(records[i]) \subseteq HostRecord
      BY <2>2 DEF Patched, HostRecord
    <2>4. TypeOK'
      BY <1>1, <2>1, <2>3 DEF TypeOK
    <2>5. Loaded'
      BY <1>3, ReloadLoads DEF UpdateHost
    <2> QED  BY <2>4, <2>5 DEF IndInv
  <1>4. CASE DeleteHost
    <2>1. TypeOK'
      BY <1>1, <1>4 DEF DeleteHost, TypeOK, Stored
    <2>2. Loaded'
      BY <1>4, ReloadLoads DEF DeleteHost
    <2> QED  BY <2>1, <2>2 DEF IndInv
  <1>5. CASE RequestRefused \/ UNCHANGED vars
    <2>1. UNCHANGED vars
      BY <1>5 DEF RequestRefused
    <2> QED  BY <1>1, <2>1 DEF vars, IndInv, TypeOK, Loaded
  <1> QED  BY <1>2, <1>3, <1>4, <1>5 DEF Next

\* After every request the host cache is what Load makes of the rows.
THEOREM Invariance == Spec => []IndInv
  <1> QED  BY InitInvariant, NextInvariant, PTL DEF Spec

\* Whatever the records, a name is served by all its own records of the type
\* asked for, each once, and only without one by a nearest wildcard.
THEOREM LookupAlwaysFindsNearest == Spec => []LookupFindsNearest
  <1>1. IndInv => LookupFindsNearest
    BY LookupRight DEF FoundRight, LookupFindsNearest
  <1> QED  BY Invariance, <1>1, PTL

\* A question is answered from the live records that have the type looked up,
\* its own ones first, then a nearest wildcard's; it leaves the machine only
\* without any, and is denied only when none of them was usable.
THEOREM LocalAnswerAlwaysRight == Spec => []LocalAnswerRight
  <1>1. IndInv => \A n \in Questions, t \in QuestionTypes : LocalRight(n, t, resolveLocal(n, t))
    BY ResolveLocalRight
  <1>2. IndInv => LocalAnswerRight
    BY <1>1, Zenon DEF LocalAnswerRight, LocalRight
  <1> QED  BY Invariance, <1>2, PTL

-----------------------------------------------------------------------------
(***************************************************************************)
(* HostStore: facts about the columns.                                     *)
(***************************************************************************)

\* What a request carries.
LEMMA PatchFacts ==
    ASSUME NEW u \in Patches
    PROVE  /\ u.type \in RawTypes \cup {Nil} /\ u.mode \in RawModes \cup {Nil}
           /\ u.ttl \in Int \cup {Nil} /\ u.enabled \in BOOLEAN \cup {Nil}
  BY StoreAssumption DEF Patches

\* What a row is made of.
LEMMA RowFacts ==
    ASSUME NEW r \in Rows
    PROVE  /\ r.type \in {"A", "TXT"} /\ r.mode \in {"exact", "suffix"}
           /\ r.ttl \in Nat /\ r.enabled \in BOOLEAN /\ r # Nil
  BY StoreAssumption DEF Rows

\* CreateHost makes a normalised row of any request.
LEMMA NewRowType == ASSUME NEW c \in Patches PROVE NewRow(c) \in Rows
  <1>1. /\ (IF c.type = Nil THEN "A" ELSE NormalType(c.type)) \in {"A", "TXT"}
        /\ (IF c.mode = Nil THEN "exact" ELSE NormalMode(c.mode)) \in {"exact", "suffix"}
    BY DEF NormalType, NormalMode
  <1>2. (IF c.ttl = Nil THEN DefaultTtl ELSE NormalTtl(c.ttl)) \in Nat
    BY PatchFacts, StoreAssumption DEF NormalTtl
  <1>3. (IF c.enabled = Nil THEN TRUE ELSE c.enabled) \in BOOLEAN
    BY PatchFacts
  <1> QED  BY <1>1, <1>2, <1>3 DEF NewRow, Rows

\* UpdateHost makes a normalised row of a normalised one.  It gives a column
\* that the request sets the value CreateHost would, and leaves every other
\* as it is.
LEMMA UpdatedRowType ==
    ASSUME NEW r \in Rows, NEW u \in Patches
    PROVE  /\ UpdatedRow(r, u) \in Rows
           /\ \A c \in Columns :
                UpdatedRow(r, u)[c] = IF u[c] # Nil THEN NewRow(u)[c] ELSE r[c]
  <1>1. /\ (IF u.type = Nil THEN r.type ELSE NormalType(u.type)) \in {"A", "TXT"}
        /\ (IF u.mode = Nil THEN r.mode ELSE NormalMode(u.mode)) \in {"exact", "suffix"}
    BY RowFacts DEF NormalType, NormalMode
  <1>2. (IF u.ttl = Nil THEN r.ttl ELSE NormalTtl(u.ttl)) \in Nat
    BY PatchFacts, RowFacts DEF NormalTtl
  <1>3. (IF u.enabled = Nil THEN r.enabled ELSE u.enabled) \in BOOLEAN
    BY PatchFacts, RowFacts
  <1>4. UpdatedRow(r, u) \in Rows
    BY <1>1, <1>2, <1>3 DEF UpdatedRow, Rows
  <1>5. \A c \in Columns : UpdatedRow(r, u)[c] = IF u[c] # Nil THEN NewRow(u)[c] ELSE r[c]
    <2> DEFINE x == UpdatedRow(r, u)
               y == NewRow(u)
    <2>1. /\ x.type = IF u.type = Nil THEN r.type ELSE NormalType(u.type)
          /\ x.mode = IF u.mode = Nil THEN r.mode ELSE NormalMode(u.mode)
          /\ x.ttl = IF u.ttl = Nil THEN r.ttl ELSE NormalTtl(u.ttl)
          /\ x.enabled = IF u.enabled = Nil THEN r.enabled ELSE u.enabled
      BY DEF UpdatedRow
    <2>2. /\ u.type # Nil => y.type = NormalType(u.type)
          /\ u.mode # Nil => y.mode = NormalMode(u.mode)
          /\ u.ttl # Nil => y.ttl = NormalTtl(u.ttl)
          /\ u.enabled # Nil => y.enabled = u.enabled
      BY DEF NewRow
    <2> HIDE DEF x, y
    <2>3. \A c \in Columns : x[c] = IF u[c] # Nil THEN y[c] ELSE r[c]
      BY <2>1, <2>2 DEF Columns
    <2> QED  BY <2>3 DEF x, y
  <1> QED  BY <1>4, <1>5

\* What HostCache serves for a row: nothing if it is disabled, else a TTL
\* that is not longer than its ttl, and equal to it if that fits.
LEMMA ServedFacts ==
    ASSUME NEW r \in Rows
    PROVE  /\ Served(r) \in Nat \cup {Nil}
           /\ r.enabled /\ r.ttl < TtlLimit => Served(r) = r.ttl
           /\ r.enabled => Served(r) \in 0 .. r.ttl
           /\ ~r.enabled => Served(r) = Nil
  <1>1. r.ttl \in Nat /\ TtlLimit \in Nat \ {0}
    BY RowFacts, StoreAssumption
  <1>2. r.ttl % TtlLimit \in 0 .. (TtlLimit - 1)
    BY <1>1
  <1>3. r.ttl < TtlLimit => r.ttl % TtlLimit = r.ttl
    BY <1>1
  <1>4. r.ttl % TtlLimit \in 0 .. r.ttl
    BY <1>1, <1>2, <1>3
  <1> QED  BY <1>2, <1>3, <1>4 DEF Served

-----------------------------------------------------------------------------
(***************************************************************************)
(* HostStore: one lemma per part of the invariant, one step per action.    *)
(***************************************************************************)

\* Every step keeps rows and copies normalised.
LEMMA TypeStep == StoreTypeOK /\ StageInv /\ [StoreNext]_storeVars => StoreTypeOK'
  <1> SUFFICES ASSUME StoreTypeOK, StageInv, [StoreNext]_storeVars PROVE StoreTypeOK'
    OBVIOUS
  <1> USE DEF StoreTypeOK
  <1>1. ASSUME NEW p \in Clients, Create(p) PROVE StoreTypeOK'
    <2>1. row' \in Rows
      BY <1>1, NewRowType DEF Create, Store
    <2> QED  BY <1>1, <2>1 DEF Create, Store
  <1>2. ASSUME NEW p \in Clients, StartUpdate(p) PROVE StoreTypeOK'
    BY <1>2 DEF StartUpdate
  <1>3. ASSUME NEW p \in Clients, GetHost(p) PROVE StoreTypeOK'
    <2>1. UpdatedRow(row, patch[p]) \in Rows
      BY <1>3, UpdatedRowType DEF GetHost, StageInv
    <2> QED  BY <1>3, <2>1 DEF GetHost
  <1>4. ASSUME NEW p \in Clients, Write(p) PROVE StoreTypeOK'
    BY <1>4 DEF Write, Store
  <1>5. ASSUME NEW p \in Clients, ListRow(p) PROVE StoreTypeOK'
    BY <1>5 DEF ListRow
  <1>6. ASSUME NEW p \in Clients, ReloadEntry(p) PROVE StoreTypeOK'
    <2>1. Served(cur[p]) \in Nat \cup {Nil}
      BY <1>6, ServedFacts DEF ReloadEntry, StageInv
    <2> QED  BY <1>6, <2>1 DEF ReloadEntry, Answer
  <1>7. ASSUME NEW p \in Clients, RequestFails(p) PROVE StoreTypeOK'
    BY <1>7 DEF RequestFails, Answer
  <1>8. CASE UNCHANGED storeVars
    BY <1>8 DEF storeVars
  <1> QED  BY <1>1, <1>2, <1>3, <1>4, <1>5, <1>6, <1>7, <1>8 DEF StoreNext

\* What a request under way has.
LEMMA StageStep == StoreTypeOK /\ StageInv /\ [StoreNext]_storeVars => StageInv'
  <1> SUFFICES ASSUME StoreTypeOK, StageInv, [StoreNext]_storeVars PROVE StageInv'
    OBVIOUS
  <1> USE DEF StoreTypeOK, StageInv
  <1>1. ASSUME NEW p \in Clients, Create(p) PROVE StageInv'
    <2>1. row' # Nil
      BY <1>1, NewRowType, RowFacts DEF Create, Store
    <2> QED  BY <1>1, <2>1 DEF Create
  <1>2. ASSUME NEW p \in Clients, StartUpdate(p) PROVE StageInv'
    BY <1>2, StoreAssumption DEF StartUpdate
  <1>3. ASSUME NEW p \in Clients, GetHost(p) PROVE StageInv'
    <2>1. UpdatedRow(row, patch[p]) # Nil
      BY <1>3, UpdatedRowType, RowFacts DEF GetHost
    <2> QED  BY <1>3, <2>1 DEF GetHost
  <1>4. ASSUME NEW p \in Clients, Write(p) PROVE StageInv'
    BY <1>4 DEF Write, Store
  <1>5. ASSUME NEW p \in Clients, ListRow(p) PROVE StageInv'
    BY <1>5 DEF ListRow
  <1>6. ASSUME NEW p \in Clients, ReloadEntry(p) \/ RequestFails(p) PROVE StageInv'
    BY <1>6 DEF ReloadEntry, RequestFails, Answer
  <1>7. CASE UNCHANGED storeVars
    BY <1>7 DEF storeVars
  <1> QED  BY <1>1, <1>2, <1>3, <1>4, <1>5, <1>6, <1>7 DEF StoreNext

\* A statement that stores a row is seen by every other update under way,
\* whose earlier sightings stay.
LEMMA StoreSeen ==
    ASSUME NEW p, NEW r, Store(p, r), NEW q \in Clients, q # p, NEW c \in Columns,
           pc[q] \in {"get", "write"}
    PROVE  since'[q][c] = since[q][c] \cup {row'[c]}
  BY DEF Store

\* What an update under way has seen, and what its copy is made of.
LEMMA SinceStep == StoreTypeOK /\ StageInv /\ SinceInv /\ [StoreNext]_storeVars => SinceInv'
  <1> SUFFICES ASSUME StoreTypeOK, StageInv, SinceInv, [StoreNext]_storeVars PROVE SinceInv'
    OBVIOUS
  <1>1. ASSUME NEW p \in Clients, Create(p) PROVE SinceInv'
    BY <1>1 DEF Create, StoreTypeOK, StageInv, SinceInv
  <1>2. ASSUME NEW p \in Clients, StartUpdate(p) PROVE SinceInv'
    BY <1>2 DEF StartUpdate, StoreTypeOK, SinceInv
  <1>3. ASSUME NEW p \in Clients, GetHost(p) PROVE SinceInv'
    <2>1. row \in Rows /\ patch[p] \in Patches
      BY <1>3 DEF GetHost, StoreTypeOK, StageInv
    <2>2. \A c \in Columns :
             cur'[p][c] = IF patch[p][c] # Nil THEN NewRow(patch[p])[c] ELSE row[c]
      BY <1>3, <2>1, UpdatedRowType DEF GetHost, StoreTypeOK
    <2> QED  BY <1>3, <2>2 DEF GetHost, StoreTypeOK, SinceInv
  <1>4. ASSUME NEW p \in Clients, Write(p) PROVE SinceInv'
    <2>1. \A q \in Clients : pc'[q] \in {"get", "write"} =>
             q # p /\ pc'[q] = pc[q] /\ patch'[q] = patch[q] /\ cur'[q] = cur[q]
      BY <1>4 DEF Write, StoreTypeOK
    <2>2. \A q \in Clients, c \in Columns : q # p /\ pc[q] \in {"get", "write"} =>
             since'[q][c] = since[q][c] \cup {row'[c]}
      BY <1>4, StoreSeen DEF Write
    <2> QED  BY <2>1, <2>2 DEF SinceInv
  <1>5. ASSUME NEW p \in Clients, ListRow(p) PROVE SinceInv'
    BY <1>5 DEF ListRow, StoreTypeOK, SinceInv
  <1>6. ASSUME NEW p \in Clients, ReloadEntry(p) \/ RequestFails(p) PROVE SinceInv'
    BY <1>6 DEF ReloadEntry, RequestFails, Answer, StoreTypeOK, SinceInv
  <1>7. CASE UNCHANGED storeVars
    BY <1>7 DEF storeVars, SinceInv
  <1> QED  BY <1>1, <1>2, <1>3, <1>4, <1>5, <1>6, <1>7 DEF StoreNext

\* The newest write is followed to its answer: a write makes its own request
\* the one that everything waits for, a Reload installs what it listed after
\* the write, and a failure only ever counts as an error.
LEMMA NewestStep == StoreTypeOK /\ StageInv /\ NewestInv /\ [StoreNext]_storeVars => NewestInv'
  <1> SUFFICES ASSUME StoreTypeOK, StageInv, NewestInv, [StoreNext]_storeVars PROVE NewestInv'
    OBVIOUS
  <1> USE StoreAssumption
  <1>1. ASSUME NEW p \in Clients, Create(p) \/ Write(p) PROVE NewestInv'
    <2>1. newest' = p /\ newest' # "ok" /\ pc'[p] = "reload"
      BY <1>1 DEF Create, Write, Store, StoreTypeOK
    <2> QED  BY <2>1 DEF NewestInv
  <1>2. ASSUME NEW p \in Clients, StartUpdate(p) \/ GetHost(p) PROVE NewestInv'
    <2>1. /\ UNCHANGED <<row, entryTtl, newest>>
          /\ \A q \in Clients : pc[q] \in {"reload", "install"} => pc'[q] = pc[q]
          /\ \A q \in Clients : pc'[q] = "install" => pc[q] = "install" /\ cur'[q] = cur[q]
      BY <1>2 DEF StartUpdate, GetHost, StoreTypeOK
    <2> QED  BY <2>1 DEF NewestInv, StoreTypeOK
  <1>3. ASSUME NEW p \in Clients, ListRow(p) PROVE NewestInv'
    BY <1>3 DEF ListRow, NewestInv, StoreTypeOK
  <1>4. ASSUME NEW p \in Clients, ReloadEntry(p) PROVE NewestInv'
    <2>1. /\ row' = row /\ entryTtl' = Served(cur[p]) /\ pc[p] = "install"
          /\ newest' = IF newest = p THEN "ok" ELSE newest
          /\ \A q \in Clients : q # p => pc'[q] = pc[q] /\ cur'[q] = cur[q]
          /\ pc'[p] = "idle"
      BY <1>4 DEF ReloadEntry, Answer, StoreTypeOK
    <2>2. \A q \in Clients : pc'[q] # "install"
      BY <2>1 DEF StageInv
    <2>3. newest' = "ok" => entryTtl' = Served(row)
      BY <2>1 DEF NewestInv
    <2>4. newest' \in Clients => newest' # p /\ newest = newest'
      BY <2>1
    <2> QED  BY <2>1, <2>2, <2>3, <2>4 DEF NewestInv
  <1>5. ASSUME NEW p \in Clients, RequestFails(p) PROVE NewestInv'
    <2>1. /\ UNCHANGED <<row, entryTtl>> /\ pc'[p] = "idle"
          /\ newest' = IF newest = p THEN "error" ELSE newest
          /\ \A q \in Clients : q # p => pc'[q] = pc[q] /\ cur'[q] = cur[q]
      BY <1>5 DEF RequestFails, Answer, StoreTypeOK
    <2>2. newest' \in Clients \cup {"ok"} => newest' # p /\ newest = newest'
      BY <2>1
    <2> QED  BY <2>1, <2>2 DEF NewestInv
  <1>6. CASE UNCHANGED storeVars
    BY <1>6 DEF storeVars, NewestInv
  <1> QED  BY <1>1, <1>2, <1>3, <1>4, <1>5, <1>6 DEF StoreNext

-----------------------------------------------------------------------------
(***************************************************************************)
(* HostStore: the invariant of the specification, and what follows.        *)
(***************************************************************************)

\* At first there is no record.
LEMMA InvInit == StoreInit => StoreIndInv
  BY StoreAssumption
  DEF StoreInit, StoreIndInv, StoreTypeOK, StageInv, SinceInv, NewestInv

\* The invariant holds in every reachable state, however requests overlap and
\* whichever of their statements fail.
THEOREM StoreInvariance == StoreSpec => []StoreIndInv
  <1>1. StoreIndInv /\ [StoreNext]_storeVars => StoreIndInv'
    BY TypeStep, StageStep, SinceStep, NewestStep DEF StoreIndInv
  <1> QED  BY InvInit, <1>1, PTL DEF StoreSpec

\* The stored record always has a type, a known mode and a ttl that is not
\* negative, whatever CreateHost and UpdateHost were given.
THEOREM RowAlwaysNormalised == StoreSpec => []RowNormalised
  <1>1. StoreIndInv => RowNormalised
    BY RowFacts DEF StoreIndInv, StoreTypeOK, RowNormalised
  <1> QED  BY StoreInvariance, <1>1, PTL

\* Once the newest write was answered with ok, the cache serves the record as
\* it is stored, although other requests may have failed before their Reload.
THEOREM TtlAlwaysSettles == StoreSpec => []TtlSettles
  <1>1. ASSUME StoreIndInv, newest = "ok"
        PROVE  row \in Rows /\ entryTtl = Served(row)
    BY <1>1, StoreAssumption DEF StoreIndInv, StoreTypeOK, StageInv, NewestInv
  <1>2. StoreIndInv => TtlSettles
    BY <1>1, ServedFacts DEF TtlSettles
  <1> QED  BY StoreInvariance, <1>2, PTL

\* UpdateHost writes what it was asked to, and never writes back a value
\* older than its own request.
THEOREM ColumnsAlwaysExplained == StoreSpec => ColumnsExplained
  <1> DEFINE Explained == \A p \in Clients : pc[p] = "write" /\ pc'[p] = "reload" =>
                 \A c \in Columns :
                    IF patch[p][c] # Nil THEN row'[c] = NewRow(patch[p])[c]
                                         ELSE row'[c] \in since[p][c]
  <1>1. StoreIndInv /\ [StoreNext]_storeVars => [Explained]_storeVars
    <2> SUFFICES ASSUME StoreIndInv, StoreNext, NEW p \in Clients,
                        pc[p] = "write", pc'[p] = "reload", NEW c \in Columns
                 PROVE  IF patch[p][c] # Nil THEN row'[c] = NewRow(patch[p])[c]
                                             ELSE row'[c] \in since[p][c]
      OBVIOUS
    <2>1. Write(p)
      BY DEF StoreNext, Create, StartUpdate, GetHost, Write, ListRow, ReloadEntry,
             RequestFails, Answer, StoreIndInv, StoreTypeOK
    <2>2. row' = cur[p]
      BY <2>1 DEF Write, Store
    <2> QED  BY <2>2 DEF StoreIndInv, SinceInv
  <1> QED  BY StoreInvariance, <1>1, PTL DEF StoreSpec, ColumnsExplained

=============================================================================
