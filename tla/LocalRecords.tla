----------------------------- MODULE LocalRecords -----------------------------
(***************************************************************************)
(* The local records: the rows of host_records (internal/storage), the     *)
(* cache HostCache.Load builds from them, HostCache.Lookup, and the answer *)
(* Handler.resolveLocal makes of its result (internal/dns/handler.go).     *)
(*                                                                         *)
(* An administrator's request and the Reload in its handler are one step;  *)
(* their interleavings are the subject of ConfigPlane.                     *)
(***************************************************************************)
EXTENDS DomainNames, FiniteSetsExt

CONSTANTS
    Types,        \* types in use, a subset of RecordTypes
    OtherTypes,   \* question types without a record type of their own: MX, ...
    Values,       \* value columns
    IPv4, IPv6,   \* the values that net.ParseIP reads as such an address
    Questions,    \* names that are asked for
    MaxRecords,   \* bound: rows
    NoRow

\* The types in ascending order.
TypeRank == [A |-> 1, AAAA |-> 2, CNAME |-> 3, TXT |-> 4]
RecordTypes == DOMAIN TypeRank

Ids   == 1 .. MaxRecords
Modes == {"exact", "suffix"}    \* what normalizeMatchMode lets through

\* model.HostRecord; the ttl and the comment are only copied.
HostRecord == [domain : DomainIds, type : Types, mode : Modes, value : Values,
               enabled : BOOLEAN]

ASSUME RecordsAssumption ==
    /\ MaxRecords \in Nat /\ NoRow \notin HostRecord
    /\ Types \subseteq RecordTypes
    /\ OtherTypes \cap (RecordTypes \cup {"ANY"}) = {}

QuestionTypes == Types \cup {"ANY"} \cup OtherTypes

VARIABLES
    records,   \* records[i]: row i of host_records, or NoRow
    nextId,    \* AUTOINCREMENT: the id of the next row
    exact,     \* HostCache.exact: from names to sequences of entries
    suffix     \* HostCache.suffix: sequence of [domain, entries]

vars == <<records, nextId, exact, suffix>>

Stored(table) == {i \in Ids : table[i] # NoRow}

\* ORDER BY domain, type; equal rows come in id order.
Before(table, i, j) ==
    \/ table[i].domain < table[j].domain
    \/ /\ table[i].domain = table[j].domain
       /\ \/ TypeRank[table[i].type] < TypeRank[table[j].type]
          \/ table[i].type = table[j].type /\ i < j

ListHosts(table) ==
    LET S   == Stored(table)
        ids == OrderBy([i \in S |-> {j \in S : Before(table, j, i)}])
    IN  [k \in DOMAIN ids |-> table[ids[k]]]

-----------------------------------------------------------------------------
(***************************************************************************)
(* HostCache.Load and HostCache.Lookup.                                    *)
(***************************************************************************)

HasWildcard(d) ==
    Labels(d) # <<>> /\ Head(Labels(d)) = "*" /\ (Len(Labels(d)) > 1 \/ Texts[d].dot)

\* Nothing is left of the text, or of the text behind its "*.".
IsEmptyName(d) == IsBlank(d) \/ (Labels(d) = <<"*">> /\ Texts[d].dot)

\* A leading "*." is cut off, whatever the match mode.
NameOf(d) == IF HasWildcard(d) THEN Tail(Labels(d)) ELSE normalize(d)

Entry(r) == [type |-> r.type, value |-> r.value]

\* Records that are loaded: those about a name, and those that cover one.
Kept      == {r \in HostRecord : r.enabled /\ ~IsEmptyName(r.domain)}
KeptAt(n) == {r \in Kept : NameOf(r.domain) = n}
KeptWild  == {r \in Kept : r.mode = "suffix"}

\* Every record is found under its own name ...
ExactMap(list) ==
    [n \in {NameOf(r.domain) : r \in ToSet(list) \cap Kept} |->
        LET rs == Where(list, KeptAt(n)) IN [k \in DOMAIN rs |-> Entry(rs[k])]]

\* ... and one of mode "suffix" is also a wildcard entry, by itself.
Wildcard(r) == [domain |-> NameOf(r.domain), entries |-> <<Entry(r)>>]

SuffixList(list) ==
    LET rs == Where(list, KeptWild) IN sortSuffixes([k \in DOMAIN rs |-> Wildcard(rs[k])])

Load(list) == exact' = ExactMap(list) /\ suffix' = SuffixList(list)

\* The rows are listed once, after the change.
Reload == \E list \in {ListHosts(records')} : Load(list)

HostEntry == [type : Types, value : Values]

filterEntries(all, qtype) == Where(all, {h \in HostEntry : qtype \in {h.type, "ANY"}})

\* Mutant: a name with entries of its own never falls through to a wildcard.
LookupStopsAtName(fqdn, qtype) ==
    LET Hit(s) == Covers(s.domain, fqdn) /\ filterEntries(s.entries, qtype) # <<>>
        first  == SelectInSeq(suffix, Hit)
    IN  CASE fqdn \in DOMAIN exact -> filterEntries(exact[fqdn], qtype)
          [] fqdn \notin DOMAIN exact /\ first # 0 -> filterEntries(suffix[first].entries, qtype)
          [] OTHER -> <<>>

\* The entries of the name itself, if one has the type; otherwise those of
\* the first wildcard that covers the name and has the type.  <<>> is "no".
Lookup(fqdn, qtype) ==
    LET own    == IF fqdn \in DOMAIN exact THEN filterEntries(exact[fqdn], qtype) ELSE <<>>
        Hit(s) == Covers(s.domain, fqdn) /\ filterEntries(s.entries, qtype) # <<>>
        first  == SelectInSeq(suffix, Hit)
    IN  CASE own # <<>> -> own
          [] own = <<>> /\ first # 0 -> filterEntries(suffix[first].entries, qtype)
          [] own = <<>> /\ first = 0 -> <<>>

-----------------------------------------------------------------------------
(***************************************************************************)
(* Handler.resolveLocal.                                                   *)
(***************************************************************************)

\* Mutant: every question looks up ANY, and filters what it found.
LookupTypeAny(qtype) == "ANY"

\* Types without a case of their own look up ANY.
LookupType(qtype) == IF qtype \in RecordTypes THEN qtype ELSE "ANY"

\* The entry becomes a resource record: its type was asked for, and the
\* value of an address record parses.  (Chasing the target of a CNAME needs
\* a question of type A or AAAA that reaches a CNAME entry; Lookup has
\* filtered it out by then.)
Usable(e, qtype) ==
    /\ qtype \in {e.type, "ANY"}
    /\ e.type = "A" => e.value \in IPv4
    /\ e.type = "AAAA" => e.value \in IPv4 \cup IPv6

\* Not found: the question goes on to the upstreams.  Found: an
\* authoritative answer, NXDOMAIN when no entry was usable.
resolveLocal(qname, qtype) ==
    LET entries == Lookup(qname, LookupType(qtype))
        answer  == Where(entries, {e \in HostEntry : Usable(e, qtype)})
    IN  [found  |-> entries # <<>>,
         answer |-> answer,
         rcode  |-> IF entries # <<>> /\ answer = <<>> THEN "NXDOMAIN" ELSE "NOERROR"]

-----------------------------------------------------------------------------
Init ==
    /\ records = [i \in Ids |-> NoRow] /\ nextId = 1
    /\ exact = <<>> /\ suffix = <<>>

\* POST /api/hosts, then Reload.
CreateHost ==
    \E r \in HostRecord :
        /\ nextId \in Ids
        /\ nextId' = nextId + 1
        /\ records' = [records EXCEPT ![nextId] = r]
        /\ Reload

\* The row a PUT of one field leaves; several fields are several PUTs.
Patched(row) ==
         {[row EXCEPT !.domain = d] : d \in DomainIds}
    \cup {[row EXCEPT !.type = t] : t \in Types}
    \cup {[row EXCEPT !.mode = m] : m \in Modes}
    \cup {[row EXCEPT !.value = v] : v \in Values}
    \cup {[row EXCEPT !.enabled = e] : e \in BOOLEAN}

\* PUT /api/hosts/{id}.
UpdateHost ==
    \E i \in Stored(records) : \E r \in Patched(records[i]) :
        /\ records' = [records EXCEPT ![i] = r]
        /\ Reload
        /\ UNCHANGED nextId

\* Mutant: the handler forgets to reload.
DeleteHostKeepsCache ==
    \E i \in Stored(records) :
        /\ records' = [records EXCEPT ![i] = NoRow]
        /\ UNCHANGED <<nextId, exact, suffix>>

\* DELETE /api/hosts/{id}.
DeleteHost ==
    \E i \in Stored(records) :
        /\ records' = [records EXCEPT ![i] = NoRow]
        /\ Reload
        /\ UNCHANGED nextId

\* PUT or DELETE of an id that is not there: an error, and no Reload.
RequestRefused == /\ \E i \in Ids : records[i] = NoRow
                  /\ UNCHANGED vars

Next == CreateHost \/ UpdateHost \/ DeleteHost \/ RequestRefused

Spec == Init /\ [][Next]_vars

-----------------------------------------------------------------------------

\* Rows have their type.
TypeOK == records \in [Ids -> HostRecord \cup {NoRow}] /\ nextId \in 1 .. MaxRecords + 1

\* The cache is the result of loading the whole table, whatever was in it.
Loaded == exact = ExactMap(ListHosts(records)) /\ suffix = SuffixList(ListHosts(records))

\* The inductive invariant.
IndInv == TypeOK /\ Loaded

-----------------------------------------------------------------------------
(***************************************************************************)
(* Properties.  The reference definitions look at the table only.          *)
(***************************************************************************)

Live == {i \in Stored(records) : records[i].enabled /\ ~IsEmptyName(records[i].domain)}

\* The name a record is about, "*." set aside.
About(i) == LET ls == Labels(records[i].domain)
            IN  IF ls # <<>> /\ Head(ls) = "*" /\ ls # <<"*">> THEN Tail(ls) ELSE ls

HasType(i, qtype) == qtype \in {records[i].type, "ANY"}

OwnRecords(n, qtype) == {i \in Live : About(i) = n /\ HasType(i, qtype)}

WildRecords(n, qtype) ==
    {i \in Live : records[i].mode = "suffix" /\ Covers(About(i), n) /\ HasType(i, qtype)}

NearestWild(n, qtype) ==
    {i \in WildRecords(n, qtype) :
        \A j \in WildRecords(n, qtype) : Len(About(j)) <= Len(About(i))}

\* All the records of a name are served together, each once; only a name
\* that has none of the type is served by a wildcard, and then by one with
\* the most labels that has the type, even when a nearer wildcard or the
\* name itself has records of another type.
LookupFindsNearest ==
    \A n \in Questions, t \in Types \cup {"ANY"} :
        LET found == Lookup(n, t)
            own   == OwnRecords(n, t)
        IN  CASE own # {} ->
                    /\ Len(found) = Cardinality(own)
                    /\ ToSet(found) = {Entry(records[i]) : i \in own}
              [] own = {} /\ WildRecords(n, t) # {} ->
                    /\ found # <<>>
                    /\ ToSet(found) \subseteq {Entry(records[i]) : i \in NearestWild(n, t)}
              [] own = {} /\ WildRecords(n, t) = {} -> found = <<>>

\* What a client gets, from the table alone.  The question goes upstream
\* exactly when no live record about its name, or covering it, has the type
\* that is looked up: its own, so that a CNAME does not count for an address,
\* or any for a type without records.  Otherwise the usable records of the
\* name are the answer, each once, or a name without one gets what one nearest
\* wildcard has; NXDOMAIN says that nothing of that was usable.
LocalAnswerRight ==
    \A n \in Questions, t \in QuestionTypes :
        LET local  == resolveLocal(n, t)
            looked == IF t \in Types THEN t ELSE "ANY"
            own    == OwnRecords(n, looked)
            Good   == {i \in Live : Usable(Entry(records[i]), t)}
            Answers(S) == {Entry(records[i]) : i \in S \cap Good}
        IN  /\ local.found <=> own # {} \/ WildRecords(n, looked) # {}
            /\ own # {} =>
                  /\ Len(local.answer) = Cardinality(own \cap Good)
                  /\ ToSet(local.answer) = Answers(own)
                  /\ local.rcode = "NXDOMAIN" <=> own \cap Good = {}
            /\ own = {} /\ local.found =>
                  \E i \in NearestWild(n, looked) :
                     /\ ToSet(local.answer) = Answers({i})
                     /\ local.rcode = "NXDOMAIN" <=> i \notin Good

=============================================================================
