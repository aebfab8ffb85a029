------------------------------ MODULE RuleCache ------------------------------
(***************************************************************************)
(* Which upstream a name is forwarded to: the rows of domain_rules         *)
(* (internal/storage), the cache built from them (RuleCache.Load and       *)
(* Reloader.Reload build it in the same way) and RuleCache.Match.          *)
(*                                                                         *)
(* An administrator's request and the Reload in its handler are one step;  *)
(* their interleavings are the subject of ConfigPlane.                     *)
(***************************************************************************)
EXTENDS DomainNames, FiniteSetsExt

CONSTANTS
    Upstreams,   \* upstream columns; "" is one an administrator may leave
    Questions,   \* names that are asked for
    MaxRules,    \* bound: rows
    NoRow

Ids   == 1 .. MaxRules
Modes == {"exact", "suffix"}
Unset == ""

\* model.DomainRule.  A mode that is not "exact" is treated as "suffix"
\* everywhere, so the two stand for all of them.
DomainRule == [domain : DomainIds, mode : Modes, upstream : Upstreams, enabled : BOOLEAN]

ASSUME RulesAssumption == MaxRules \in Nat /\ NoRow \notin DomainRule

VARIABLES
    rules,             \* rules[i]: row i of domain_rules, or NoRow
    nextId,            \* AUTOINCREMENT: the id of the next row
    exact,             \* RuleCache.exact: from names to upstreams
    suffix,            \* RuleCache.suffix: sequence of [domain, upstream]
    defaultUpstream    \* RuleCache.defaultUpstream, Unset when there is none

vars == <<rules, nextId, exact, suffix, defaultUpstream>>

Stored(table) == {i \in Ids : table[i] # NoRow}

\* ORDER BY domain; rows with equal text come in id order.
Before(table, i, j) ==
    \/ table[i].domain < table[j].domain
    \/ table[i].domain = table[j].domain /\ i < j

ListRules(table) ==
    LET S   == Stored(table)
        ids == OrderBy([i \in S |-> {j \in S : Before(table, j, i)}])
    IN  [k \in DOMAIN ids |-> table[ids[k]]]

-----------------------------------------------------------------------------
(***************************************************************************)
(* The loop over the rules: disabled and blank ones are skipped, "*" sets  *)
(* the default, "exact" rules go to the map, the others to the suffixes.   *)
(***************************************************************************)

Kept(r)   == r.enabled /\ ~IsBlank(r.domain)
IsAny(r)  == Kept(r) /\ IsStar(r.domain)
IsName(r) == Kept(r) /\ ~IsStar(r.domain) /\ r.mode = "exact"
IsWild(r) == Kept(r) /\ ~IsStar(r.domain) /\ r.mode # "exact"

\* Later rules overwrite earlier ones.
ExactMap(list) ==
    [n \in {normalize(r.domain) : r \in {r \in ToSet(list) : IsName(r)}} |->
        list[SelectLastInSeq(list, LAMBDA r : IsName(r) /\ normalize(r.domain) = n)].upstream]

DefaultOf(list) ==
    LET last == SelectLastInSeq(list, IsAny)
    IN  IF last = 0 THEN Unset ELSE list[last].upstream

Entry(r) == [domain |-> normalize(r.domain), upstream |-> r.upstream]

\* Before they are sorted: the entries in the order of the rules.
WildEntries(list) ==
    LET rs == Where(list, {r \in DomainRule : IsWild(r)})
    IN  [k \in DOMAIN rs |-> Entry(rs[k])]

SuffixList(list) == sortSuffixes(WildEntries(list))

\* The three assignments at the end of Load.
Load(list) ==
    /\ exact' = ExactMap(list)
    /\ suffix' = SuffixList(list)
    /\ defaultUpstream' = DefaultOf(list)

\* The rows are listed once, after the change.
Reload == \E list \in {ListRules(rules')} : Load(list)

\* RuleCache.Match: the exact map, then the first suffix that covers the
\* name, then the default.
Match(fqdn) ==
    LET first == SelectInSeq(suffix, LAMBDA s : Covers(s.domain, fqdn)) IN
    CASE fqdn \in DOMAIN exact -> [upstream |-> exact[fqdn], ok |-> TRUE]
      [] fqdn \notin DOMAIN exact /\ first # 0 ->
            [upstream |-> suffix[first].upstream, ok |-> TRUE]
      [] fqdn \notin DOMAIN exact /\ first = 0 ->
            [upstream |-> defaultUpstream, ok |-> defaultUpstream # Unset]

-----------------------------------------------------------------------------
Init ==
    /\ rules = [i \in Ids |-> NoRow] /\ nextId = 1
    /\ exact = <<>> /\ suffix = <<>> /\ defaultUpstream = Unset

\* POST /api/rules: the next id, then Reload.
CreateRule ==
    \E r \in DomainRule :
        /\ nextId \in Ids
        /\ nextId' = nextId + 1
        /\ rules' = [rules EXCEPT ![nextId] = r]
        /\ Reload

\* The row a PUT of one field leaves; several fields are several PUTs.
Patched(row) ==
         {[row EXCEPT !.domain = d] : d \in DomainIds}
    \cup {[row EXCEPT !.mode = m] : m \in Modes}
    \cup {[row EXCEPT !.upstream = u] : u \in Upstreams}
    \cup {[row EXCEPT !.enabled = e] : e \in BOOLEAN}

\* PUT /api/rules/{id}.
UpdateRule ==
    \E i \in Stored(rules) : \E r \in Patched(rules[i]) :
        /\ rules' = [rules EXCEPT ![i] = r]
        /\ Reload
        /\ UNCHANGED nextId

\* Mutant: the handler forgets to reload.
DeleteRuleKeepsCache ==
    \E i \in Stored(rules) :
        /\ rules' = [rules EXCEPT ![i] = NoRow]
        /\ UNCHANGED <<nextId, exact, suffix, defaultUpstream>>

\* DELETE /api/rules/{id}.
DeleteRule ==
    \E i \in Stored(rules) :
        /\ rules' = [rules EXCEPT ![i] = NoRow]
        /\ Reload
        /\ UNCHANGED nextId

\* PUT or DELETE of an id that is not there: an error, and no Reload.
RequestRefused == /\ \E i \in Ids : rules[i] = NoRow
                  /\ UNCHANGED vars

Next == CreateRule \/ UpdateRule \/ DeleteRule \/ RequestRefused

Spec == Init /\ [][Next]_vars

-----------------------------------------------------------------------------

\* Rows have their type.
TypeOK == rules \in [Ids -> DomainRule \cup {NoRow}] /\ nextId \in 1 .. MaxRules + 1

\* The cache is the result of loading the whole table, whatever was in it.
Loaded ==
    /\ exact = ExactMap(ListRules(rules))
    /\ suffix = SuffixList(ListRules(rules))
    /\ defaultUpstream = DefaultOf(ListRules(rules))

\* The inductive invariant.
IndInv == TypeOK /\ Loaded

-----------------------------------------------------------------------------
(***************************************************************************)
(* Properties.  The reference definitions below look at the table only.    *)
(***************************************************************************)

\* Enabled rows, with and without "*", that apply to a name.
Live == {i \in Stored(rules) : rules[i].enabled /\ ~IsBlank(rules[i].domain)}
Stars == {i \in Live : IsStar(rules[i].domain)}
ExactFor(n) == {i \in Live \ Stars : rules[i].mode = "exact" /\ Labels(rules[i].domain) = n}
WildFor(n)  == {i \in Live \ Stars : rules[i].mode # "exact" /\ Covers(Labels(rules[i].domain), n)}
DeepestFor(n) == {i \in WildFor(n) : \A j \in WildFor(n) :
                    Len(Labels(rules[j].domain)) <= Len(Labels(rules[i].domain))}
UpstreamsOf(S) == {rules[i].upstream : i \in S}

\* Whatever the table and the order of its rows, the most specific rule
\* decides: an exact rule of the name, otherwise one of the covering suffix
\* rules with the most labels, otherwise a "*" rule; without any of them
\* Match reports false and the configured default upstream is used.
MostSpecificWins ==
    \A n \in Questions :
        CASE ExactFor(n) # {} ->
                Match(n).ok /\ Match(n).upstream \in UpstreamsOf(ExactFor(n))
          [] ExactFor(n) = {} /\ WildFor(n) # {} ->
                Match(n).ok /\ Match(n).upstream \in UpstreamsOf(DeepestFor(n))
          [] ExactFor(n) = {} /\ WildFor(n) = {} ->
                IF Match(n).ok THEN Match(n).upstream \in UpstreamsOf(Stars)
                               ELSE Stars = {} \/ Unset \in UpstreamsOf(Stars)

\* No two suffix rules of a table have the same normalised domain.
DistinctWildcards(table) ==
    \A i, j \in Stored(table) :
        ( /\ i # j
          /\ table[i].mode = "suffix" /\ table[j].mode = "suffix"
          /\ table[i].enabled /\ table[j].enabled )
        => Labels(table[i].domain) # Labels(table[j].domain)

Concerns(row, n) ==
    row # NoRow /\ (IsStar(row.domain) \/ Covers(Labels(row.domain), n))

\* A request about other names never moves a name to another upstream: the
\* exchange sort is not stable, but without duplicate suffixes the order in
\* which it leaves the rest does not show.
UnrelatedRulesInert ==
    [][(DistinctWildcards(rules) /\ DistinctWildcards(rules')) =>
          \A n \in Questions :
              (\A i \in Ids : rules'[i] # rules[i] =>
                                  ~Concerns(rules[i], n) /\ ~Concerns(rules'[i], n))
              => Match(n)' = Match(n)]_vars

=============================================================================
