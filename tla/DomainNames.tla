----------------------------- MODULE DomainNames -----------------------------
(***************************************************************************)
(* Names and the order in which wildcard entries are tried, shared by the  *)
(* rule cache and the host cache (internal/cache/rule_cache.go).           *)
(*                                                                         *)
(* A name is its sequence of labels, the root name "." is <<>>.  The text  *)
(* an administrator typed is a record: its labels, and whether it ends in  *)
(* a dot.  Letter case and surrounding blanks, which normalize removes,    *)
(* do not exist here.                                                      *)
(***************************************************************************)
EXTENDS Integers, Sequences, FiniteSets, SequencesExt

CONSTANTS
    Texts,      \* domain columns in use, in ascending order (ORDER BY domain)
    LabelLen    \* bytes of each label

\* The names that can be made of the labels.
Names == Seq(DOMAIN LabelLen)

ASSUME TextsAssumption ==
    /\ LabelLen \in [DOMAIN LabelLen -> Nat]
    /\ Texts \in Seq([labels : Names, dot : BOOLEAN])

\* A domain column holds one of the texts, by its position in the order.
DomainIds == DOMAIN Texts
Labels(d) == Texts[d].labels
IsBlank(d) == Labels(d) = <<>> /\ ~Texts[d].dot
IsStar(d)  == Labels(d) = <<"*">> /\ ~Texts[d].dot

\* normalize, of a text that is not blank: the trailing dot is always there.
normalize(d) == Labels(d)

labelsCount(name) == Len(name)

\* len(domain), with a dot after every label.
TextLen(name) ==
    LET bytes[k \in 0 .. Len(name)] ==
            IF k = 0 THEN 0 ELSE bytes[k - 1] + LabelLen[name[k]] + 1
    IN  IF name = <<>> THEN 1 ELSE bytes[Len(name)]

\* fqdn == domain || strings.HasSuffix(fqdn, "."+domain).  No name ends in
\* "..", so the root entry covers the root only.
Covers(domain, fqdn) == domain = fqdn \/ (domain # <<>> /\ IsStrictSuffix(domain, fqdn))

-----------------------------------------------------------------------------
(***************************************************************************)
(* Lists.                                                                  *)
(***************************************************************************)

\* ORDER BY, where earlier[i] has the rows that come before row i.
OrderBy(earlier) ==
    LET S == DOMAIN earlier
    IN  [k \in 1 .. Cardinality(S) |-> CHOOSE i \in S : Cardinality(earlier[i]) = k - 1]

\* A loop that appends to a new slice what it finds in W.
Where(s, W) ==
    LET found[k \in 0 .. Len(s)] ==
            IF k = 0 THEN <<>>
            ELSE IF s[k] \in W THEN Append(found[k - 1], s[k])
            ELSE found[k - 1]
    IN  found[Len(s)]

-----------------------------------------------------------------------------
(***************************************************************************)
(* sortSuffixes and sortHostSuffixes, the same exchange sort: every        *)
(* position i is compared with every later position j.                     *)
(***************************************************************************)

\* Mutant: the comparison the wrong way round, the shortest suffix first.
PrecedesReversed(x, y) ==
    labelsCount(x.domain) < labelsCount(y.domain)

\* The comparison of the sort: more labels first, then the longer text.
Precedes(x, y) ==
    \/ labelsCount(x.domain) > labelsCount(y.domain)
    \/ /\ labelsCount(x.domain) = labelsCount(y.domain)
       /\ TextLen(x.domain) > TextLen(y.domain)

Exchange(s, i, j) ==
    IF Precedes(s[j], s[i]) THEN [s EXCEPT ![i] = s[j], ![j] = s[i]] ELSE s

\* Mutant: the inner loop starts one position too far.
InnerLoopSkipping(s, i) ==
    LET after[j \in i .. Len(s)] ==
            IF j <= i + 1 THEN s ELSE Exchange(after[j - 1], i, j)
    IN  after[Len(s)]

\* after[j]: the slice when position i has been compared with i + 1 .. j.
InnerLoop(s, i) ==
    LET after[j \in i .. Len(s)] ==
            IF j = i THEN s ELSE Exchange(after[j - 1], i, j)
    IN  after[Len(s)]

sortSuffixes(s) ==
    LET after[i \in 0 .. Len(s)] ==
            IF i = 0 THEN s ELSE InnerLoop(after[i - 1], i)
    IN  after[Len(s)]

=============================================================================
