---------------------------- MODULE MCLocalRecords ----------------------------
(***************************************************************************)
(* Instances of LocalRecords: a domain, a name below it and that name in   *)
(* its wildcard spelling; questions for the lower name and below it.       *)
(***************************************************************************)
EXTENDS LocalRecords

Text(labels, dot) == [labels |-> labels, dot |-> dot]

\* In byte order of the texts: "*.b.a", "a", "b.a".
MCTexts == << Text(<<"*", "b", "a">>, FALSE), Text(<<"a">>, FALSE),
              Text(<<"b", "a">>, FALSE) >>

MCLabelLen == [l \in {"*", "a", "b"} |-> 1]

MCQuestions == { <<"b", "a">>, <<"b", "b", "a">> }

=============================================================================
