----------------------------- MODULE MCRuleCache -----------------------------
(***************************************************************************)
(* Instances of RuleCache: names of up to three labels below "a", with two *)
(* spellings of the same name, the root and "*".                           *)
(***************************************************************************)
EXTENDS RuleCache

Text(labels, dot) == [labels |-> labels, dot |-> dot]

\* In byte order of the texts: "*", ".", "a", "a.", "b.a".
MCTexts == << Text(<<"*">>, FALSE), Text(<<>>, TRUE), Text(<<"a">>, FALSE),
              Text(<<"a">>, TRUE), Text(<<"b", "a">>, FALSE) >>

MCLabelLen == [l \in {"*", "a", "b", "cc"} |-> IF l = "cc" THEN 2 ELSE 1]

MCQuestions == { <<>>, <<"a">>, <<"b", "a">>, <<"cc", "b", "a">> }

=============================================================================
