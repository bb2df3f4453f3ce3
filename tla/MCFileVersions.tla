---------------------------- MODULE MCFileVersions ----------------------------
(* Options for FileVersions: subsets of peval's passes (at most one of them, *)
(* all but one, and the pairs that lose a module to an inliner) with one set *)
(* of slash's flags, and the sets of flags with none of peval's or one.      *)
EXTENDS FileVersions, FiniteSets

AllPasses == SUBSET Passes
Alone == {{}}
LosingPairs == {{"devirt", "bounce"}, {"policy", "inlineSpec"}}
PevalSets == LosingPairs \cup
    {p \in AllPasses : /\ "bounce" \in p => "devirt" \in p
                       /\ Cardinality(p) <= 1 \/ Cardinality(p) >= 6}
FewFlags == {{"strip"}, {"interspec"}, {"arguments", "mc_dce"}}
ManyFlags == {{"arguments", "prime", "interspec", "strip"}, {"mc_dce", "strip", "amalgamate"}}

Everything == (PevalSets \X {{}}) \cup ({{}} \X FewFlags)
              \cup ({{}, {"policy"}} \X ManyFlags)
TwoRuns == {{}} \X {{}, {"mc_dce"}}
=============================================================================
