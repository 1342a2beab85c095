----------------------------- MODULE MCRuleScopes -----------------------------
\* RuleScopes with two agents and two checks, of which one each has the tag.
EXTENDS RuleScopes

RuleOf(kind, agents, tags, checks) ==
    [about : {kind}, agent : agents, tags : tags, check : checks]
MCRules ==
    RuleOf("cpu", {{}, {"a1"}}, {{}, {"t"}}, {{}})
      \union RuleOf("agent_offline", {{}, {"a1"}}, {{}, {"t"}}, {{}})
      \union RuleOf("check_down", {{}}, {{}}, {{}, {"c1"}})
MCSilences ==
    [agent : {{}, {"a1"}}, tags : {{}, {"t"}}, checks : {{}, {"c1"}, {"c1", "c2"}},
     starts : {1}, ends : {2}]
MCTags == [s \in Watched |-> IF s \in {"a1", "c1"} THEN {"t"} ELSE {}]
=============================================================================
