----------------------------- MODULE MCClassify -----------------------------
\* Three auth files: the plan of the first changes, to one the host may spell
\* with a capital letter, and so the provider of the third.  Rules on each
\* kind of field.
EXTENDS Classify, TLC

File(id, provider, plan, tier, priority) ==
    [id |-> id, provider |-> provider, plan |-> plan, tier |-> tier,
     priority |-> priority, usable |-> TRUE]
Free == File(1, "codex", "free", "", 1)
Team == File(1, "codex", "Team", "", 1)
Tiered == File(2, "codex", "", "free", 0)
Other == File(3, "Acme", "", "", 1)
MCOffers == {Free, Team, Tiered, Other, [Tiered EXCEPT !.usable = FALSE]}
MCCandidates == {<<Free, Tiered>>, <<Tiered, Team>>, <<Other, Team>>,
                 <<[Tiered EXCEPT !.usable = FALSE]>>}

Rule(name, enabled, field, values) ==
    [name |-> name, enabled |-> enabled, field |-> field, values |-> values, group |-> "vip"]
ByName == Rule("r", TRUE, "filename", {1, 3})
ByPlan == Rule("r", TRUE, "plan_type", {"Team", "free"})
ByTier == Rule("s", TRUE, "tier", {"free"})
ByMaker == Rule("s", TRUE, "provider", {"acme"})
Second == Rule("s", TRUE, "filename", {2})
Off == Rule("s", FALSE, "filename", {2})
MCRuleSpace == {ByName, ByPlan, ByTier, ByMaker, Second, Off}
MCConfigRules == {<<>>, <<ByName>>, <<ByPlan, Second>>}
MCPinned == {NoGroup, Custom("vip"), Builtin("free")}
MCLower == [n \in {"codex", "acme", "free", "team", ""} |-> n] @@ ("Acme" :> "acme") @@ ("Team" :> "team")
Alike == Permutations(Pickers)
=============================================================================
