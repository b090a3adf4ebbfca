SPECIFICATION Spec
CONSTANTS
    Offers <- MCOffers
    RuleSpace <- MCRuleSpace
    ConfigRules <- MCConfigRules
    Candidates <- MCCandidates
    Pinned <- MCPinned
    Lower <- MCLower
    Admins = {admin}
    Pickers = {p, q}
    NoOne = NoOne
    None = None
    NotFound = NotFound
    Delegated = Delegated
    Capacity = 2
    MaxChanges = 1
    MaxPicks = 2
SYMMETRY Alike
INVARIANTS TypeOK StaleOnlyByRace PickIsRight QuotaOfServingFile CatalogIsServed
CHECK_DEADLOCK FALSE
