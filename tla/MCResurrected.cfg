SPECIFICATION FairSpec
CONSTANTS
    Tenants = {t1, t2}
    TenantIds <- MCTenantIds
    OrgIds <- MCOrgIds
    Groups <- MCGroups
    Policies <- MCPolicies
    Lookalikes <- NoLookalikes
    Specs <- FixedSpecs
    Settings = {s1}
    None = None
    MaxConcurrentReconciles = 1
    Events = {"delete"}
    MaxOps = 4
    MaxLag = 1
PROPERTY DeletedEntriesVanish
CHECK_DEADLOCK FALSE
