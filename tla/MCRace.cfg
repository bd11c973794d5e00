SPECIFICATION FairSpec
CONSTANTS
    Tenants = {t1, t2}
    TenantIds <- MCTenantIds
    OrgIds <- MCOrgIds
    Groups <- MCGroups
    Policies <- MCPolicies
    Lookalikes <- NoLookalikes
    Specs <- OneOrg
    Settings = {s1}
    None = None
    MaxConcurrentReconciles = 2
    Events = {"edit"}
    MaxOps = 3
    MaxLag = 1
PROPERTY GrantsConverge
CHECK_DEADLOCK FALSE
