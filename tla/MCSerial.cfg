SPECIFICATION FairSpec
CONSTANTS
    Tenants = {t1, t2}
    TenantIds <- MCTenantIds
    OrgIds <- MCOrgIds
    Groups <- MCGroups
    Policies <- MCPolicies
    Lookalikes <- NoLookalikes
    Specs <- OneOrg
    Settings = {s1}
    None = None
    MaxConcurrentReconciles = 1
    Events = {"edit", "delete", "abort"}
    MaxOps = 4
    MaxLag = 2
INVARIANT AcknowledgedGrantsPresent
PROPERTY GrantsConverge
CHECK_DEADLOCK FALSE
