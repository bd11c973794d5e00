SPECIFICATION Spec
CONSTANTS
    Tenants = {t1, t2}
    TenantIds <- MCTenantIds
    OrgIds <- MCOrgIds
    Groups <- MCGroups
    Policies <- MCPolicies
    Lookalikes <- NoLookalikes
    Specs <- SameId
    Settings = {s1}
    None = None
    MaxConcurrentReconciles = 2
    Events = {}
    MaxOps = 2
    MaxLag = 1
INVARIANT UniqueTenantIDs
CHECK_DEADLOCK FALSE
