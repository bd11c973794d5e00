SPECIFICATION RecoveringSpec
CONSTANTS
    Tenants = {t1, t2}
    TenantIds <- MCTenantIds
    OrgIds <- MCOrgIds
    Groups <- MCGroups
    Policies <- MCPolicies
    Lookalikes <- NoLookalikes
    Specs <- Moving
    Settings = {s1}
    None = None
    MaxConcurrentReconciles = 2
    Events = {"edit", "revert", "outage", "drift", "settings"}
    MaxOps = 3
    MaxLag = 1
PROPERTIES OrgsConverge
CHECK_DEADLOCK FALSE
