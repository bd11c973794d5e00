SPECIFICATION Spec
CONSTANTS
    Tenants = {t1}
    TenantIds <- MCTenantIds
    OrgIds <- MCOrgIds
    Groups <- MCGroups
    Policies <- MCPolicies
    Lookalikes <- NoLookalikes
    Specs <- FixedSpecs
    Settings = {s1}
    None = None
    MaxConcurrentReconciles = 1
    Events = {"outage"}
    MaxOps = 2
    MaxLag = 1
PROPERTY RegisteredBeforeReady
CHECK_DEADLOCK FALSE
