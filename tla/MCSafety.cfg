SPECIFICATION Spec
CONSTANTS
    Tenants = {t1, t2}
    TenantIds <- MCTenantIds
    OrgIds <- MCOrgIds
    Groups <- MCGroups
    Policies <- MCPolicies
    Lookalikes <- NoLookalikes
    Specs <- OneOrg
    Settings = {s1}
    None = None
    MaxConcurrentReconciles = 2
    Events = {"edit", "revert", "delete", "abort", "restart", "outage"}
    MaxOps = 4
    MaxLag = 1
SYMMETRY TenantSymmetry
INVARIANT TypeOK
PROPERTIES ImplementsRegistry AcknowledgedSpecWasListed ReadyMeansObserved SettingsPreserved
CHECK_DEADLOCK FALSE
