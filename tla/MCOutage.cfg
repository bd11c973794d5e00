SPECIFICATION FairSpec
CONSTANTS
    Tenants = {t1, t2}
    TenantIds <- MCTenantIds
    OrgIds <- MCOrgIds
    Groups <- MCGroups
    Policies <- MCPolicies
    Lookalikes <- NoLookalikes
    Specs <- OneOrg
    Settings = {s1}
    None = None
    MaxConcurrentReconciles = 1
    Events = {"edit", "delete", "outage"}
    MaxOps = 4
    MaxLag = 1
PROPERTIES StatusConverges DeletionCompletes
CHECK_DEADLOCK FALSE
