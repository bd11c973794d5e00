SPECIFICATION FairSpec
CONSTANTS
    Tenants = {t1}
    Configs <- OneConfig
    Refs <- OneOrRefused
    Contents <- TwoContents
    OrgOf <- OneOrg
    Grouped = {t1}
    Decodes <- MCDecodes
    None = None
    Events = {"retarget", "edit", "delete tenant", "delete config", "restart"}
    MaxOps = 4
    MaxLag = 1
INVARIANTS TypeOK ProtectionInv WaitingIsWatched
PROPERTIES UsageProtects NoConfigForgotten NoTenantStuck PublishedWhereConfigured
CHECK_DEADLOCK FALSE
