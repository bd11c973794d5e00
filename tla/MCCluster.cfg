SPECIFICATION Spec
CONSTANTS
    Tenants = {t1}
    Configs <- ClusterConfig
    Refs <- ClusterConfig
    Contents <- OneContent
    OrgOf <- OneOrg
    Grouped = {t1}
    Decodes <- MCDecodes
    None = None
    Events = {"delete config"}
    MaxOps = 4
    MaxLag = 1
PROPERTY UsageProtects
CHECK_DEADLOCK FALSE
