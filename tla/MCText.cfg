SPECIFICATION Spec
CONSTANTS
    GroupNames <- MCGroupNames
    OrgIds <- MCOrgIds
    Claims <- MCClaims
    MaxTenants = 2
    MaxEntries = 2
INVARIANTS EntriesSurvive ResolvesGrants NeverMissesAnOrg
CHECK_DEADLOCK FALSE
