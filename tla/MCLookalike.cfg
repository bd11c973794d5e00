SPECIFICATION Spec
CONSTANTS
    GroupNames <- MCGroupNames
    OrgIds <- MCOrgIds
    Claims <- MCClaims
    MaxTenants = 1
    MaxEntries = 1
INVARIANT FindsOnlyItsEntries
CHECK_DEADLOCK FALSE
