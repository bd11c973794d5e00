------------------------------ MODULE OrgMapping ------------------------------
(***************************************************************************)
(* The org_mapping value of Grafana's generic_oauth SSO settings, as       *)
(* internal/grafana/sso.go builds and searches it, at the level of         *)
(* entries: the text "group:orgId:role,..." is the set of its entries, so  *)
(* order and repetition are abstracted away.                               *)
(***************************************************************************)
CONSTANTS
    TenantIds,  \* values of spec.forProvider.tenantId
    OrgIds,     \* values of spec.forProvider.orgId
    Groups,     \* names of OIDC groups
    Policies,   \* admins and retention: compared, never sent to Grafana
    Lookalikes  \* <<group, orgId>>: the group's name ends in ":" and the orgId

Roles == {"Viewer", "Editor", "Admin"}

\* v1alpha1.TenantParameters.
TenantParameters ==
    [tenantId: TenantIds, orgId: OrgIds, policy: Policies,
     viewerGroups: SUBSET Groups, editorGroups: SUBSET Groups,
     adminGroups: SUBSET Groups]

\* The groups a tenant gives one role to.
GroupsOf(params, role) ==
    CASE role = "Viewer" -> params.viewerGroups
      [] role = "Editor" -> params.editorGroups
      [] role = "Admin"  -> params.adminGroups

Entries == [group: Groups, orgId: OrgIds, role: Roles]

\* The entries one tenant contributes.
EntriesOf(params) ==
    {e \in Entries : e.orgId = params.orgId /\ e.group \in GroupsOf(params, e.role)}

BuildOrgMapping(tenants) == UNION {EntriesOf(p) : p \in tenants}

HasEntry(orgMapping, orgId) == \E e \in orgMapping : e.orgId = orgId

\* The code searches the text of an entry for ":orgId:". Any entry of the org
\* counts, whatever its group and role, and so does one whose group ends in it.
OrgMappingContains(orgMapping, orgId) ==
    \E e \in orgMapping : e.orgId = orgId \/ <<e.group, orgId>> \in Lookalikes
===============================================================================
