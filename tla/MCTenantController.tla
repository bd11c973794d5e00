-------------------------- MODULE MCTenantController --------------------------
(***************************************************************************)
(* Small instances of TenantController: the spec.forProvider values users  *)
(* choose from, and the symmetry of the UIDs.                              *)
(***************************************************************************)
EXTENDS TenantController, TLC

Params(tenantId, orgId, viewers, editors) ==
    [tenantId |-> tenantId, orgId |-> orgId, policy |-> "30d",
     viewerGroups |-> viewers, editorGroups |-> editors, adminGroups |-> {}]

MCTenantIds == {"acme", "beta"}
MCOrgIds == {"1", "2"}
MCGroups == {"devs", "ops"}
MCPolicies == {"30d"}

\* No group ends in an orgId after a colon.
NoLookalikes == {}

Acme == Params("acme", "1", {"devs"}, {})
AcmeRegrouped == Params("acme", "1", {"devs"}, {"ops"})
AcmeMoved == Params("acme", "2", {"devs"}, {})
Beta == Params("beta", "2", {}, {"ops"})

\* Specs for the same org, so that an edit changes the groups alone.
OneOrg == {Acme, AcmeRegrouped}
\* An edit leads to another org with the same groups.
Moving == {Acme, AcmeMoved}
\* Tenants that have nothing in common.
FixedSpecs == {Acme, Beta}
\* Two claims to one tenantId, for different orgs.
SameId == {Params("acme", "1", {}, {}), Params("acme", "2", {}, {})}

TenantSymmetry == Permutations(Tenants)
===============================================================================
