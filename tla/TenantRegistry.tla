---------------------------- MODULE TenantRegistry ----------------------------
(***************************************************************************)
(* What the Tenant controller promises to the users of Tenants, as if each *)
(* Tenant were one record that is changed at once: what is acknowledged is *)
(* the spec of that moment, of a Tenant that has its name; Ready follows   *)
(* an acknowledged spec; a Tenant that is being deleted is not             *)
(* acknowledged any more; and one that was stays until its deletion is     *)
(* requested.                                                              *)
(***************************************************************************)
CONSTANTS Tenants, Specs, None

VARIABLES
    registry,   \* registry[t]: the record of Tenant t, if there is one
    born        \* the UIDs given out so far

vars == <<registry, born>>

Init ==
    /\ registry = [t \in Tenants |-> None]
    /\ born = {}

-------------------------------------------------------------------------------
Change(t, record) ==
    /\ registry' = [registry EXCEPT ![t] = record]
    /\ UNCHANGED born

Register(t, s) ==
    /\ t \notin born
    /\ born' = born \cup {t}
    /\ registry' = [registry EXCEPT ![t] =
                      [spec |-> s, named |-> FALSE, acknowledged |-> None,
                       ready |-> FALSE, deleting |-> FALSE]]

Edit(t, s) == Change(t, [registry[t] EXCEPT !.spec = s])

Name(t) == Change(t, [registry[t] EXCEPT !.named = TRUE])

Acknowledge(t) ==
    /\ registry[t].named
    /\ ~registry[t].deleting
    /\ Change(t, [registry[t] EXCEPT !.acknowledged = registry[t].spec])

BecomeReady(t) ==
    /\ registry[t].acknowledged = registry[t].spec
    /\ ~registry[t].deleting
    /\ Change(t, [registry[t] EXCEPT !.ready = TRUE])

RequestDeletion(t) == Change(t, [registry[t] EXCEPT !.deleting = TRUE])

\* Only a Tenant that was never acknowledged may go without more ado.
Retire(t) ==
    /\ registry[t].deleting \/ registry[t].acknowledged = None
    /\ Change(t, None)

-------------------------------------------------------------------------------
Next ==
    \E t \in Tenants :
        \/ \E s \in Specs : Register(t, s)
        \/ /\ registry[t] # None
           /\ \/ \E s \in Specs : Edit(t, s)
              \/ Name(t) \/ Acknowledge(t) \/ BecomeReady(t)
              \/ RequestDeletion(t) \/ Retire(t)

Spec == Init /\ [][Next]_vars
===============================================================================
