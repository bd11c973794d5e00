---------------------------- MODULE OrgMappingText ----------------------------
(***************************************************************************)
(* The text of org_mapping: how internal/grafana/sso.go writes and         *)
(* searches it and how internal/grafana/resolve.go reads it back. A text   *)
(* is a sequence of one-character strings; the name of a role is one       *)
(* character. The set of entries that module OrgMapping works with is what *)
(* the text stands for, and the properties say so.                         *)
(*                                                                         *)
(* The state is the list of Tenants a sync found, in every size and order  *)
(* up to the bounds. Definitions that start with Faulty are mistakes that  *)
(* some property must find.                                                *)
(***************************************************************************)
EXTENDS Naturals, SequencesExt

CONSTANTS
    GroupNames,  \* names of groups, which may be glob patterns
    OrgIds,      \* values of spec.forProvider.orgId
    Claims,      \* groups in a user's claims
    MaxTenants,  \* bound on the length of the list
    MaxEntries   \* bound on the number of groups given roles in it

ASSUME TextAssumption ==
    /\ GroupNames \cup OrgIds \cup Claims \subseteq Seq(STRING)
    /\ MaxTenants \in Nat
    /\ MaxEntries \in Nat

\* The TenantMappings of a sync: an orgId and, under the name of each role, the
\* list of the groups that have it.
VARIABLE tenants

EndsIn(s, end) == Len(end) <= Len(s) /\ SubSeq(s, Len(s) - Len(end) + 1, Len(s)) = end

Abstract == INSTANCE OrgMapping
            WITH TenantIds <- {"tenant"}, Groups <- GroupNames, Policies <- {"policy"},
                 Lookalikes <- {p \in GroupNames \X OrgIds : EndsIn(p[1], <<":">> \o p[2])}

Comma == ","
Space == " "

RoleText == [Viewer |-> <<"V">>, Editor |-> <<"E">>, Admin |-> <<"A">>]

-------------------------------------------------------------------------------
(* Writing *)

\* Groups go into the text as they are.
FaultyEscapeColon(s) == s

escapeColon(s) ==
    FlattenSeq([i \in DOMAIN s |-> IF s[i] = ":" THEN <<"\\", ":">> ELSE <<s[i]>>])

EntryText(group, orgId, role) ==
    escapeColon(group) \o <<":">> \o orgId \o <<":">> \o RoleText[role]

EntryTexts(t, role) == [i \in DOMAIN t[role] |-> EntryText(t[role][i], t.orgId, role)]

Join(texts) ==
    FlattenSeq([i \in DOMAIN texts |-> IF i = 1 THEN texts[i] ELSE <<Comma>> \o texts[i]])

\* Two of the three lists of groups are written.
FaultyAllEntryTexts(ts) ==
    FlattenSeq([i \in DOMAIN ts |->
        EntryTexts(ts[i], "Viewer") \o EntryTexts(ts[i], "Editor")])

AllEntryTexts(ts) ==
    FlattenSeq([i \in DOMAIN ts |->
        EntryTexts(ts[i], "Viewer") \o EntryTexts(ts[i], "Editor") \o EntryTexts(ts[i], "Admin")])

BuildOrgMapping(ts) == Join(AllEntryTexts(ts))

-------------------------------------------------------------------------------
(* Reading *)

\* Where a text begins, has a comma, and ends.
Cuts(text) == {0, Len(text) + 1} \cup {i \in DOMAIN text : text[i] = Comma}

\* strings.Split(text, ","), of which the order of the parts is left out.
SplitAtCommas(text) ==
    {SubSeq(text, c[1] + 1, c[2] - 1) :
        c \in {d \in Cuts(text) \X Cuts(text) :
                  d[1] < d[2] /\ \A i \in Cuts(text) : i <= d[1] \/ d[2] <= i}}

\* strings.TrimSpace, with one character for all white space.
TrimSpace(text) ==
    LET inner == {i \in DOMAIN text : text[i] # Space}
    IN  IF inner = {} THEN <<>> ELSE SubSeq(text, Min(inner), Max(inner))

\* strings.Contains.
HasInfix(text, infix) ==
    \E i \in 1..(Len(text) - Len(infix) + 1) : SubSeq(text, i, i + Len(infix) - 1) = infix

OrgMappingContains(orgMapping, orgId) ==
    \E part \in SplitAtCommas(orgMapping) :
        HasInfix(TrimSpace(part), <<":">> \o orgId \o <<":">>)

\* The fields that have ended and the one that is being read, after i characters
\* of s. A backslash before a colon is dropped, and the colon then ends nothing.
splitUnescapedColon(s) ==
    LET read[i \in 0..Len(s)] ==
            IF i = 0 THEN [fields |-> <<>>, cur |-> <<>>]
            ELSE LET r == read[i - 1]
                 IN  IF s[i] = "\\" /\ i < Len(s) /\ s[i + 1] = ":" THEN r
                     ELSE IF s[i] = ":" /\ (i = 1 \/ s[i - 1] # "\\")
                          THEN [fields |-> Append(r.fields, r.cur), cur |-> <<>>]
                          ELSE [fields |-> r.fields, cur |-> Append(r.cur, s[i])]
    IN  Append(read[Len(s)].fields, read[Len(s)].cur)

\* A * must match something.
FaultyGlobMatch(pattern, s) ==
    LET from[n \in 0..Len(pattern)] ==
            IF n = 0 THEN {Len(s) + 1}
            ELSE LET c == pattern[Len(pattern) - n + 1]
                 IN  IF c = "*" THEN {j \in DOMAIN s : \E k \in from[n - 1] : j < k}
                     ELSE {j \in DOMAIN s : c \in {"?", s[j]} /\ j + 1 \in from[n - 1]}
    IN  1 \in from[Len(pattern)]

\* from[n]: where the rests of s begin that the last n characters of the pattern
\* match.
globMatch(pattern, s) ==
    LET from[n \in 0..Len(pattern)] ==
            IF n = 0 THEN {Len(s) + 1}
            ELSE LET c == pattern[Len(pattern) - n + 1]
                 IN  IF c = "*" THEN {j \in 1..(Len(s) + 1) : \E k \in from[n - 1] : j <= k}
                     ELSE {j \in DOMAIN s : c \in {"?", s[j]} /\ j + 1 \in from[n - 1]}
    IN  1 \in from[Len(pattern)]

\* The fields of the entries that are not malformed.
WellFormedEntries(orgMapping) ==
    {f \in {splitUnescapedColon(TrimSpace(part)) : part \in SplitAtCommas(orgMapping)} :
        Len(f) = 3}

\* The sorted list without duplicates is a set.
ResolveOrgIDs(orgMapping, claimGroups) ==
    {f[2] : f \in {e \in WellFormedEntries(orgMapping) :
                      \E g \in claimGroups : globMatch(e[1], g)}}

-------------------------------------------------------------------------------
(* Lists of Tenants *)

EntryCount(ts) ==
    FoldLeft(LAMBDA n, t : n + Len(t.Viewer) + Len(t.Editor) + Len(t.Admin), 0, ts)

Init == tenants = <<>>

ListTenant(orgId) ==
    /\ Len(tenants) < MaxTenants
    /\ tenants' = Append(tenants, [orgId |-> orgId, Viewer |-> <<>>, Editor |-> <<>>,
                                   Admin |-> <<>>])

\* The Tenant listed last gives one more group a role.
GiveRole(role, group) ==
    /\ tenants # <<>>
    /\ EntryCount(tenants) < MaxEntries
    /\ tenants' = [tenants EXCEPT ![Len(tenants)][role] = Append(@, group)]

Next ==
    \/ \E orgId \in OrgIds : ListTenant(orgId)
    \/ \E role \in Abstract!Roles, group \in GroupNames : GiveRole(role, group)

Spec == Init /\ [][Next]_tenants

-------------------------------------------------------------------------------
(* Properties *)

\* The names that are read back as they were written, which are not all that a
\* TenantSpec admits: nothing escapes a comma, a backslash at the end of a name
\* escapes the separator after it, a space at the start of an entry is trimmed,
\* and only the colons of groups are escaped.
ReadableNames ==
    /\ \A group \in GroupNames :
         /\ \A i \in DOMAIN group : group[i] # Comma
         /\ group # <<>> => group[1] # Space /\ group[Len(group)] # "\\"
    /\ \A orgId \in OrgIds :
         /\ \A i \in DOMAIN orgId : orgId[i] # Comma /\ orgId[i] # ":"
         /\ orgId # <<>> => orgId[Len(orgId)] # "\\"

\* What module OrgMapping makes of the same Tenants.
Published ==
    Abstract!BuildOrgMapping(
        {[tenantId |-> "tenant", orgId |-> t.orgId, policy |-> "policy",
          viewerGroups |-> ToSet(t.Viewer), editorGroups |-> ToSet(t.Editor),
          adminGroups |-> ToSet(t.Admin)] : t \in ToSet(tenants)})

\* The text that BuildOrgMapping writes, read the way ResolveOrgIDs reads it,
\* has the group, the org and the role of every entry and no other entry.
EntriesSurvive ==
    WellFormedEntries(BuildOrgMapping(tenants)) =
        {<<e.group, e.orgId, RoleText[e.role]>> : e \in Published}

\* What a glob pattern matches: cut[i] is the length of the part of s that the
\* first i characters of the pattern stand for.
Matches(pattern, s) ==
    \E cut \in [0..Len(pattern) -> 0..Len(s)] :
        /\ cut[0] = 0
        /\ cut[Len(pattern)] = Len(s)
        /\ \A i \in DOMAIN pattern :
             /\ cut[i - 1] <= cut[i]
             /\ pattern[i] # "*" =>
                  cut[i] = cut[i - 1] + 1 /\ pattern[i] \in {"?", s[cut[i]]}

Matching == {m \in GroupNames \X Claims : Matches(m[1], m[2])}

\* A user resolves to exactly the orgs of the Tenants that give a role to a
\* group, taken as a pattern, that one of the user's claims matches.
ResolvesGrants ==
    LET text == BuildOrgMapping(tenants)
        published == Published
    IN  \A claimGroups \in {{c} : c \in Claims} \cup {{}, Claims} :
            ResolveOrgIDs(text, claimGroups) =
                {e.orgId : e \in {p \in published : \E c \in claimGroups : <<p.group, c>> \in Matching}}

\* The drift check never misses an org that has an entry, whatever its groups
\* are called, so that a mapping that was just written is not drift.
NeverMissesAnOrg ==
    \A orgId \in OrgIds :
        Abstract!HasEntry(Published, orgId) =>
            OrgMappingContains(BuildOrgMapping(tenants), orgId)

\* The comments in OrgMappingContains: an org is in a mapping if it is the second
\* field of an entry.
FindsOnlyItsEntries ==
    \A orgId \in OrgIds :
        OrgMappingContains(BuildOrgMapping(tenants), orgId) =>
            Abstract!HasEntry(Published, orgId)

\* The search of the text is the search that module OrgMapping makes of the
\* entries: what the drift check of TenantController finds is what the code's
\* finds, the mistakes that Lookalikes stands for included.
SearchIsAbstract ==
    \A orgId \in OrgIds :
        OrgMappingContains(BuildOrgMapping(tenants), orgId) <=>
            Abstract!OrgMappingContains(Published, orgId)
===============================================================================
