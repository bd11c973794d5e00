-------------------------- MODULE MCProviderConfigs --------------------------
(***************************************************************************)
(* Small instances of ProviderConfigs: the references and the contents of  *)
(* configs that users choose from.                                         *)
(***************************************************************************)
EXTENDS ProviderConfigs, TLC

MCDecodes ==
    [t \in {"admin json", "half json"} |->
        [username |-> "admin", password |-> IF t = "admin json" THEN "pw" ELSE ""]]

Url(origin, path) == [parses |-> TRUE, origin |-> origin, path |-> path]

Creds(text, padded) == [present |-> TRUE, text |-> text, padded |-> padded]

Here == [url |-> Url("here", <<"/", "grafana">>), creds |-> Creds("token", FALSE)]
HereToo == [url |-> Url("here", <<"/", "grafana", "/">>), creds |-> Creds("token", TRUE)]
There == [url |-> Url("there", <<"/", "api">>), creds |-> Creds("admin json", FALSE)]

Namespaced(name) == [kind |-> "ProviderConfig", name |-> name]
ClusterWide(name) == [kind |-> "ClusterProviderConfig", name |-> name]

TwoConfigs == {Namespaced("a"), Namespaced("b")}
OneConfig == {Namespaced("a")}
ClusterConfig == {ClusterWide("default")}

\* A reference may also name a config of a kind that the connector refuses.
OneOrRefused == OneConfig \cup {[kind |-> "Secret", name |-> "a"]}

TwoContents == {Here, There}
OneContent == {Here}

\* All Tenants are of one org.
OneOrg == [t \in Tenants |-> "1"]
-------------------------------------------------------------------------------
(* The pure functions, over every small input *)

Paths == UNION {[1..n -> {"/", "api", "grafana"}] : n \in 0..5}

\* Slashes at the end of a URL do not matter, nor does a path that has the API
\* in it already; a path always ends in the API.
ASSUME BasePathIsNormal ==
    \A path \in Paths :
        /\ basePath(path \o <<"/">>) = basePath(path)
        /\ basePath(basePath(path)) = basePath(path)
        /\ HasAPISuffix(basePath(path))

\* TestBasePath's cases.
ASSUME BasePathCases ==
    /\ basePath(<<>>) = <<"/", "api">>
    /\ basePath(<<"/", "grafana">>) = <<"/", "grafana", "/", "api">>
    /\ basePath(<<"/", "prefix", "/", "api">>) = <<"/", "prefix", "/", "api">>

\* One Grafana written in two ways is one client; only both fields of a JSON
\* object make a login.
ASSUME ClientCases ==
    /\ ClientOf(Here) = ClientOf(HereToo)
    /\ Auth(Creds("admin json", TRUE)).type = "basic"
    /\ Auth(Creds("half json", TRUE)).type = "token"

\* A reference without a kind names a namespaced config.
ASSUME ReferenceCases ==
    \A c \in TwoConfigs \cup ClusterConfig :
        Names([kind |-> "", name |-> c.name], c) <=> c.kind = "ProviderConfig"
===============================================================================
