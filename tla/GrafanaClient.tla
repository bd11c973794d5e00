---------------------------- MODULE GrafanaClient ----------------------------
(***************************************************************************)
(* internal/grafana/client.go: the HTTP client that NewClient makes of the *)
(* URL and the credentials of a ProviderConfig. A URL is what url.Parse    *)
(* makes of it, its path a sequence of slashes and of names between them.  *)
(* Credentials are a text, with or without white space around it.          *)
(***************************************************************************)
EXTENDS Naturals, Sequences

CONSTANTS
    Decodes     \* the texts that are JSON objects, and the two fields of each

\* basicAuthCreds: a field that the object does not have is empty.
ASSUME DecodesAssumption ==
    \A text \in DOMAIN Decodes : {"username", "password"} = DOMAIN Decodes[text]

-------------------------------------------------------------------------------
\* strings.TrimRight(path, "/").
TrimRight(path) ==
    LET names == {i \in 1..Len(path) : path[i] # "/"}
    IN  IF names = {} THEN <<>>
        ELSE SubSeq(path, 1, CHOOSE i \in names : \A k \in names : k <= i)

HasAPISuffix(path) ==
    Len(path) >= 2 /\ SubSeq(path, Len(path) - 1, Len(path)) = <<"/", "api">>

basePath(path) ==
    LET trimmed == TrimRight(path)
    IN  IF HasAPISuffix(trimmed) THEN trimmed ELSE trimmed \o <<"/", "api">>

\* A JSON object that lacks either field is taken for a token.
Auth(creds) ==
    IF /\ creds.text \in DOMAIN Decodes
       /\ Decodes[creds.text].username # ""
       /\ Decodes[creds.text].password # ""
    THEN [type |-> "basic", user |-> Decodes[creds.text]]
    ELSE [type |-> "token", token |-> creds.text]

\* NewClient fails on a URL that does not parse, and on nothing else.
NewClient(url, creds) ==
    [origin |-> url.origin, basePath |-> basePath(url.path), auth |-> Auth(creds)]
===============================================================================
