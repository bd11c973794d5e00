-------------------------- MODULE GrafanaClient_proofs --------------------------
(***************************************************************************)
(* internal/grafana/client.go: whatever path the URL of a ProviderConfig   *)
(* has, the client's base path ends in the API, and does not depend on     *)
(* whether the URL names the API itself or has slashes at its end.         *)
(***************************************************************************)
EXTENDS GrafanaClient, SequenceLemmas, SequenceTheorems

\* A path's elements: the slashes and the names between them.
Element == STRING \cup {"/", "api"}
Path == Seq(Element)

\* The first n elements of a path are what is left without the slashes at its end.
TrimmedAt(path, n) ==
    /\ n \in 0..Len(path)
    /\ n # 0 => path[n] # "/"
    /\ \A i \in (n + 1)..Len(path) : path[i] = "/"

\* Every path has such a place, and TrimRight cuts there.
LEMMA TrimmedSomewhere ==
    ASSUME NEW path \in Path
    PROVE  \E n : TrimmedAt(path, n)
<1> DEFINE names == {i \in 1..Len(path) : path[i] # "/"}
<1>1. Len(path) \in Nat
  BY DEF Path
<1>2. CASE names = {}
  <2>1. TrimmedAt(path, 0)
    BY <1>1, <1>2 DEF TrimmedAt
  <2> QED
    BY <2>1
<1>3. CASE names # {}
  <2>1. names \in SUBSET Nat /\ \A i \in names : i <= Len(path)
    BY <1>1
  <2> HIDE DEF names
  <2>2. PICK n \in names : \A i \in names : i <= n
    BY <1>1, <1>3, <2>1, GreatestNumber
  <2>3. TrimmedAt(path, n)
    BY <1>1, <2>1, <2>2 DEF TrimmedAt, names
  <2> QED
    BY <2>3
<1> QED
  BY <1>2, <1>3

LEMMA TrimRightCuts ==
    ASSUME NEW path \in Path, NEW n, TrimmedAt(path, n)
    PROVE  /\ TrimRight(path) = SubSeq(path, 1, n)
           /\ TrimRight(path) \in Path
           /\ Len(TrimRight(path)) = n
           /\ \A i \in 1..n : TrimRight(path)[i] = path[i]
<1> DEFINE names == {i \in 1..Len(path) : path[i] # "/"}
<1>1. Len(path) \in Nat /\ n \in Nat /\ n <= Len(path)
  BY DEF Path, TrimmedAt
<1>2. /\ SubSeq(path, 1, n) \in Path /\ Len(SubSeq(path, 1, n)) = n
      /\ \A i \in 1..n : SubSeq(path, 1, n)[i] = path[i]
  BY <1>1 DEF Path
<1>3. TrimRight(path) = SubSeq(path, 1, n)
  <2>1. CASE n = 0
    <3>1. names = {}
      BY <1>1, <2>1 DEF TrimmedAt
    <3>2. SubSeq(path, 1, n) = <<>>
      BY <1>2, <2>1 DEF Path
    <3> QED
      BY <3>1, <3>2 DEF TrimRight
  <2>2. CASE n # 0
    <3>1. n \in names /\ \A i \in names : i <= n
      BY <1>1, <2>2 DEF TrimmedAt
    <3>2. ASSUME NEW k \in names, \A i \in names : i <= k PROVE k = n
      BY <1>1, <3>1, <3>2
    <3> HIDE DEF names
    <3>3. (CHOOSE k \in names : \A i \in names : i <= k) = n
      BY <3>1, <3>2
    <3> QED
      BY <3>1, <3>3 DEF TrimRight, names
  <2> QED
    BY <2>1, <2>2
<1> QED
  BY <1>2, <1>3

\* The last two elements of a path.
LEMMA LastTwo ==
    ASSUME NEW path \in Path, Len(path) >= 2
    PROVE  LET end == SubSeq(path, Len(path) - 1, Len(path))
           IN  /\ end \in Path /\ Len(end) = 2
               /\ end[1] = path[Len(path) - 1] /\ end[2] = path[Len(path)]
<1> DEFINE n == Len(path)
           a == n - 1
           end == SubSeq(path, a, n)
<1>1. n \in Int /\ a \in Int /\ a <= n /\ n - a + 1 = 2 /\ a + 1 - 1 = a /\ a + 2 - 1 = n
  BY DEF Path
<1>2. \A i \in a..n : path[i] \in Element
  BY <1>1 DEF Path
<1> HIDE DEF a, n
<1>3. /\ end \in Seq(Element) /\ Len(end) = n - a + 1
      /\ \A i \in 1..(n - a + 1) : end[i] = path[a + i - 1]
  BY <1>1, <1>2, SubSeqProperties
<1> HIDE DEF end
<1>4. 1 \in 1..2 /\ 2 \in 1..2
  OBVIOUS
<1>5. end \in Path /\ Len(end) = 2 /\ end[1] = path[a] /\ end[2] = path[n]
  <2>1. \A i \in 1..2 : end[i] = path[a + i - 1]
    BY <1>1, <1>3
  <2>2. end[1] = path[a + 1 - 1] /\ end[2] = path[a + 2 - 1]
    BY <1>4, <2>1
  <2> QED
    BY <1>1, <1>3, <2>2 DEF Path
<1> QED
  BY <1>5, Zenon DEF a, end, n

\* What ends in the API, ends in a name and has nothing to trim.
LEMMA APIIsKept ==
    ASSUME NEW path \in Path, HasAPISuffix(path)
    PROVE  basePath(path) = path
<1> DEFINE n == Len(path)
           end == SubSeq(path, n - 1, n)
<1>1. n \in Nat /\ n >= 2 /\ end = <<"/", "api">>
  BY DEF HasAPISuffix, Path
<1>2. path[n] = "api"
  <2>1. end[2] = path[n]
    BY <1>1, LastTwo
  <2>2. end[2] = "api"
    <3>1. <<"/", "api">>[2] = "api"
      OBVIOUS
    <3> QED
      BY <1>1, <3>1, Zenon
  <2> QED
    BY <2>1, <2>2
<1>3. TrimmedAt(path, n)
  BY <1>1, <1>2 DEF TrimmedAt
<1>4. TrimRight(path) = path
  <2>1. TrimRight(path) \in Path /\ Len(TrimRight(path)) = n
        /\ \A i \in 1..n : TrimRight(path)[i] = path[i]
    BY <1>3, TrimRightCuts
  <2> QED
    BY <2>1, SeqEqual DEF Path
<1> QED
  BY <1>4 DEF basePath

\* A slash at the end changes nothing.
LEMMA SlashIsTrimmed ==
    ASSUME NEW path \in Path
    PROVE  basePath(Append(path, "/")) = basePath(path)
<1> DEFINE longer == Append(path, "/")
<1>1. PICK n : TrimmedAt(path, n)
  BY TrimmedSomewhere
<1>2. /\ longer \in Path /\ Len(longer) = Len(path) + 1 /\ Len(path) \in Nat
      /\ longer[Len(path) + 1] = "/"
      /\ \A i \in 1..Len(path) : longer[i] = path[i]
  <2>1. path \in Seq(Element) /\ "/" \in Element /\ Len(path) \in Nat
    BY DEF Path, Element
  <2>2. /\ longer \in Seq(Element) /\ Len(longer) = Len(path) + 1
        /\ \A i \in 1..Len(path) : longer[i] = path[i]
        /\ longer[Len(path) + 1] = "/"
    BY <2>1, AppendProperties
  <2> QED
    BY <2>1, <2>2 DEF Path
<1> HIDE DEF longer
<1>3. TrimmedAt(longer, n)
  BY <1>1, <1>2 DEF TrimmedAt
<1>4. /\ TrimRight(path) \in Path /\ Len(TrimRight(path)) = n
      /\ TrimRight(longer) \in Path /\ Len(TrimRight(longer)) = n
      /\ \A i \in 1..n : TrimRight(path)[i] = path[i] /\ TrimRight(longer)[i] = longer[i]
  BY <1>1, <1>2, <1>3, TrimRightCuts
<1>5. \A i \in 1..n : TrimRight(longer)[i] = TrimRight(path)[i]
  BY <1>1, <1>2, <1>4 DEF TrimmedAt
<1>6. TrimRight(longer) = TrimRight(path)
  BY <1>4, <1>5, SeqEqual DEF Path
<1> QED
  BY <1>6 DEF basePath, longer

\* basePath always ends in the API.
LEMMA APIIsReached ==
    ASSUME NEW path \in Path
    PROVE  basePath(path) \in Path /\ HasAPISuffix(basePath(path))
<1> DEFINE trimmed == TrimRight(path)
           api == <<"/", "api">>
<1>1. trimmed \in Path
  BY TrimmedSomewhere, TrimRightCuts
<1>2. basePath(path) = IF HasAPISuffix(trimmed) THEN trimmed ELSE trimmed \o api
  BY DEF basePath
<1> HIDE DEF trimmed
<1>3. trimmed \o api \in Path /\ HasAPISuffix(trimmed \o api)
  <2> DEFINE longer == trimmed \o api
             n == Len(longer)
             end == SubSeq(longer, n - 1, n)
  <2>1. /\ longer \in Path /\ n = Len(trimmed) + 2 /\ Len(trimmed) \in Nat
        /\ longer[Len(trimmed) + 1] = "/" /\ longer[Len(trimmed) + 2] = "api"
    <3>1. /\ api \in Path /\ Len(api) = 2 /\ api[1] = "/" /\ api[2] = "api"
          /\ Len(trimmed) \in Nat
      BY <1>1 DEF Path, Element
    <3> HIDE DEF api
    <3>2. /\ longer \in Seq(Element) /\ Len(longer) = Len(trimmed) + Len(api)
          /\ \A i \in 1..(Len(trimmed) + Len(api)) :
                longer[i] = IF i <= Len(trimmed) THEN trimmed[i] ELSE api[i - Len(trimmed)]
      BY <1>1, <3>1, ConcatProperties DEF Path
    <3> HIDE DEF longer
    <3>3. longer[Len(trimmed) + 1] = api[1] /\ longer[Len(trimmed) + 2] = api[2]
      BY <3>1, <3>2
    <3> QED
      BY <3>1, <3>2, <3>3 DEF Path
  <2> HIDE DEF longer
  <2>2. end \in Path /\ Len(end) = 2 /\ end[1] = longer[n - 1] /\ end[2] = longer[n]
    <3>1. longer \in Path /\ Len(longer) >= 2
      BY <2>1
    <3> QED
      BY <3>1, LastTwo
  <2>3. end = api
    <3>1. n - 1 = Len(trimmed) + 1 /\ n = Len(trimmed) + 2
      BY <2>1
    <3> HIDE DEF n
    <3>2. end[1] = "/" /\ end[2] = "api"
      BY <2>1, <2>2, <3>1
    <3> HIDE DEF end
    <3>3. api \in Path /\ Len(api) = 2 /\ api[1] = "/" /\ api[2] = "api"
      BY DEF Path, Element
    <3> HIDE DEF api
    <3>4. \A i \in 1..2 : end[i] = api[i]
      BY <3>2, <3>3
    <3> QED
      BY <2>2, <3>3, <3>4, SeqEqual DEF Path
  <2>4. HasAPISuffix(longer)
    BY <2>1, <2>3 DEF HasAPISuffix
  <2> QED
    BY <2>1, <2>4 DEF longer
<1> QED
  BY <1>1, <1>2, <1>3

\* The path of the URL, whatever it is, gives a base path that ends in the API and
\* that is its own: normalising it again, or a slash more at the end of the URL,
\* changes nothing. A user who writes the API into the URL, or a slash at its end,
\* reaches the same Grafana API as one who writes neither.
THEOREM BasePathIsReached ==
    ASSUME NEW path \in Path
    PROVE  /\ HasAPISuffix(basePath(path))
           /\ basePath(basePath(path)) = basePath(path)
           /\ basePath(Append(path, "/")) = basePath(path)
<1>1. basePath(path) \in Path /\ HasAPISuffix(basePath(path))
  BY APIIsReached
<1> QED
  BY <1>1, APIIsKept, SlashIsTrimmed
=================================================================================
