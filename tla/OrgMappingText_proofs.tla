------------------------- MODULE OrgMappingText_proofs -------------------------
(***************************************************************************)
(* What internal/grafana/sso.go writes, internal/grafana/resolve.go reads: *)
(* for lists of Tenants of any length and for all names that the format    *)
(* can encode, the text of org_mapping is as good as the set of entries it *)
(* stands for. The proofs go through the text as the code does: joining,   *)
(* splitting at commas, escaping and reading one entry, and matching a     *)
(* pattern from its end.                                                   *)
(***************************************************************************)
EXTENDS OrgMappingText, SequenceLemmas, SequenceTheorems

\* A text's characters, those of the format among them.
Character == STRING \cup {Comma, ":", "\\", "V", "E", "A"}
Text == Seq(Character)

\* The separator and the space are none of the other special characters and none
\* of the names of roles.
LEMMA SeparatorsAreSpecial ==
    /\ Comma # ":" /\ Comma # "\\" /\ Comma # "V" /\ Comma # "E" /\ Comma # "A"
    /\ Space # ":" /\ Space # "\\" /\ Space # "V" /\ Space # "E" /\ Space # "A"
BY Zenon DEF Comma, Space

\* What the concatenation of two texts is made of.
LEMMA ConcatText ==
    ASSUME NEW s \in Text, NEW t \in Text
    PROVE  /\ s \o t \in Text /\ Len(s \o t) = Len(s) + Len(t)
           /\ Len(s) \in Nat /\ Len(t) \in Nat
           /\ \A i \in 1..Len(s) : (s \o t)[i] = s[i]
           /\ \A i \in 1..Len(t) : (s \o t)[Len(s) + i] = t[i]
BY DEF Text

\* Texts may be put together in any order.
LEMMA ConcatThree ==
    ASSUME NEW s \in Text, NEW t \in Text, NEW x \in Text
    PROVE  s \o (t \o x) = (s \o t) \o x
<1>1. s \in Seq(Character) /\ t \in Seq(Character) /\ x \in Seq(Character)
  BY DEF Text
<1> QED
  BY <1>1, ConcatAssociative

\* A text of one character.
LEMMA OneCharacter ==
    ASSUME NEW c \in Character
    PROVE  <<c>> \in Text /\ Len(<<c>>) = 1 /\ <<c>>[1] = c
BY DEF Text

\* A character in front of a text.
LEMMA CharacterFirst ==
    ASSUME NEW s \in Text, NEW c \in Character
    PROVE  /\ <<c>> \o s \in Text /\ Len(<<c>> \o s) = Len(s) + 1 /\ Len(s) \in Nat
           /\ (<<c>> \o s)[1] = c
           /\ \A i \in 1..Len(s) : (<<c>> \o s)[1 + i] = s[i]
BY DEF Text

\* A character at the end of a text.
LEMMA CharacterLast ==
    ASSUME NEW s \in Text, NEW c \in Character
    PROVE  /\ s \o <<c>> \in Text /\ Len(s \o <<c>>) = Len(s) + 1 /\ Len(s) \in Nat
           /\ (s \o <<c>>)[Len(s) + 1] = c
           /\ \A i \in 1..Len(s) : (s \o <<c>>)[i] = s[i]
BY DEF Text

\* What follows the first characters of a text.
LEMMA RestOfText ==
    ASSUME NEW s \in Text, NEW k \in Nat, k <= Len(s)
    PROVE  /\ SubSeq(s, k + 1, Len(s)) \in Text /\ Len(SubSeq(s, k + 1, Len(s))) = Len(s) - k
           /\ \A i \in 1..(Len(s) - k) : SubSeq(s, k + 1, Len(s))[i] = s[k + i]
<1>1. Len(s) \in Nat
  BY DEF Text
<1> DEFINE rest == SubSeq(s, k + 1, Len(s))
<1>2. rest = [i \in 1..(Len(s) - k) |-> s[k + i]]
  <2>1. rest = [i \in 1..(1 + Len(s) - (k + 1)) |-> s[i + (k + 1) - 1]]
    BY <1>1 DEF Text
  <2>2. 1 + Len(s) - (k + 1) = Len(s) - k
    BY <1>1
  <2>3. \A i \in 1..(Len(s) - k) : i + (k + 1) - 1 = k + i
    BY <1>1
  <2> HIDE DEF rest
  <2> QED
    BY <2>1, <2>2, <2>3
<1>3. \A i \in 1..(Len(s) - k) : s[k + i] \in Character
  BY <1>1 DEF Text
<1>4. Len(s) - k \in Nat
  BY <1>1
<1> HIDE DEF rest
<1>5. rest \in Text /\ Len(rest) = Len(s) - k /\ \A i \in 1..(Len(s) - k) : rest[i] = s[k + i]
  BY <1>2, <1>3, <1>4 DEF Text
<1> QED
  BY <1>5 DEF rest

\* The same characters at two places are the same part of a text.
LEMMA SubSeqMoved ==
    ASSUME NEW s \in Text, NEW t \in Text, NEW a \in Nat, NEW b \in Nat, NEW d \in Nat,
           a >= 1, b <= Len(s), b + d <= Len(t),
           \A i \in a..b : s[i] = t[i + d]
    PROVE  SubSeq(s, a, b) = SubSeq(t, a + d, b + d)
<1>1. SubSeq(s, a, b) = [i \in 1..(1 + b - a) |-> s[i + a - 1]]
  BY DEF Text
<1>2. SubSeq(t, a + d, b + d) = [i \in 1..(1 + b - a) |-> t[i + (a + d) - 1]]
  <2>1. 1 + (b + d) - (a + d) = 1 + b - a
    OBVIOUS
  <2> QED
    BY <2>1, SMTT(30) DEF Text
<1>3. \A i \in 1..(1 + b - a) : i + a - 1 \in a..b /\ i + (a + d) - 1 = (i + a - 1) + d
  OBVIOUS
<1> QED
  BY <1>1, <1>2, <1>3

\* Two neighbouring cuts.
Part(text, a, b) ==
    /\ a \in Cuts(text) /\ b \in Cuts(text) /\ a < b
    /\ \A i \in Cuts(text) : i <= a \/ b <= i

\* The cuts of a text are its ends and the places of its commas.
LEMMA CutsAreNumbers ==
    ASSUME NEW text \in Text
    PROVE  /\ Cuts(text) \subseteq 0..(Len(text) + 1)
           /\ \A i \in Nat : i \in Cuts(text) <=>
                 i = 0 \/ i = Len(text) + 1 \/ (i \in 1..Len(text) /\ text[i] = Comma)
BY DEF Cuts, Text

\* What lies between two neighbouring cuts is a part, and nothing else is.
LEMMA SplitParts ==
    ASSUME NEW text \in Text, NEW part
    PROVE  part \in SplitAtCommas(text) <=>
             \E a, b \in Nat : Part(text, a, b) /\ part = SubSeq(text, a + 1, b - 1)
<1>1. Cuts(text) \subseteq Nat
  BY CutsAreNumbers
<1>2. ASSUME part \in SplitAtCommas(text)
      PROVE  \E a, b \in Nat : Part(text, a, b) /\ part = SubSeq(text, a + 1, b - 1)
  <2>1. PICK c \in Cuts(text) \X Cuts(text) :
           /\ c[1] < c[2] /\ \A i \in Cuts(text) : i <= c[1] \/ c[2] <= i
           /\ part = SubSeq(text, c[1] + 1, c[2] - 1)
    BY <1>2 DEF SplitAtCommas
  <2>2. c[1] \in Nat /\ c[2] \in Nat /\ Part(text, c[1], c[2])
    BY <1>1, <2>1 DEF Part
  <2> QED
    BY <2>1, <2>2
<1>3. ASSUME NEW a \in Nat, NEW b \in Nat, Part(text, a, b), part = SubSeq(text, a + 1, b - 1)
      PROVE  part \in SplitAtCommas(text)
  <2> DEFINE c == <<a, b>>
  <2>1. c \in Cuts(text) \X Cuts(text) /\ c[1] = a /\ c[2] = b
    BY <1>3 DEF Part
  <2>2. c[1] < c[2] /\ \A i \in Cuts(text) : i <= c[1] \/ c[2] <= i
    BY <1>3, <2>1 DEF Part
  <2> HIDE DEF c
  <2> QED
    BY <1>3, <2>1, <2>2 DEF SplitAtCommas
<1> QED
  BY <1>2, <1>3

\* A text without a comma is one part.
LEMMA SplitPlain ==
    ASSUME NEW text \in Text, \A i \in DOMAIN text : text[i] # Comma
    PROVE  SplitAtCommas(text) = {text}
<1>1. Len(text) \in Nat /\ DOMAIN text = 1..Len(text)
  BY DEF Text
<1>2. \A i \in Nat : i \in Cuts(text) <=> i = 0 \/ i = Len(text) + 1
  BY <1>1, CutsAreNumbers
<1>3. SubSeq(text, 1, Len(text)) = text
  BY DEF Text
<1>4. \A a, b \in Nat : Part(text, a, b) <=> a = 0 /\ b = Len(text) + 1
  <2> SUFFICES ASSUME NEW a \in Nat, NEW b \in Nat
               PROVE  Part(text, a, b) <=> a = 0 /\ b = Len(text) + 1
    OBVIOUS
  <2>1. Cuts(text) \subseteq Nat
    BY CutsAreNumbers
  <2> QED
    BY <1>1, <1>2, <2>1 DEF Part
<1>5. ASSUME NEW part PROVE part \in SplitAtCommas(text) <=> part = text
  <2>1. (Len(text) + 1) - 1 = Len(text) /\ 0 + 1 = 1 /\ Len(text) + 1 \in Nat
    BY <1>1
  <2> QED
    BY <1>3, <1>4, <2>1, SplitParts
<1> QED
  BY <1>5

\* The parts of two texts with a comma between them are the parts of each.
LEMMA SplitConcat ==
    ASSUME NEW t \in Text, NEW x \in Text
    PROVE  SplitAtCommas(t \o <<Comma>> \o x) = SplitAtCommas(t) \cup SplitAtCommas(x)
<1> DEFINE u == t \o <<Comma>> \o x
           L == Len(t) + 1
<1>1. /\ u \in Text /\ L \in Nat /\ L = Len(t) + 1 /\ Len(t) \in Nat /\ Len(x) \in Nat /\ Len(u) = L + Len(x)
      /\ \A i \in 1..Len(t) : u[i] = t[i]
      /\ u[L] = Comma
      /\ \A i \in 1..Len(x) : u[i + L] = x[i]
  BY DEF Text, Character
<1> HIDE DEF u, L
<1>0. u \in Text /\ L \in Nat /\ L >= 1
  BY <1>1
<1>2. ASSUME NEW i \in Nat
      PROVE  i \in Cuts(u) <=> i \in Cuts(t) \/ (i >= L /\ i - L \in Cuts(x))
  <2>1. CASE i < L
    <3>1. i # Len(u) + 1 /\ i # L
      BY <1>1, <2>1
    <3>2. i \in 1..Len(u) <=> i \in 1..Len(t)
      BY <1>1, <2>1
    <3>3. i \in 1..Len(u) => u[i] = t[i]
      BY <1>1, <3>2
    <3> QED
      BY <1>1, <2>1, <3>1, <3>2, <3>3, CutsAreNumbers
  <2>2. CASE i = L
    <3>1. i \in 1..Len(u)
      BY <1>1, <2>2
    <3> QED
      BY <1>1, <2>2, <3>1, CutsAreNumbers
  <2>3. CASE i > L
    <3>1. i - L \in Nat /\ i - L # 0 /\ i = (i - L) + L
      BY <1>1, <2>3
    <3>2. i \in 1..Len(u) <=> i - L \in 1..Len(x)
      BY <1>1, <2>3
    <3>3. i = Len(u) + 1 <=> i - L = Len(x) + 1
      BY <1>1, <2>3
    <3>4. i \notin Cuts(t) /\ i >= L
      BY <1>1, <2>3, CutsAreNumbers
    <3>5. i - L \in 1..Len(x) => u[i] = x[i - L]
      BY <1>1, <3>1
    <3>6. i \in Cuts(u) <=> i = Len(u) + 1 \/ (i \in 1..Len(u) /\ u[i] = Comma)
      <4>1. i # 0
        BY <1>0, <2>3
      <4> QED
        BY <1>0, <4>1, CutsAreNumbers
    <3>7. i - L \in Cuts(x) <=> i - L = Len(x) + 1 \/ (i - L \in 1..Len(x) /\ x[i - L] = Comma)
      BY <3>1, CutsAreNumbers
    <3> QED
      BY <3>2, <3>3, <3>4, <3>5, <3>6, <3>7
  <2> QED
    BY <1>1, <2>1, <2>2, <2>3
<1>3. /\ L \in Cuts(t) /\ \A i \in Cuts(t) : i \in Nat /\ i <= L
      /\ Cuts(u) \subseteq Nat /\ Cuts(x) \subseteq Nat /\ 0 \in Cuts(x)
  BY <1>1, CutsAreNumbers
<1>4. ASSUME NEW a \in Nat, NEW b \in Nat, b <= L
      PROVE  Part(u, a, b) <=> Part(t, a, b)
  <2>1. \A i \in Nat : i < L => (i \in Cuts(u) <=> i \in Cuts(t))
    BY <1>1, <1>2
  <2>2. L \in Cuts(u)
    BY <1>1, <1>2, <1>3
  <2>3. \A i \in Cuts(u) : i \in Cuts(t) \/ b <= i
    BY <1>1, <1>2, <1>3, <1>4
  <2> QED
    BY <1>1, <1>3, <1>4, <2>1, <2>2, <2>3 DEF Part
<1>5. ASSUME NEW a \in Nat, NEW b \in Nat
      PROVE  Part(u, a + L, b + L) <=> Part(x, a, b)
  <2>1. \A i \in Nat : i + L \in Cuts(u) <=> i \in Cuts(x)
    <3> SUFFICES ASSUME NEW i \in Nat PROVE i + L \in Cuts(u) <=> i \in Cuts(x)
      OBVIOUS
    <3>1. i + L \in Nat /\ i + L >= L /\ (i + L) - L = i
      BY <1>1
    <3>2. i + L \in Cuts(t) => i = 0
      BY <1>1, <1>3
    <3> QED
      BY <1>2, <1>3, <3>1, <3>2
  <2>2. ASSUME NEW i \in Cuts(u), ~(i < L) PROVE i - L \in Nat /\ i - L \in Cuts(x)
    <3>1. i - L \in Nat /\ i = (i - L) + L
      BY <1>0, <1>3, <2>2
    <3> QED
      BY <2>1, <2>2, <3>1
  <2>3. a + L < b + L <=> a < b
    BY <1>1
  <2>4. (\A i \in Cuts(u) : i <= a + L \/ b + L <= i) <=> (\A i \in Cuts(x) : i <= a \/ b <= i)
    <3>1. ASSUME \A i \in Cuts(u) : i <= a + L \/ b + L <= i, NEW i \in Cuts(x)
          PROVE  i <= a \/ b <= i
      <4>1. i \in Nat /\ i + L \in Cuts(u)
        BY <1>3, <2>1
      <4>2. i + L <= a + L \/ b + L <= i + L
        BY <3>1, <4>1
      <4> QED
        BY <1>1, <4>1, <4>2
    <3>2. ASSUME \A i \in Cuts(x) : i <= a \/ b <= i, NEW i \in Cuts(u)
          PROVE  i <= a + L \/ b + L <= i
      <4>1. CASE i < L
        BY <1>1, <1>3, <4>1
      <4>2. CASE ~(i < L)
        <5>1. i - L \in Nat /\ i - L \in Cuts(x)
          BY <2>2, <4>2
        <5>2. i - L <= a \/ b <= i - L
          BY <3>2, <5>1
        <5> QED
          BY <1>1, <1>3, <5>2
      <4> QED
        BY <4>1, <4>2
    <3> QED
      BY <3>1, <3>2
  <2> QED
    BY <2>1, <2>3, <2>4 DEF Part
<1>6. ASSUME NEW part, part \in SplitAtCommas(u)
      PROVE  part \in SplitAtCommas(t) \cup SplitAtCommas(x)
  <2>1. PICK a, b \in Nat : Part(u, a, b) /\ part = SubSeq(u, a + 1, b - 1)
    BY <1>0, <1>6, SplitParts
  <2>2. b <= L \/ L <= a
    <3>1. L \in Cuts(u)
      BY <1>1, <1>2, <1>3
    <3> QED
      BY <1>1, <2>1, <3>1 DEF Part
  <2>3. CASE b <= L
    <3>1. Part(t, a, b)
      BY <1>4, <2>1, <2>3
    <3>2. b - 1 \in Nat /\ b - 1 <= Len(t) /\ a + 1 >= 1
      BY <1>1, <2>1, <2>3 DEF Part
    <3>3. \A i \in (a + 1)..(b - 1) : t[i] = u[i + 0]
      BY <1>1, <2>3
    <3>4. SubSeq(t, a + 1, b - 1) = SubSeq(u, (a + 1) + 0, (b - 1) + 0)
      <4>1. b - 1 + 0 <= Len(u) /\ a + 1 \in Nat
        BY <1>1, <3>2
      <4> QED
        BY <1>1, <3>2, <3>3, <4>1, SubSeqMoved, SMTT(30)
    <3>5. part = SubSeq(t, a + 1, b - 1)
      BY <2>1, <3>2, <3>4
    <3> QED
      BY <3>1, <3>5, SplitParts
  <2>4. CASE L <= a
    <3> DEFINE c == a - L
               d == b - L
    <3>1. c \in Nat /\ d \in Nat /\ a = c + L /\ b = d + L
      BY <1>1, <2>1, <2>4 DEF Part
    <3> HIDE DEF c, d
    <3>2. Part(x, c, d)
      BY <1>5, <2>1, <3>1
    <3>3. d - 1 \in Nat /\ d - 1 <= Len(x) /\ c + 1 >= 1
      BY <1>1, <3>1, <3>2, CutsAreNumbers DEF Part
    <3>4. \A i \in (c + 1)..(d - 1) : x[i] = u[i + L]
      BY <1>1, <3>1, <3>3
    <3>5. SubSeq(x, c + 1, d - 1) = SubSeq(u, (c + 1) + L, (d - 1) + L)
      BY <1>1, <3>1, <3>3, <3>4, SubSeqMoved, SMTT(30)
    <3>6. (c + 1) + L = a + 1 /\ (d - 1) + L = b - 1
      BY <1>1, <3>1
    <3>7. part = SubSeq(x, c + 1, d - 1)
      BY <2>1, <3>5, <3>6
    <3> QED
      BY <3>1, <3>2, <3>7, SplitParts
  <2> QED
    BY <2>2, <2>3, <2>4
<1>7. ASSUME NEW part, part \in SplitAtCommas(t) PROVE part \in SplitAtCommas(u)
  <2>1. PICK a, b \in Nat : Part(t, a, b) /\ part = SubSeq(t, a + 1, b - 1)
    BY <1>7, SplitParts
  <2>2. b <= L
    BY <1>3, <2>1 DEF Part
  <2>3. Part(u, a, b)
    BY <1>4, <2>1, <2>2
  <2>4. b - 1 \in Nat /\ b - 1 <= Len(t) /\ a + 1 >= 1
    BY <1>1, <2>1, <2>2 DEF Part
  <2>5. \A i \in (a + 1)..(b - 1) : t[i] = u[i + 0]
    BY <1>1, <2>2
  <2>6. SubSeq(t, a + 1, b - 1) = SubSeq(u, (a + 1) + 0, (b - 1) + 0)
    BY <1>1, <2>4, <2>5, SubSeqMoved
  <2>7. part = SubSeq(u, a + 1, b - 1)
    BY <2>1, <2>4, <2>6
  <2> QED
    BY <1>1, <2>3, <2>7, SplitParts
<1>8. ASSUME NEW part, part \in SplitAtCommas(x) PROVE part \in SplitAtCommas(u)
  <2>1. PICK c, d \in Nat : Part(x, c, d) /\ part = SubSeq(x, c + 1, d - 1)
    BY <1>8, SplitParts
  <2>2. Part(u, c + L, d + L) /\ c + L \in Nat /\ d + L \in Nat
    BY <1>0, <1>5, <2>1
  <2>3. d - 1 \in Nat /\ d - 1 <= Len(x) /\ c + 1 >= 1
    BY <1>1, <2>1, CutsAreNumbers DEF Part
  <2>4. \A i \in (c + 1)..(d - 1) : x[i] = u[i + L]
    BY <1>1, <2>3
  <2>5. SubSeq(x, c + 1, d - 1) = SubSeq(u, (c + 1) + L, (d - 1) + L)
    BY <1>1, <2>3, <2>4, SubSeqMoved
  <2>6. (c + 1) + L = (c + L) + 1 /\ (d - 1) + L = (d + L) - 1
    BY <1>1
  <2>7. part = SubSeq(u, (c + L) + 1, (d + L) - 1)
    BY <2>1, <2>5, <2>6
  <2> QED
    BY <1>1, <2>2, <2>7, SplitParts
<1>9. SplitAtCommas(u) = SplitAtCommas(t) \cup SplitAtCommas(x)
  BY <1>6, <1>7, <1>8
<1> QED
  BY <1>9 DEF u

-------------------------------------------------------------------------------
(* Joining *)

\* The parts of texts joined by commas are the parts of each of them.
LEMMA SplitJoin ==
    ASSUME NEW texts \in Seq(Text), texts # <<>>
    PROVE  /\ Join(texts) \in Text
           /\ \A part : part \in SplitAtCommas(Join(texts)) <=>
                 \E i \in 1..Len(texts) : part \in SplitAtCommas(texts[i])
<1> DEFINE n == Len(texts)
           pieces == [i \in DOMAIN texts |-> IF i = 1 THEN texts[i] ELSE <<Comma>> \o texts[i]]
<1>1. n \in Nat /\ n >= 1 /\ DOMAIN texts = 1..n /\ \A i \in 1..n : texts[i] \in Text
  OBVIOUS
<1>2. pieces \in Seq(Text) /\ Len(pieces) = n /\ <<Comma>> \in Text
  <2>1. <<Comma>> \in Text
    BY DEF Text, Character
  <2>2. \A i \in 1..n : pieces[i] \in Text
    BY <1>1, <2>1 DEF Text
  <2> QED
    BY <1>1, <2>1, <2>2
<1>3. PICK f \in [0..n -> Text] :
         f[0] = <<>> /\ f[n] = Join(texts) /\ \A i \in 1..n : f[i] = f[i - 1] \o pieces[i]
  <2>1. Join(texts) = FlattenSeq(pieces)
    BY DEF Join
  <2> HIDE DEF pieces, n
  <2>2. pieces \in Seq(Seq(Character)) /\ Len(pieces) = n
    BY <1>2 DEF Text
  <2>3. \E f \in [0..Len(pieces) -> Seq(Character)] :
           /\ f[0] = <<>>
           /\ \A i \in 1..Len(pieces) : f[i] = f[i - 1] \o pieces[i]
           /\ f[Len(pieces)] = FlattenSeq(pieces)
    BY <2>2, FlattenSeqRecursion, Zenon
  <2> QED
    BY <2>1, <2>2, <2>3, Zenon DEF Text
<1> DEFINE Good == {i \in 0..n : i = 0 \/ \A part : part \in SplitAtCommas(f[i]) <=>
                                  \E j \in 1..i : part \in SplitAtCommas(texts[j])}
<1>4. ASSUME NEW i \in 0..(n - 1), i \in Good PROVE i + 1 \in Good
  <2>1. i \in 0..n /\ i + 1 \in 1..n /\ (i + 1) - 1 = i /\ i \in Nat
    BY <1>1
  <2>2. f[i] \in Text /\ texts[i + 1] \in Text /\ f[i + 1] = f[i] \o pieces[i + 1]
    <3>1. f[i + 1] = f[(i + 1) - 1] \o pieces[i + 1] /\ f[(i + 1) - 1] = f[i]
      BY <1>3, <2>1
    <3> QED
      BY <1>1, <2>1, <3>1
  <2>3. CASE i = 0
    <3>1. f[i + 1] = texts[i + 1] /\ i + 1 = 1
      <4>1. f[i] = <<>> /\ pieces[i + 1] = texts[i + 1]
        BY <1>1, <1>3, <2>1, <2>3
      <4> QED
        BY <2>2, <2>3, <4>1 DEF Text
    <3>2. \A j \in Nat : j \in 1..(i + 1) <=> j = i + 1
      BY <3>1
    <3> QED
      BY <2>1, <3>1, <3>2
  <2>4. CASE i # 0
    <3>1. pieces[i + 1] = <<Comma>> \o texts[i + 1]
      BY <1>1, <2>1, <2>4
    <3>2. f[i + 1] = f[i] \o <<Comma>> \o texts[i + 1]
      <4>1. f[i] \o (<<Comma>> \o texts[i + 1]) = (f[i] \o <<Comma>>) \o texts[i + 1]
        <5>1. f[i] \in Text /\ <<Comma>> \in Text /\ texts[i + 1] \in Text
          BY <1>2, <2>2
        <5> QED
          BY <5>1, ConcatThree
      <4> QED
        BY <2>2, <3>1, <4>1
    <3>3. \A part : part \in SplitAtCommas(f[i + 1]) <=>
             part \in SplitAtCommas(f[i]) \/ part \in SplitAtCommas(texts[i + 1])
      BY <2>2, <3>2, SplitConcat, ZenonT(30)
    <3>4. \A j \in Nat : j \in 1..(i + 1) <=> j \in 1..i \/ j = i + 1
      BY <2>1
    <3>5. \A part : part \in SplitAtCommas(f[i]) <=>
                        \E j \in 1..i : part \in SplitAtCommas(texts[j])
      BY <1>4, <2>4
    <3> QED
      BY <2>1, <3>3, <3>4, <3>5
  <2> QED
    BY <2>3, <2>4
<1>5. n \in Good /\ n # 0
  <2>1. 0 \in Good
    BY <1>1
  <2> HIDE DEF Good, n
  <2>2. 0..n \subseteq Good
    BY <1>1, <1>4, <2>1, BoundedInduction
  <2> QED
    BY <1>1, <2>2
<1> QED
  BY <1>1, <1>3, <1>5

-------------------------------------------------------------------------------
(* The entries *)

\* TenantMapping of sso.go.
TenantMapping ==
    [orgId: OrgIds, Viewer: Seq(GroupNames), Editor: Seq(GroupNames), Admin: Seq(GroupNames)]

\* The names that Tenants have are texts.
LEMMA NamesAreText ==
    /\ GroupNames \subseteq Text /\ OrgIds \subseteq Text
    /\ \A role \in Abstract!Roles :
          RoleText[role] \in Text /\ Len(RoleText[role]) = 1 /\ RoleText[role][1] \in {"V", "E", "A"}
<1>1. Seq(STRING) \subseteq Text
  BY DEF Text, Character
<1>2. <<"V">> \in Text /\ <<"E">> \in Text /\ <<"A">> \in Text
  BY DEF Text, Character
<1> QED
  BY <1>1, <1>2, TextAssumption DEF Abstract!Roles, RoleText

\* An escaped text is a text.
LEMMA EscapedIsText ==
    ASSUME NEW s \in Text
    PROVE  escapeColon(s) \in Text
<1> DEFINE pieces == [i \in DOMAIN s |-> IF s[i] = ":" THEN <<"\\", ":">> ELSE <<s[i]>>]
<1>1. pieces \in Seq(Text)
  <2>1. <<"\\", ":">> \in Text
    BY DEF Text, Character
  <2>2. Len(s) \in Nat /\ DOMAIN s = 1..Len(s) /\ \A i \in 1..Len(s) : <<s[i]>> \in Text
    BY DEF Text
  <2>3. \A i \in 1..Len(s) : pieces[i] \in Text
    BY <2>1, <2>2
  <2>4. DOMAIN pieces = 1..Len(s) /\ pieces = [i \in 1..Len(s) |-> pieces[i]]
    BY <2>2
  <2> HIDE DEF pieces
  <2> QED
    BY <2>2, <2>3, <2>4
<1>2. escapeColon(s) = FlattenSeq(pieces)
  BY DEF escapeColon
<1> HIDE DEF pieces
<1> QED
  BY <1>1, <1>2, FlattenSeqRange DEF Text

\* An entry is a text.
LEMMA EntryIsText ==
    ASSUME NEW group \in GroupNames, NEW orgId \in OrgIds, NEW role \in Abstract!Roles
    PROVE  EntryText(group, orgId, role) \in Text
<1>1. <<":">> \in Text
  BY DEF Text, Character
<1>2. escapeColon(group) \in Text /\ orgId \in Text /\ RoleText[role] \in Text
  BY NamesAreText, EscapedIsText
<1> QED
  BY <1>1, <1>2 DEF EntryText, Text

\* The entries that are joined are those of every group of every role.
LEMMA AllEntries ==
    ASSUME NEW ts \in Seq(TenantMapping)
    PROVE  /\ AllEntryTexts(ts) \in Seq(Text)
           /\ \A text : text \in ToSet(AllEntryTexts(ts)) <=>
                \E i \in 1..Len(ts), role \in Abstract!Roles : \E group \in ToSet(ts[i][role]) :
                    text = EntryText(group, ts[i].orgId, role)
<1> DEFINE rows == [i \in DOMAIN ts |->
               EntryTexts(ts[i], "Viewer") \o EntryTexts(ts[i], "Editor")
                   \o EntryTexts(ts[i], "Admin")]
<1>1. ASSUME NEW t \in TenantMapping, NEW role \in Abstract!Roles
      PROVE  /\ t.orgId \in OrgIds /\ t[role] \in Seq(GroupNames)
             /\ EntryTexts(t, role) \in Seq(Text)
             /\ \A text : text \in ToSet(EntryTexts(t, role)) <=>
                  \E group \in ToSet(t[role]) : text = EntryText(group, t.orgId, role)
  <2>1. t.orgId \in OrgIds /\ t[role] \in Seq(GroupNames)
    BY DEF TenantMapping, Abstract!Roles
  <2>2. \A k \in 1..Len(t[role]) : EntryText(t[role][k], t.orgId, role) \in Text
    BY <2>1, EntryIsText
  <2> QED
    BY <2>1, <2>2 DEF EntryTexts, ToSet
<1>2. ASSUME NEW i \in 1..Len(ts)
      PROVE  /\ rows[i] \in Seq(Text)
             /\ \A text : text \in ToSet(rows[i]) <=>
                  \E role \in Abstract!Roles : \E group \in ToSet(ts[i][role]) :
                      text = EntryText(group, ts[i].orgId, role)
  <2>1. ts[i] \in TenantMapping
    OBVIOUS
  <2> DEFINE v == EntryTexts(ts[i], "Viewer")
             e == EntryTexts(ts[i], "Editor")
             a == EntryTexts(ts[i], "Admin")
  <2>2. /\ v \in Seq(Text) /\ e \in Seq(Text) /\ a \in Seq(Text)
        /\ \A text : /\ text \in ToSet(v) <=> \E group \in ToSet(ts[i]["Viewer"]) :
                            text = EntryText(group, ts[i].orgId, "Viewer")
                     /\ text \in ToSet(e) <=> \E group \in ToSet(ts[i]["Editor"]) :
                            text = EntryText(group, ts[i].orgId, "Editor")
                     /\ text \in ToSet(a) <=> \E group \in ToSet(ts[i]["Admin"]) :
                            text = EntryText(group, ts[i].orgId, "Admin")
    BY <1>1, <2>1 DEF Abstract!Roles
  <2>3. rows[i] = (v \o e) \o a
    BY SMTT(30)
  <2> HIDE DEF v, e, a, rows
  <2>4. rows[i] \in Seq(Text) /\
          \A text : text \in ToSet(rows[i]) <=> text \in ToSet(v) \/ text \in ToSet(e) \/ text \in ToSet(a)
    <3>1. v \o e \in Seq(Text) /\ (v \o e) \o a \in Seq(Text)
      BY <2>2
    <3>2. \A text : text \in ToSet(v \o e) <=> text \in ToSet(v) \/ text \in ToSet(e)
      BY <2>2, ConcatRange
    <3>3. \A text : text \in ToSet((v \o e) \o a) <=> text \in ToSet(v \o e) \/ text \in ToSet(a)
      BY <2>2, <3>1, ConcatRange
    <3> QED
      BY <2>3, <3>1, <3>2, <3>3
  <2> QED
    BY <2>2, <2>4 DEF Abstract!Roles
<1>3. rows \in Seq(Seq(Text)) /\ Len(rows) = Len(ts)
  <2>1. DOMAIN rows = 1..Len(ts) /\ Len(ts) \in Nat
    OBVIOUS
  <2>2. \A i \in 1..Len(ts) : rows[i] \in Seq(Text)
    BY <1>2
  <2>3. rows = [i \in 1..Len(ts) |-> rows[i]]
    BY <2>1
  <2> HIDE DEF rows
  <2> QED
    BY <2>1, <2>2, <2>3
<1>4. AllEntryTexts(ts) = FlattenSeq(rows)
  BY DEF AllEntryTexts
<1> HIDE DEF rows
<1>5. AllEntryTexts(ts) \in Seq(Text)
  BY <1>3, <1>4, FlattenSeqRange
<1>6. \A text : text \in ToSet(AllEntryTexts(ts)) <=> \E i \in 1..Len(ts) : text \in ToSet(rows[i])
  BY <1>3, <1>4, FlattenSeqRange
<1>7. ASSUME NEW text
      PROVE  text \in ToSet(AllEntryTexts(ts)) <=>
               \E i \in 1..Len(ts), role \in Abstract!Roles : \E group \in ToSet(ts[i][role]) :
                    text = EntryText(group, ts[i].orgId, role)
  <2>1. \A i \in 1..Len(ts) : text \in ToSet(rows[i]) <=>
           \E role \in Abstract!Roles : \E group \in ToSet(ts[i][role]) :
               text = EntryText(group, ts[i].orgId, role)
    BY <1>2
  <2> QED
    BY <1>6, <2>1
<1> QED
  BY <1>5, <1>7

\* The entries that OrgMapping makes of the Tenants.
LEMMA PublishedEntries ==
    ASSUME tenants \in Seq(TenantMapping), NEW e
    PROVE  e \in Published <=>
             \E i \in 1..Len(tenants), role \in Abstract!Roles : \E group \in ToSet(tenants[i][role]) :
                 e = [group |-> group, orgId |-> tenants[i].orgId, role |-> role]
<1> DEFINE Params(t) == [tenantId |-> "tenant", orgId |-> t.orgId, policy |-> "policy",
               viewerGroups |-> ToSet(t.Viewer), editorGroups |-> ToSet(t.Editor),
               adminGroups |-> ToSet(t.Admin)]
<1>1. ASSUME NEW t \in TenantMapping
      PROVE  e \in Abstract!EntriesOf(Params(t)) <=>
               \E role \in Abstract!Roles : \E group \in ToSet(t[role]) :
                   e = [group |-> group, orgId |-> t.orgId, role |-> role]
  <2>1. /\ t.orgId \in OrgIds /\ ToSet(t["Viewer"]) \subseteq GroupNames
        /\ ToSet(t["Editor"]) \subseteq GroupNames /\ ToSet(t["Admin"]) \subseteq GroupNames
    <3>1. /\ t.orgId \in OrgIds /\ t["Viewer"] \in Seq(GroupNames)
          /\ t["Editor"] \in Seq(GroupNames) /\ t["Admin"] \in Seq(GroupNames)
      BY DEF TenantMapping
    <3> QED
      BY <3>1 DEF ToSet
  <2>2. \A role \in Abstract!Roles :
           Abstract!GroupsOf(Params(t), role) = ToSet(t[role]) /\ ToSet(t[role]) \subseteq GroupNames
    BY <2>1 DEF Abstract!GroupsOf, Abstract!Roles
  <2>3. Params(t).orgId = t.orgId
    OBVIOUS
  <2> HIDE DEF Params
  <2>4. e \in Abstract!EntriesOf(Params(t)) <=>
          e \in Abstract!Entries /\ e.orgId = t.orgId /\ e.group \in ToSet(t[e.role])
    BY <2>2, <2>3 DEF Abstract!EntriesOf, Abstract!Entries
  <2>5. ASSUME NEW role \in Abstract!Roles, NEW group \in ToSet(t[role]),
               e = [group |-> group, orgId |-> t.orgId, role |-> role]
        PROVE  e \in Abstract!Entries /\ e.orgId = t.orgId /\ e.group \in ToSet(t[e.role])
    BY <2>1, <2>2, <2>5 DEF Abstract!Entries
  <2>6. ASSUME e \in Abstract!Entries, e.orgId = t.orgId, e.group \in ToSet(t[e.role])
        PROVE  \E role \in Abstract!Roles : \E group \in ToSet(t[role]) :
                   e = [group |-> group, orgId |-> t.orgId, role |-> role]
    <3>1. e.role \in Abstract!Roles /\ e = [group |-> e.group, orgId |-> t.orgId, role |-> e.role]
      BY <2>6 DEF Abstract!Entries
    <3> QED
      BY <2>6, <3>1
  <2> QED
    BY <2>4, <2>5, <2>6
<1>2. e \in Published <=> \E t \in ToSet(tenants) : e \in Abstract!EntriesOf(Params(t))
  BY DEF Published, Abstract!BuildOrgMapping
<1>3. \A t : t \in ToSet(tenants) <=> \E i \in 1..Len(tenants) : t = tenants[i]
  BY DEF ToSet
<1>4. \A i \in 1..Len(tenants) : tenants[i] \in TenantMapping
  OBVIOUS
<1> HIDE DEF Params
<1> QED
  BY <1>1, <1>2, <1>3, <1>4

\* The entries that are joined are the published ones.
LEMMA EntriesAreWritten ==
    ASSUME tenants \in Seq(TenantMapping)
    PROVE  \A text : text \in ToSet(AllEntryTexts(tenants)) <=>
                       \E e \in Published : text = EntryText(e.group, e.orgId, e.role)
<1> SUFFICES ASSUME NEW text
             PROVE  text \in ToSet(AllEntryTexts(tenants)) <=>
                       \E e \in Published : text = EntryText(e.group, e.orgId, e.role)
  OBVIOUS
<1>1. text \in ToSet(AllEntryTexts(tenants)) <=>
        \E i \in 1..Len(tenants), role \in Abstract!Roles : \E group \in ToSet(tenants[i][role]) :
            text = EntryText(group, tenants[i].orgId, role)
  BY AllEntries
<1>2. ASSUME NEW i \in 1..Len(tenants), NEW role \in Abstract!Roles,
             NEW group \in ToSet(tenants[i][role]), text = EntryText(group, tenants[i].orgId, role)
      PROVE  \E e \in Published : text = EntryText(e.group, e.orgId, e.role)
  <2> DEFINE e == [group |-> group, orgId |-> tenants[i].orgId, role |-> role]
  <2>1. e \in Published
    <3> HIDE DEF e
    <3> QED
      BY PublishedEntries DEF e
  <2>2. e.group = group /\ e.orgId = tenants[i].orgId /\ e.role = role
    OBVIOUS
  <2> HIDE DEF e
  <2> QED
    BY <1>2, <2>1, <2>2
<1>3. ASSUME NEW e \in Published, text = EntryText(e.group, e.orgId, e.role)
      PROVE  text \in ToSet(AllEntryTexts(tenants))
  <2>1. PICK i \in 1..Len(tenants), role \in Abstract!Roles :
           \E group \in ToSet(tenants[i][role]) :
               e = [group |-> group, orgId |-> tenants[i].orgId, role |-> role]
    BY PublishedEntries
  <2>2. PICK group \in ToSet(tenants[i][role]) :
           e = [group |-> group, orgId |-> tenants[i].orgId, role |-> role]
    BY <2>1
  <2>3. e.group = group /\ e.orgId = tenants[i].orgId /\ e.role = role
    BY <2>2
  <2>4. text = EntryText(group, tenants[i].orgId, role)
    BY <1>3, <2>3
  <2> QED
    BY <1>1, <2>4
<1> QED
  BY <1>1, <1>2, <1>3

\* The fields of an entry of a listed Tenant.
LEMMA PublishedAreEntries ==
    ASSUME tenants \in Seq(TenantMapping), NEW e \in Published
    PROVE  /\ e.group \in GroupNames /\ e.orgId \in OrgIds /\ e.role \in Abstract!Roles
           /\ e = [group |-> e.group, orgId |-> e.orgId, role |-> e.role]
BY DEF Published, Abstract!BuildOrgMapping, Abstract!EntriesOf, Abstract!Entries

-------------------------------------------------------------------------------
(* The drift check *)

\* What follows the last comma of a text, up to the end, is a part.
LEMMA LastPart ==
    ASSUME NEW u \in Text, NEW v \in Text, \A i \in DOMAIN v : v[i] # Comma
    PROVE  \E p \in Text : p \o v \in SplitAtCommas(u \o v)
<1> DEFINE commas == {i \in 1..Len(u) : u[i] = Comma}
<1>1. Len(u) \in Nat /\ Len(v) \in Nat /\ DOMAIN u = 1..Len(u) /\ DOMAIN v = 1..Len(v)
  BY DEF Text
<1>2. ASSUME NEW p \in Text, \A i \in 1..Len(p) : p[i] # Comma
      PROVE  p \o v \in SplitAtCommas(p \o v)
  <2>1. p \o v \in Text /\ \A i \in DOMAIN (p \o v) : (p \o v)[i] # Comma
    BY <1>1, <1>2 DEF Text
  <2> QED
    BY <2>1, SplitPlain
<1>3. CASE commas = {}
  BY <1>2, <1>3
<1>4. CASE commas # {}
  <2>1. PICK c \in commas : \A i \in commas : i <= c
    <3>1. commas \in SUBSET Nat /\ \A i \in commas : i <= Len(u)
      BY <1>1
    <3> HIDE DEF commas
    <3> QED
      BY <1>1, <1>4, <3>1, GreatestNumber
  <2> DEFINE t == SubSeq(u, 1, c - 1)
             p == SubSeq(u, c + 1, Len(u))
  <2>2. c \in 1..Len(u) /\ u[c] = Comma
    BY <2>1
  <2> HIDE DEF commas
  <2>0. c \in Nat /\ c >= 1 /\ c <= Len(u)
    BY <1>1, <2>2
  <2>3. /\ t \in Text /\ p \in Text /\ Len(t) = c - 1 /\ Len(p) = Len(u) - c
        /\ \A i \in 1..Len(p) : p[i] = u[c + i]
        /\ \A i \in 1..Len(t) : t[i] = u[i]
    <3>1. t \in Text /\ Len(t) = c - 1 /\ \A i \in 1..(c - 1) : t[i] = u[i]
      BY <1>1, <2>0 DEF Text
    <3>2. p \in Text /\ Len(p) = Len(u) - c /\ \A i \in 1..(Len(u) - c) : p[i] = u[c + i]
      BY <2>0, RestOfText
    <3> HIDE DEF t, p
    <3> QED
      BY <3>1, <3>2
  <2>4. u = (t \o <<Comma>>) \o p
    <3> HIDE DEF t, p
    <3> DEFINE w == (t \o <<Comma>>) \o p
    <3>1. /\ w \in Text /\ Len(w) = Len(u)
          /\ \A i \in 1..Len(t) : w[i] = t[i]
          /\ w[c] = Comma
          /\ \A i \in 1..Len(p) : w[c + i] = p[i]
      <4> DEFINE x == t \o <<Comma>>
      <4>1. /\ x \in Text /\ Len(x) = c
            /\ \A i \in 1..Len(t) : x[i] = t[i]
            /\ x[c] = Comma
        BY <2>0, <2>3 DEF Text, Character
      <4> HIDE DEF x
      <4>2. /\ x \o p \in Text /\ Len(x \o p) = c + Len(p)
            /\ \A i \in 1..c : (x \o p)[i] = x[i]
            /\ \A i \in 1..Len(p) : (x \o p)[c + i] = p[i]
        <5>1. x \in Text /\ p \in Text /\ Len(x) = c
          BY <2>3, <4>1
        <5>2. /\ x \o p \in Text /\ Len(x \o p) = Len(x) + Len(p)
              /\ \A i \in 1..Len(x) : (x \o p)[i] = x[i]
              /\ \A i \in 1..Len(p) : (x \o p)[Len(x) + i] = p[i]
          BY <5>1, ConcatText, Zenon
        <5> QED
          BY <5>1, <5>2, Zenon
      <4>3. c \in 1..c /\ \A i \in 1..Len(t) : i \in 1..c
        BY <2>0, <2>3
      <4>4. c + Len(p) = Len(u)
        BY <1>1, <2>0, <2>3
      <4>5. w = x \o p
        BY DEF x
      <4> HIDE DEF w
      <4> QED
        BY <4>1, <4>2, <4>3, <4>4, <4>5
    <3> HIDE DEF w
    <3>2. ASSUME NEW i \in 1..Len(u) PROVE w[i] = u[i]
      <4>1. CASE i < c
        BY <1>1, <2>2, <2>3, <3>1, <4>1
      <4>2. CASE i = c
        BY <2>2, <3>1, <4>2
      <4>3. CASE i > c
        <5>1. i - c \in 1..Len(p) /\ i = c + (i - c)
          BY <1>1, <2>0, <2>3, <4>3
        <5> QED
          BY <2>3, <3>1, <5>1, ZenonT(30)
      <4> QED
        BY <1>1, <2>0, <4>1, <4>2, <4>3
    <3>3. w = u
      BY <3>1, <3>2, SeqEqual DEF Text
    <3> QED
      BY <3>3 DEF w
  <2>5. \A i \in 1..Len(p) : p[i] # Comma
    <3> HIDE DEF p, t
    <3> SUFFICES ASSUME NEW i \in 1..Len(p), p[i] = Comma PROVE FALSE
      OBVIOUS
    <3>1. c + i \in commas /\ c + i > c
      <4>1. c + i \in 1..Len(u) /\ c + i > c
        <5>1. i \in Nat /\ i >= 1 /\ i <= Len(u) - c
          BY <1>1, <2>0, <2>3
        <5> QED
          BY <1>1, <2>0, <5>1
      <4>2. u[c + i] = Comma
        BY <2>3
      <4> QED
        BY <4>1, <4>2 DEF commas
    <3>2. ~(c + i <= c)
      BY <2>0
    <3> QED
      BY <2>1, <3>1, <3>2
  <2> HIDE DEF t, p
  <2>6. u \o v = (t \o <<Comma>>) \o (p \o v)
    <3>1. <<Comma>> \in Text /\ t \o <<Comma>> \in Text
      BY <2>3 DEF Text, Character
    <3> QED
      BY <2>3, <2>4, <3>1, ConcatAssociative, SMTT(30) DEF Text
  <2>7. p \o v \in Text /\ p \o v \in SplitAtCommas(p \o v)
    BY <1>2, <2>3, <2>5 DEF Text
  <2> QED
    BY <2>3, <2>6, <2>7, SplitConcat
<1> QED
  BY <1>3, <1>4

\* TrimSpace cuts off only spaces.
LEMMA TrimmedKeeps ==
    ASSUME NEW text \in Text, NEW infix \in Text, NEW k \in Nat,
           k >= 1, k + Len(infix) - 1 <= Len(text), Len(infix) >= 1,
           \A j \in 1..Len(infix) : text[k + j - 1] = infix[j],
           infix[1] # Space, infix[Len(infix)] # Space
    PROVE  HasInfix(TrimSpace(text), infix)
<1> DEFINE inner == {i \in DOMAIN text : text[i] # Space}
           last == k + Len(infix) - 1
<1>1. Len(text) \in Nat /\ Len(infix) \in Nat /\ DOMAIN text = 1..Len(text)
  BY DEF Text
<1>2. k \in inner /\ last \in inner /\ inner \subseteq 1..Len(text)
  <2>1. text[k] = infix[1] /\ text[last] = infix[Len(infix)]
    BY <1>1
  <2> QED
    BY <1>1, <2>1
<1>3. /\ Min(inner) \in inner /\ \A i \in inner : Min(inner) <= i
      /\ Max(inner) \in inner /\ \A i \in inner : Max(inner) >= i
  <2>1. inner \in SUBSET Nat /\ inner # {} /\ \A i \in inner : i <= Len(text)
    BY <1>1, <1>2, SMTT(30)
  <2> HIDE DEF inner
  <2>2. \E n \in inner : \A i \in inner : n <= i
    BY <2>1, LeastNumber
  <2>3. \E n \in inner : \A i \in inner : i <= n
    BY <1>1, <2>1, GreatestNumber
  <2>4. \E n \in inner : \A i \in inner : n >= i
    BY <2>1, <2>3
  <2> QED
    BY <2>2, <2>4 DEF Min, Max
<1> DEFINE m == Min(inner)
           n == Max(inner)
           trimmed == SubSeq(text, m, n)
<1>4. TrimSpace(text) = trimmed
  BY <1>2 DEF TrimSpace
<1>5. m \in 1..Len(text) /\ n \in 1..Len(text) /\ m <= k /\ last <= n
  BY <1>2, <1>3
<1> HIDE DEF m, n, inner
<1>6. /\ trimmed \in Text /\ Len(trimmed) = n - m + 1
      /\ \A j \in 1..(n - m + 1) : trimmed[j] = text[j + m - 1]
  BY <1>1, <1>5 DEF Text
<1> HIDE DEF trimmed
<1> DEFINE at == k - m + 1
<1>7. at \in 1..(Len(trimmed) - Len(infix) + 1) /\ at \in Nat /\ at + Len(infix) - 1 <= Len(trimmed)
  BY <1>1, <1>5, <1>6
<1>8. SubSeq(trimmed, at, at + Len(infix) - 1) = infix
  <2> DEFINE d == at - 1
  <2>1. d \in Nat /\ 1 + d = at /\ Len(infix) + d = at + Len(infix) - 1
    BY <1>1, <1>5
  <2>2. \A j \in 1..Len(infix) : infix[j] = trimmed[j + d]
    <3> SUFFICES ASSUME NEW j \in 1..Len(infix) PROVE infix[j] = trimmed[j + d]
      OBVIOUS
    <3>1. j + d \in 1..(n - m + 1) /\ (j + d) + m - 1 = k + j - 1
      BY <1>1, <1>5
    <3> QED
      BY <1>6, <3>1
  <2> HIDE DEF d, at
  <2>3. SubSeq(infix, 1, Len(infix)) = SubSeq(trimmed, 1 + d, Len(infix) + d)
    BY <1>1, <1>6, <1>7, <2>1, <2>2, SubSeqMoved
  <2>4. SubSeq(infix, 1, Len(infix)) = infix
    BY DEF Text
  <2> QED
    BY <2>1, <2>3, <2>4
<1> HIDE DEF at
<1> QED
  BY <1>4, <1>7, <1>8 DEF HasInfix

\* The parts of an entry, put together from the right.
LEMMA EntryParts ==
    ASSUME NEW group \in GroupNames, NEW orgId \in OrgIds, NEW role \in Abstract!Roles
    PROVE  EntryText(group, orgId, role) =
             escapeColon(group) \o ((<<":">> \o orgId \o <<":">>) \o RoleText[role])
<1> DEFINE u == escapeColon(group)
           r == RoleText[role]
           c == <<":">>
<1>1. u \in Text /\ orgId \in Text /\ r \in Text /\ c \in Text
  BY NamesAreText, EscapedIsText, OneCharacter DEF Character
<1>2. EntryText(group, orgId, role) = (((u \o c) \o orgId) \o c) \o r
  BY DEF EntryText
<1> HIDE DEF u, r, c
<1>3. (((u \o c) \o orgId) \o c) \o r = u \o (((c \o orgId) \o c) \o r)
  <2> DEFINE x == c \o orgId
             y == x \o c
  <2>1. (u \o c) \o orgId = u \o x
    BY <1>1, ConcatThree
  <2>2. x \in Text
    BY <1>1, ConcatText
  <2> HIDE DEF x
  <2>3. (u \o x) \o c = u \o y
    BY <1>1, <2>2, ConcatThree, SMTT(30)
  <2>4. y \in Text
    BY <1>1, <2>2, ConcatText
  <2> HIDE DEF y
  <2>5. (u \o y) \o r = u \o (y \o r)
    BY <1>1, <2>4, ConcatThree, SMTT(30)
  <2> QED
    BY <2>1, <2>3, <2>5 DEF x, y
<1> QED
  BY <1>2, <1>3 DEF u, r, c

\* No value of orgId has a comma in it.
NoCommaInOrgIds == \A orgId \in OrgIds : \A i \in DOMAIN orgId : orgId[i] # Comma

\* The drift check's search finds the org of every entry: the end of the entry, from
\* the last comma of the group's name on, is a part of the text and has the org.
LEMMA OrgIsFound ==
    ASSUME NoCommaInOrgIds, tenants \in Seq(TenantMapping), NEW e \in Published
    PROVE  OrgMappingContains(BuildOrgMapping(tenants), e.orgId)
<1> DEFINE text == EntryText(e.group, e.orgId, e.role)
           texts == AllEntryTexts(tenants)
           infix == <<":">> \o e.orgId \o <<":">>
           v == infix \o RoleText[e.role]
           u == escapeColon(e.group)
<1>1. e.group \in GroupNames /\ e.orgId \in OrgIds /\ e.role \in Abstract!Roles
  BY PublishedAreEntries
<1>2. texts \in Seq(Text) /\ texts # <<>> /\ \E i \in 1..Len(texts) : texts[i] = text
  <2>1. texts \in Seq(Text)
    BY AllEntries
  <2>2. text \in ToSet(texts)
    BY EntriesAreWritten
  <2> HIDE DEF texts
  <2>3. \E i \in 1..Len(texts) : texts[i] = text
    BY <2>1, <2>2 DEF ToSet
  <2> QED
    BY <2>1, <2>3
<1>3. text = u \o v /\ u \in Text
  <2>1. u \in Text
    BY <1>1, NamesAreText, EscapedIsText
  <2> QED
    BY <1>1, <2>1, EntryParts
<1>4. /\ infix \in Text /\ Len(infix) = Len(e.orgId) + 2 /\ Len(e.orgId) \in Nat
      /\ infix[1] = ":" /\ infix[Len(infix)] = ":"
      /\ \A i \in 1..Len(infix) : infix[i] # Comma
  <2> DEFINE o == e.orgId
             x == <<":">> \o o
  <2>1. o \in Text /\ ":" \in Character
    BY <1>1, NamesAreText DEF Character
  <2>2. \A i \in 1..Len(o) : o[i] # Comma
    BY <1>1, <2>1 DEF NoCommaInOrgIds, Text
  <2>0. infix = x \o <<":">>
    OBVIOUS
  <2> HIDE DEF o, infix
  <2>3. /\ x \in Text /\ Len(x) = Len(o) + 1 /\ Len(o) \in Nat
        /\ x[1] = ":" /\ \A i \in 1..Len(o) : x[1 + i] = o[i]
    BY <2>1, CharacterFirst
  <2> HIDE DEF x
  <2>4. /\ infix \in Text /\ Len(infix) = Len(x) + 1
        /\ \A i \in 1..Len(x) : infix[i] = x[i]
        /\ infix[Len(x) + 1] = ":"
    BY <2>0, <2>1, <2>3, CharacterLast
  <2>5. ASSUME NEW i \in 1..Len(infix) PROVE infix[i] # Comma
    <3>1. CASE i = 1
      <4>1. infix[1] = ":"
        BY <2>3, <2>4
      <4> QED
        BY <3>1, <4>1, SeparatorsAreSpecial
    <3>2. CASE i = Len(infix)
      BY <2>4, <3>2, SeparatorsAreSpecial
    <3>3. CASE i # 1 /\ i # Len(infix)
      <4>1. i - 1 \in 1..Len(o) /\ i = 1 + (i - 1) /\ i \in 1..Len(x)
        BY <2>3, <2>4, <3>3
      <4>2. infix[i] = o[i - 1]
        BY <2>3, <2>4, <4>1
      <4> QED
        BY <2>2, <4>1, <4>2
    <3> QED
      BY <3>1, <3>2, <3>3
  <2>6. Len(infix) = Len(o) + 2 /\ infix[1] = ":" /\ infix[Len(infix)] = ":"
    BY <2>3, <2>4
  <2> QED
    BY <2>3, <2>4, <2>5, <2>6 DEF o
<1>5. /\ v \in Text /\ Len(v) = Len(infix) + 1
      /\ \A i \in 1..Len(infix) : v[i] = infix[i]
      /\ \A i \in DOMAIN v : v[i] # Comma
  <2> DEFINE r == RoleText[e.role]
  <2>1. r \in Text /\ Len(r) = 1 /\ r[1] # Comma /\ 1 \in 1..1
    BY <1>1, NamesAreText, SeparatorsAreSpecial
  <2>0. v = infix \o r
    OBVIOUS
  <2> HIDE DEF r, infix, v
  <2>2. /\ v \in Text /\ Len(v) = Len(infix) + 1
        /\ \A i \in 1..Len(infix) : v[i] = infix[i]
        /\ v[Len(infix) + 1] = r[1]
    <3>1. infix \in Text
      BY <1>4
    <3>2. /\ infix \o r \in Text /\ Len(infix \o r) = Len(infix) + Len(r)
          /\ \A i \in 1..Len(infix) : (infix \o r)[i] = infix[i]
          /\ \A i \in 1..Len(r) : (infix \o r)[Len(infix) + i] = r[i]
      BY <2>1, <3>1, ConcatText
    <3> QED
      BY <2>0, <2>1, <3>2
  <2>3. DOMAIN v = 1..(Len(infix) + 1)
    BY <2>2 DEF Text
  <2>4. ASSUME NEW i \in 1..(Len(infix) + 1) PROVE v[i] # Comma
    <3>1. CASE i = Len(infix) + 1
      BY <2>1, <2>2, <3>1
    <3>2. CASE i # Len(infix) + 1
      <4>1. i \in 1..Len(infix)
        BY <1>4, <3>2
      <4> QED
        BY <1>4, <2>2, <4>1
    <3> QED
      BY <3>1, <3>2
  <2> QED
    BY <2>2, <2>3, <2>4
<1> HIDE DEF text, texts, infix, v, u
<1>6. PICK p \in Text : p \o v \in SplitAtCommas(text)
  BY <1>3, <1>5, LastPart
<1>7. p \o v \in SplitAtCommas(Join(texts))
  BY <1>2, <1>6, SplitJoin
<1>8. HasInfix(TrimSpace(p \o v), infix)
  <2> DEFINE k == Len(p) + 1
             w == p \o v
  <2>1. /\ w \in Text /\ Len(p) \in Nat /\ Len(w) = Len(p) + Len(infix) + 1
        /\ \A i \in 1..Len(v) : w[Len(p) + i] = v[i]
    <3>1. v \in Text
      BY <1>5
    <3>2. /\ p \o v \in Text /\ Len(p \o v) = Len(p) + Len(v) /\ Len(p) \in Nat
          /\ \A i \in 1..Len(v) : (p \o v)[Len(p) + i] = v[i]
      BY <3>1, ConcatText
    <3> QED
      BY <1>4, <1>5, <3>2
  <2> HIDE DEF w
  <2>0. Len(infix) \in Nat /\ Len(infix) >= 1
    BY <1>4
  <2>2. k \in Nat /\ k >= 1 /\ k + Len(infix) - 1 <= Len(w) /\ Len(infix) >= 1
    BY <2>0, <2>1
  <2>3. ASSUME NEW j \in 1..Len(infix) PROVE w[k + j - 1] = infix[j]
    <3>1. k + j - 1 = Len(p) + j /\ j \in 1..Len(v)
      BY <1>4, <1>5, <2>1
    <3> QED
      BY <1>5, <2>1, <3>1
  <2>4. infix[1] # Space /\ infix[Len(infix)] # Space
    BY <1>4, SeparatorsAreSpecial
  <2> HIDE DEF k
  <2>5. HasInfix(TrimSpace(w), infix)
    BY <1>4, <2>1, <2>2, <2>3, <2>4, TrimmedKeeps
  <2> QED
    BY <2>5 DEF w
<1> QED
  BY <1>7, <1>8 DEF OrgMappingContains, BuildOrgMapping, texts, infix

-------------------------------------------------------------------------------
(* Reading an entry *)

\* A backslash that is dropped because a colon follows it.
Escape(s, i) == s[i] = "\\" /\ i < Len(s) /\ s[i + 1] = ":"

\* A colon that no backslash comes before.
EndsField(s, i) == s[i] = ":" /\ (i = 1 \/ s[i - 1] # "\\")

\* What the reader has after a character, from what it had before it.
ReadNext(s, i, r) ==
    IF Escape(s, i) THEN r
    ELSE IF EndsField(s, i) THEN [fields |-> Append(r.fields, r.cur), cur |-> <<>>]
    ELSE [fields |-> r.fields, cur |-> Append(r.cur, s[i])]

\* splitUnescapedColon goes through a text one character at a time.
LEMMA ReadByRecursion ==
    ASSUME NEW s \in Text
    PROVE  \E read \in [0..Len(s) -> [fields: Seq(Text), cur: Text]] :
              /\ read[0] = [fields |-> <<>>, cur |-> <<>>]
              /\ \A i \in 1..Len(s) : read[i] = ReadNext(s, i, read[i - 1])
              /\ splitUnescapedColon(s) = Append(read[Len(s)].fields, read[Len(s)].cur)
<1> DEFINE n == Len(s)
           S == [fields: Seq(Text), cur: Text]
           base == [fields |-> <<>>, cur |-> <<>>]
           step == [i \in 1..n |-> [r \in S |-> ReadNext(s, i, r)]]
<1>1. n \in Nat /\ \A i \in 1..n : s[i] \in Character
  BY DEF Text
<1>2. base \in S
  BY DEF Text
<1>3. ASSUME NEW i \in 1..n, NEW r \in S PROVE ReadNext(s, i, r) \in S
  <2>1. s[i] \in Character /\ <<>> \in Text
    BY <1>1 DEF Text
  <2>2. r.fields \in Seq(Text) /\ r.cur \in Text
    OBVIOUS
  <2>3. Append(r.fields, r.cur) \in Seq(Text)
    BY <2>2
  <2>4. Append(r.cur, s[i]) \in Text
    BY <2>1, <2>2 DEF Text
  <2> QED
    BY <2>1, <2>2, <2>3, <2>4 DEF ReadNext
<1>4. step \in [1..n -> [S -> S]]
  BY <1>3
<1>5. PICK read \in [0..n -> S] : Follows(read, n, base, step)
  <2> HIDE DEF n, S, base, step
  <2> QED
    BY <1>1, <1>2, <1>4, RecursionExists
<1>6. read[0] = base /\ \A i \in 1..n : i - 1 \in 0..n /\ read[i] = ReadNext(s, i, read[i - 1])
  <2> SUFFICES ASSUME NEW i \in 1..n
               PROVE  read[0] = base /\ i - 1 \in 0..n /\ read[i] = ReadNext(s, i, read[i - 1])
    BY <1>5 DEF Follows
  <2>1. i - 1 \in 0..n
    BY <1>1
  <2>2. read[i - 1] \in S
    BY <2>1
  <2>3. step[i][read[i - 1]] = ReadNext(s, i, read[i - 1])
    BY <2>2
  <2> QED
    BY <1>5, <2>1, <2>3 DEF Follows
<1> HIDE DEF n, S
<1> DEFINE Good(g) == g = [i \in 0..n |-> IF i = 0 THEN base ELSE ReadNext(s, i, g[i - 1])]
           h == CHOOSE g : Good(g)
<1>7. Good(read)
  BY <1>6
<1>8. Good(h)
  <2> HIDE DEF Good
  <2> QED
    BY <1>7
<1>9. splitUnescapedColon(s) = Append(h[n].fields, h[n].cur)
  BY DEF splitUnescapedColon, ReadNext, Escape, EndsField, n
<1>10. \A i \in 0..n : h[i] = IF i = 0 THEN base ELSE ReadNext(s, i, h[i - 1])
  <2> HIDE DEF h
  <2> QED
    BY <1>8
<1> HIDE DEF h, base
<1> DEFINE Same == {i \in 0..n : h[i] = read[i]}
<1>11. 0 \in Same
  BY <1>1, <1>6, <1>10
<1>12. ASSUME NEW i \in 0..(n - 1), i \in Same PROVE i + 1 \in Same
  <2>1. i + 1 \in 1..n /\ i + 1 \in 0..n /\ (i + 1) - 1 = i /\ i + 1 # 0
    BY <1>1
  <2>2. h[i + 1] = ReadNext(s, i + 1, h[i])
    BY <1>10, <2>1
  <2>3. read[i + 1] = ReadNext(s, i + 1, read[i])
    BY <1>6, <2>1
  <2> QED
    BY <1>12, <2>1, <2>2, <2>3
<1>13. h[n] = read[n]
  <2> HIDE DEF Same
  <2>1. 0..n \subseteq Same
    BY <1>1, <1>11, <1>12, BoundedInduction
  <2>2. n \in 0..n
    BY <1>1
  <2> QED
    BY <2>1, <2>2 DEF Same
<1> QED
  BY <1>6, <1>9, <1>13 DEF n, S, base

\* Reading a text with the reader's state after every character.
Reads(s, read) ==
    /\ read \in [0..Len(s) -> [fields: Seq(Text), cur: Text]]
    /\ read[0] = [fields |-> <<>>, cur |-> <<>>]
    /\ \A i \in 1..Len(s) : read[i] = ReadNext(s, i, read[i - 1])

\* The colon and the backslash are two characters, and no names of roles.
LEMMA CharactersDiffer ==
    /\ ":" # "\\" /\ ":" # "V" /\ ":" # "E" /\ ":" # "A"
    /\ "\\" # "V" /\ "\\" # "E" /\ "\\" # "A"
OBVIOUS

\* Where the characters of a text are in the escaped text.
EscapedAt(g, pos) ==
    /\ pos \in [0..Len(g) -> Nat]
    /\ pos[0] = 0
    /\ pos[Len(g)] = Len(escapeColon(g))
    /\ \A k \in 1..Len(g) :
         /\ pos[k] <= Len(escapeColon(g))
         /\ g[k] = ":" => /\ pos[k] = pos[k - 1] + 2
                          /\ escapeColon(g)[pos[k - 1] + 1] = "\\"
                          /\ escapeColon(g)[pos[k - 1] + 2] = ":"
         /\ g[k] # ":" => /\ pos[k] = pos[k - 1] + 1
                          /\ escapeColon(g)[pos[k - 1] + 1] = g[k]

\* Escaping keeps the characters of a text in order, a backslash before each colon.
LEMMA EscapedPositions ==
    ASSUME NEW g \in Text
    PROVE  \E pos : EscapedAt(g, pos)
<1> DEFINE n == Len(g)
           pieces == [i \in DOMAIN g |-> IF g[i] = ":" THEN <<"\\", ":">> ELSE <<g[i]>>]
<1>1. n \in Nat /\ DOMAIN g = 1..n /\ \A i \in 1..n : <<g[i]>> \in Text
  BY DEF Text
<1>2. pieces \in Seq(Text) /\ Len(pieces) = n
  <2>1. <<"\\", ":">> \in Text
    BY DEF Text, Character
  <2>2. \A i \in 1..n : pieces[i] \in Text
    BY <1>1, <2>1
  <2>3. DOMAIN pieces = 1..n /\ pieces = [i \in 1..n |-> pieces[i]]
    BY <1>1
  <2> HIDE DEF pieces, n
  <2> QED
    BY <1>1, <2>2, <2>3
<1>3. escapeColon(g) = FlattenSeq(pieces)
  BY DEF escapeColon
<1>4. \A k \in 1..n : pieces[k] = IF g[k] = ":" THEN <<"\\", ":">> ELSE <<g[k]>>
  BY <1>1
<1> HIDE DEF pieces, n
<1>5. PICK pos : Positions(pieces, pos)
  BY <1>2, FlattenSeqPositions DEF Text
<1>0. /\ pos \in [0..n -> Nat]
      /\ pos[0] = 0
      /\ pos[n] = Len(FlattenSeq(pieces))
      /\ \A k \in 1..n :
           /\ pos[k] = pos[k - 1] + Len(pieces[k])
           /\ pos[k] <= Len(FlattenSeq(pieces))
           /\ \A j \in 1..Len(pieces[k]) : FlattenSeq(pieces)[pos[k - 1] + j] = pieces[k][j]
  BY <1>2, <1>5 DEF Positions
<1>6. ASSUME NEW k \in 1..n, g[k] = ":"
      PROVE  /\ pos[k] = pos[k - 1] + 2
             /\ escapeColon(g)[pos[k - 1] + 1] = "\\"
             /\ escapeColon(g)[pos[k - 1] + 2] = ":"
  <2>1. pieces[k] = <<"\\", ":">>
    BY <1>4, <1>6
  <2>2. Len(pieces[k]) = 2 /\ pieces[k][1] = "\\" /\ pieces[k][2] = ":"
    BY <2>1
  <2>3. 1 \in 1..2 /\ 2 \in 1..2
    OBVIOUS
  <2> QED
    BY <1>0, <1>3, <2>2, <2>3
<1>7. ASSUME NEW k \in 1..n, g[k] # ":"
      PROVE  pos[k] = pos[k - 1] + 1 /\ escapeColon(g)[pos[k - 1] + 1] = g[k]
  <2>1. pieces[k] = <<g[k]>>
    BY <1>4, <1>7
  <2>2. Len(pieces[k]) = 1 /\ pieces[k][1] = g[k]
    BY <2>1
  <2>3. 1 \in 1..1
    OBVIOUS
  <2> QED
    BY <1>0, <1>3, <2>2, <2>3
<1>8. EscapedAt(g, pos)
  BY <1>0, <1>3, <1>6, <1>7 DEF n, EscapedAt
<1> QED
  BY <1>8

\* One more character of the front of a text.
LEMMA AppendSubSeq ==
    ASSUME NEW s \in Text, NEW k \in Nat, k + 1 <= Len(s)
    PROVE  Append(SubSeq(s, 1, k), s[k + 1]) = SubSeq(s, 1, k + 1)
<1>1. Len(s) \in Nat
  BY DEF Text
<1>2. SubSeq(s, 1, k) = [i \in 1..k |-> s[i]]
  BY <1>1 DEF Text
<1>3. SubSeq(s, 1, k + 1) = [i \in 1..(k + 1) |-> s[i]]
  BY <1>1 DEF Text
<1> DEFINE a == [i \in 1..k |-> s[i]]
           b == [i \in 1..(k + 1) |-> s[i]]
<1>4. a \in Text /\ Len(a) = k /\ b \in Text /\ Len(b) = k + 1 /\ s[k + 1] \in Character
  BY <1>1 DEF Text
<1>5. /\ Append(a, s[k + 1]) \in Text /\ Len(Append(a, s[k + 1])) = k + 1
      /\ \A i \in 1..k : Append(a, s[k + 1])[i] = s[i]
      /\ Append(a, s[k + 1])[k + 1] = s[k + 1]
  <2>1. \A i \in 1..k : a[i] = s[i]
    OBVIOUS
  <2> HIDE DEF a
  <2> QED
    BY <1>4, <2>1 DEF Text
<1>6. \A i \in 1..(k + 1) : b[i] = s[i]
  OBVIOUS
<1> DEFINE c == Append(a, s[k + 1])
<1>7. c = b
  <2> HIDE DEF a, b
  <2>1. \A i \in 1..(k + 1) : i \in 1..k \/ i = k + 1
    OBVIOUS
  <2>2. c \in Text /\ Len(c) = k + 1 /\ \A i \in 1..(k + 1) : c[i] = b[i]
    BY <1>5, <1>6, <2>1
  <2> HIDE DEF c
  <2> QED
    BY <1>4, <2>2, SeqEqual DEF Text
<1> QED
  BY <1>2, <1>3, <1>7

\* A text that begins with an escaped name and the colon after it.
BeginsWith(e, g) ==
    /\ Len(escapeColon(g)) + 1 <= Len(e)
    /\ \A i \in 1..Len(escapeColon(g)) : e[i] = escapeColon(g)[i]
    /\ e[Len(escapeColon(g)) + 1] = ":"

\* Reading an escaped name, up to the separator after it, gives back the name, unless
\* a backslash at its end escapes the separator.
LEMMA ReadEscaped ==
    ASSUME NEW g \in Text, g = <<>> \/ g[Len(g)] # "\\", NEW e \in Text, BeginsWith(e, g),
           NEW read, Reads(e, read)
    PROVE  read[Len(escapeColon(g)) + 1] = [fields |-> <<g>>, cur |-> <<>>]
<1> DEFINE n == Len(g)
           L == Len(escapeColon(g))
<1>1. n \in Nat /\ L \in Nat /\ Len(e) \in Nat /\ L + 1 <= Len(e) /\ e[L + 1] = ":"
  <2>1. escapeColon(g) \in Text
    BY EscapedIsText
  <2> QED
    BY <2>1 DEF Text, BeginsWith
<1>2. PICK pos : EscapedAt(g, pos)
  BY EscapedPositions
<1>3. /\ \A k \in 0..n : pos[k] \in Nat /\ pos[k] <= L
      /\ pos[0] = 0 /\ pos[n] = L
  <2>1. \A k \in 0..n : k = 0 \/ k \in 1..n
    BY <1>1
  <2> QED
    BY <1>1, <1>2, <2>1 DEF EscapedAt
<1> HIDE DEF n, L
<1>4. ASSUME NEW k \in 0..(n - 1)
      PROVE  /\ k + 1 \in 1..n /\ k + 1 \in 0..n /\ k \in 0..n
             /\ pos[k] + 1 \in 1..L /\ pos[k + 1] <= L
             /\ g[k + 1] = ":" => /\ pos[k + 1] = pos[k] + 2
                                  /\ e[pos[k] + 1] = "\\" /\ e[pos[k] + 2] = ":"
             /\ g[k + 1] # ":" => pos[k + 1] = pos[k] + 1 /\ e[pos[k] + 1] = g[k + 1]
             /\ e[pos[k] + 1] # ":"
  <2>1. k + 1 \in 1..n /\ (k + 1) - 1 = k /\ k \in 0..n /\ k + 1 \in 0..n
    BY <1>1
  <2>2. /\ g[k + 1] = ":" => /\ pos[k + 1] = pos[k] + 2
                             /\ escapeColon(g)[pos[k] + 1] = "\\"
                             /\ escapeColon(g)[pos[k] + 2] = ":"
        /\ g[k + 1] # ":" => /\ pos[k + 1] = pos[k] + 1
                             /\ escapeColon(g)[pos[k] + 1] = g[k + 1]
    <3> DEFINE p == (k + 1) - 1
    <3>1. /\ g[k + 1] = ":" => /\ pos[k + 1] = pos[p] + 2
                               /\ escapeColon(g)[pos[p] + 1] = "\\"
                               /\ escapeColon(g)[pos[p] + 2] = ":"
          /\ g[k + 1] # ":" => /\ pos[k + 1] = pos[p] + 1
                               /\ escapeColon(g)[pos[p] + 1] = g[k + 1]
      BY <1>2, <2>1 DEF EscapedAt, n
    <3>2. p = k
      BY <2>1
    <3> HIDE DEF p
    <3> QED
      BY <3>1, <3>2
  <2>3. pos[k] \in Nat /\ pos[k + 1] \in Nat /\ pos[k + 1] <= L
    BY <1>3, <2>1
  <2>4. pos[k] + 1 \in 1..L /\ (g[k + 1] = ":" => pos[k] + 2 \in 1..L)
    <3>1. pos[k + 1] = pos[k] + 1 \/ pos[k + 1] = pos[k] + 2
      BY <2>2
    <3> QED
      BY <1>1, <2>2, <2>3, <3>1, SMTT(30)
  <2>5. \A i \in 1..L : e[i] = escapeColon(g)[i]
    BY DEF BeginsWith, L
  <2>6. /\ g[k + 1] = ":" => e[pos[k] + 1] = "\\" /\ e[pos[k] + 2] = ":"
        /\ g[k + 1] # ":" => e[pos[k] + 1] = g[k + 1]
    BY <2>2, <2>4, <2>5
  <2>7. e[pos[k] + 1] # ":"
    BY <2>6, CharactersDiffer
  <2> QED
    BY <2>1, <2>2, <2>3, <2>4, <2>6, <2>7
<1> DEFINE Good == {k \in 0..n : read[pos[k]] = [fields |-> <<>>, cur |-> SubSeq(g, 1, k)]}
<1>5. 0 \in Good
  <2>1. SubSeq(g, 1, 0) = <<>>
    BY DEF Text
  <2>2. read[0] = [fields |-> <<>>, cur |-> <<>>]
    BY DEF Reads
  <2> QED
    BY <1>1, <1>3, <2>1, <2>2
<1>6. ASSUME NEW k \in 0..(n - 1), k \in Good PROVE k + 1 \in Good
  <2> DEFINE p == pos[k]
             before == SubSeq(g, 1, k)
  <2>1. /\ p \in Nat /\ p + 1 \in 1..Len(e) /\ (p + 1) - 1 = p /\ (p + 2) - 1 = p + 1
        /\ k + 1 \in 0..n /\ p + 1 <= L /\ p + 1 < Len(e)
    <3>1. p \in Nat /\ p + 1 \in 1..L /\ k + 1 \in 0..n
      BY <1>3, <1>4
    <3> QED
      BY <1>1, <3>1
  <2>2. read[p] = [fields |-> <<>>, cur |-> before]
    BY <1>6
  <2>3. Append(before, g[k + 1]) = SubSeq(g, 1, k + 1)
    <3>1. k \in Nat /\ k + 1 <= Len(g)
      BY <1>1 DEF n
    <3> QED
      BY <3>1, AppendSubSeq
  <2> HIDE DEF p, before, Good
  <2>4. ASSUME NEW r, r = [fields |-> <<>>, cur |-> before]
        PROVE  [fields |-> r.fields, cur |-> Append(r.cur, g[k + 1])] =
                   [fields |-> <<>>, cur |-> SubSeq(g, 1, k + 1)]
    BY <2>3, <2>4
  <2>5. CASE g[k + 1] = ":"
    <3>1. /\ pos[k + 1] = p + 2 /\ p + 2 <= L /\ e[p + 1] = "\\" /\ e[p + 2] = ":"
      BY <1>4, <2>5 DEF p
    <3>2. Escape(e, p + 1)
      <4>1. (p + 1) + 1 = p + 2
        BY <2>1
      <4> QED
        BY <2>1, <3>1, <4>1 DEF Escape
    <3>3. read[p + 1] = read[p]
      <4>1. read[p + 1] = ReadNext(e, p + 1, read[(p + 1) - 1])
        BY <2>1 DEF Reads
      <4> QED
        BY <2>1, <3>2, <4>1 DEF ReadNext
    <3>4. p + 2 \in 1..Len(e) /\ p + 2 # 1
      BY <1>1, <2>1, <3>1
    <3>5. ~Escape(e, p + 2) /\ ~EndsField(e, p + 2)
      BY <2>1, <3>1, <3>4, CharactersDiffer DEF Escape, EndsField
    <3>6. read[p + 2] = [fields |-> read[p + 1].fields, cur |-> Append(read[p + 1].cur, e[p + 2])]
      <4>1. read[p + 2] = ReadNext(e, p + 2, read[(p + 2) - 1])
        BY <3>4 DEF Reads
      <4> QED
        BY <2>1, <3>5, <4>1 DEF ReadNext
    <3>7. read[p + 2] = [fields |-> <<>>, cur |-> SubSeq(g, 1, k + 1)]
      BY <2>2, <2>4, <2>5, <3>1, <3>3, <3>6
    <3> QED
      BY <2>1, <3>1, <3>7 DEF Good
  <2>6. CASE g[k + 1] # ":"
    <3>1. pos[k + 1] = p + 1 /\ e[p + 1] = g[k + 1]
      BY <1>4, <2>6 DEF p
    <3>2. ~EndsField(e, p + 1)
      BY <2>6, <3>1 DEF EndsField
    <3>3. ~Escape(e, p + 1)
      <4> SUFFICES ASSUME g[k + 1] = "\\", e[(p + 1) + 1] = ":" PROVE FALSE
        BY <3>1 DEF Escape
      <4>1. CASE k + 1 = n
        <5>1. g # <<>> /\ g[n] = "\\"
          BY <1>1, <4>1 DEF n
        <5> QED
          BY <5>1 DEF n
      <4>2. CASE k + 1 # n
        <5>1. k + 1 \in 0..(n - 1)
          BY <1>1, <2>1, <4>2
        <5>2. e[pos[k + 1] + 1] # ":"
          BY <1>4, <5>1
        <5> QED
          BY <3>1, <5>2
      <4> QED
        BY <4>1, <4>2
    <3>4. read[p + 1] = [fields |-> read[p].fields, cur |-> Append(read[p].cur, e[p + 1])]
      <4>1. read[p + 1] = ReadNext(e, p + 1, read[(p + 1) - 1])
        BY <2>1 DEF Reads
      <4> QED
        BY <2>1, <3>2, <3>3, <4>1 DEF ReadNext
    <3>5. read[p + 1] = [fields |-> <<>>, cur |-> SubSeq(g, 1, k + 1)]
      BY <2>2, <2>4, <3>1, <3>4
    <3> QED
      BY <2>1, <3>1, <3>5 DEF Good
  <2> QED
    BY <2>5, <2>6
<1>7. read[L] = [fields |-> <<>>, cur |-> g]
  <2>1. SubSeq(g, 1, n) = g
    BY DEF Text, n
  <2> HIDE DEF Good
  <2>2. 0..n \subseteq Good
    BY <1>1, <1>5, <1>6, BoundedInduction
  <2>3. n \in Good
    BY <1>1, <2>2
  <2> QED
    BY <1>3, <2>1, <2>3 DEF Good
<1>8. L = 0 \/ e[L] # "\\"
  <2> SUFFICES ASSUME L # 0 PROVE e[L] # "\\"
    OBVIOUS
  <2>1. n # 0 /\ n - 1 \in 0..(n - 1) /\ (n - 1) + 1 = n
    <3>1. n # 0
      BY <1>3
    <3> QED
      BY <1>1, <3>1
  <2> DEFINE k == n - 1
  <2>2. k \in 0..(n - 1) /\ k + 1 = n /\ pos[k] \in Nat
    BY <1>1, <1>3, <2>1
  <2> HIDE DEF k
  <2>3. CASE g[n] = ":"
    <3>1. pos[k + 1] = pos[k] + 2 /\ e[pos[k] + 2] = ":"
      BY <1>4, <2>2, <2>3
    <3> QED
      BY <1>3, <2>2, <3>1, CharactersDiffer
  <2>4. CASE g[n] # ":"
    <3>1. pos[k + 1] = pos[k] + 1 /\ e[pos[k] + 1] = g[k + 1]
      BY <1>4, <2>2, <2>4
    <3>2. g # <<>>
      BY <2>1 DEF n
    <3> QED
      BY <1>3, <2>2, <3>1, <3>2 DEF n
  <2> QED
    BY <2>3, <2>4
<1>9. ~Escape(e, L + 1) /\ EndsField(e, L + 1)
  <2>1. (L + 1) - 1 = L /\ (L = 0 => L + 1 = 1)
    BY <1>1
  <2> QED
    BY <1>1, <1>8, <2>1, CharactersDiffer DEF Escape, EndsField
<1>10. read[L + 1] = [fields |-> Append(<<>>, g), cur |-> <<>>]
  <2>1. L + 1 \in 1..Len(e) /\ (L + 1) - 1 = L
    BY <1>1
  <2>2. read[L + 1] = ReadNext(e, L + 1, read[(L + 1) - 1])
    BY <2>1 DEF Reads
  <2> QED
    BY <1>7, <1>9, <2>1, <2>2 DEF ReadNext
<1>11. Append(<<>>, g) = <<g>>
  OBVIOUS
<1> QED
  BY <1>10, <1>11 DEF L

\* Where the parts of an entry are.
EntryAt(e, L, m, group, orgId, role) ==
    /\ e \in Text /\ L \in Nat /\ m \in Nat /\ Len(e) = L + m + 3
    /\ BeginsWith(e, group)
    /\ \A j \in 1..m : e[(L + 1) + j] = orgId[j]
    /\ e[L + m + 2] = ":"
    /\ e[L + m + 3] = RoleText[role][1]

\* Where the fields of an entry are.
LEMMA EntryLayout ==
    ASSUME NEW group \in GroupNames, NEW orgId \in OrgIds, NEW role \in Abstract!Roles,
           NEW e, e = EntryText(group, orgId, role),
           NEW L, L = Len(escapeColon(group)), NEW m, m = Len(orgId)
    PROVE  EntryAt(e, L, m, group, orgId, role)
<1> DEFINE u == escapeColon(group)
           a == u \o <<":">>
           b == a \o orgId
           c == b \o <<":">>
           r == RoleText[role]
<1>1. u \in Text /\ orgId \in Text /\ r \in Text /\ Len(r) = 1 /\ ":" \in Character
  BY NamesAreText, EscapedIsText DEF Character
<1>2. e = c \o r
  BY DEF EntryText
<1>3. L = Len(u)
  OBVIOUS
<1> HIDE DEF u, r
<1>4. /\ a \in Text /\ Len(a) = L + 1 /\ L \in Nat
      /\ \A i \in 1..L : a[i] = u[i]
      /\ a[L + 1] = ":"
  BY <1>1, <1>3, CharacterLast
<1> HIDE DEF a
<1>5. /\ b \in Text /\ Len(b) = (L + 1) + m /\ m \in Nat
      /\ \A i \in 1..(L + 1) : b[i] = a[i]
      /\ \A j \in 1..m : b[(L + 1) + j] = orgId[j]
  <2>1. /\ a \o orgId \in Text /\ Len(a \o orgId) = Len(a) + Len(orgId) /\ Len(orgId) \in Nat
        /\ \A i \in 1..Len(a) : (a \o orgId)[i] = a[i]
        /\ \A j \in 1..Len(orgId) : (a \o orgId)[Len(a) + j] = orgId[j]
    <3>1. a \in Text /\ orgId \in Text
      BY <1>1, <1>4
    <3> QED
      BY <3>1, ConcatText
  <2> QED
    BY <1>4, <2>1
<1> HIDE DEF b
<1>6. /\ c \in Text /\ Len(c) = Len(b) + 1
      /\ \A i \in 1..Len(b) : c[i] = b[i]
      /\ c[Len(b) + 1] = ":"
  <2>1. b \in Text /\ ":" \in Character
    BY <1>1, <1>5
  <2> QED
    BY <2>1, CharacterLast
<1> HIDE DEF c
<1>7. /\ e \in Text /\ Len(e) = Len(c) + 1
      /\ \A i \in 1..Len(c) : e[i] = c[i]
      /\ e[Len(c) + 1] = r[1]
  <2>1. c \in Text /\ r \in Text
    BY <1>1, <1>6
  <2>2. /\ c \o r \in Text /\ Len(c \o r) = Len(c) + Len(r)
        /\ \A i \in 1..Len(c) : (c \o r)[i] = c[i]
        /\ \A j \in 1..Len(r) : (c \o r)[Len(c) + j] = r[j]
    BY <2>1, ConcatText
  <2>3. 1 \in 1..1
    OBVIOUS
  <2> QED
    BY <1>1, <1>2, <2>2, <2>3
<1>8. Len(b) = L + m + 1 /\ Len(c) = L + m + 2 /\ Len(e) = L + m + 3
  BY <1>4, <1>5, <1>6, <1>7
<1>9. \A i \in 1..(L + m + 1) : e[i] = b[i]
  BY <1>4, <1>5, <1>6, <1>7, <1>8
<1>10. \A j \in 1..m : e[(L + 1) + j] = orgId[j]
  <2> SUFFICES ASSUME NEW j \in 1..m PROVE e[(L + 1) + j] = orgId[j]
    OBVIOUS
  <2>1. (L + 1) + j \in 1..(L + m + 1)
    BY <1>4, <1>5
  <2> QED
    BY <1>5, <1>9, <2>1
<1>11. (\A i \in 1..L : e[i] = u[i]) /\ e[L + 1] = ":"
  <2>1. \A i \in 1..(L + 1) : i \in 1..(L + m + 1) /\ (i \in 1..L \/ i = L + 1)
    BY <1>4, <1>5
  <2>2. \A i \in 1..(L + 1) : e[i] = a[i]
    BY <1>5, <1>9, <2>1
  <2>3. L + 1 \in 1..(L + 1) /\ \A i \in 1..L : i \in 1..(L + 1)
    BY <1>4
  <2> QED
    BY <1>4, <2>2, <2>3
<1>12. BeginsWith(e, group)
  <2>1. L + 1 <= Len(e)
    BY <1>4, <1>5, <1>8
  <2> QED
    BY <1>3, <1>11, <2>1 DEF BeginsWith, u
<1>13. e[L + m + 2] = ":" /\ e[L + m + 3] = RoleText[role][1]
  <2>1. L + m + 2 \in 1..Len(c) /\ Len(b) + 1 = L + m + 2 /\ Len(c) + 1 = L + m + 3
    BY <1>4, <1>5, <1>8
  <2> QED
    BY <1>6, <1>7, <2>1 DEF r
<1> QED
  BY <1>4, <1>5, <1>7, <1>8, <1>10, <1>12, <1>13 DEF EntryAt

\* Reading an entry gives back its group, its org and its role.
LEMMA EntryIsReadBack ==
    ASSUME ReadableNames,
           NEW group \in GroupNames, NEW orgId \in OrgIds, NEW role \in Abstract!Roles
    PROVE  splitUnescapedColon(EntryText(group, orgId, role)) = <<group, orgId, RoleText[role]>>
<1> DEFINE e == EntryText(group, orgId, role)
           L == Len(escapeColon(group))
           m == Len(orgId)
           q == L + m + 2
           r == RoleText[role]
<1>1. /\ e \in Text /\ L \in Nat /\ m \in Nat /\ Len(e) = L + m + 3
      /\ BeginsWith(e, group)
      /\ \A j \in 1..m : e[(L + 1) + j] = orgId[j]
      /\ e[L + m + 2] = ":"
      /\ e[L + m + 3] = r[1]
  <2>1. EntryAt(e, L, m, group, orgId, role)
    BY EntryLayout
  <2> HIDE DEF e, L, m
  <2> QED
    BY <2>1 DEF EntryAt
<1>2. /\ group \in Text /\ orgId \in Text
      /\ group = <<>> \/ group[Len(group)] # "\\"
      /\ \A j \in 1..m : orgId[j] # ":"
      /\ m = 0 \/ orgId[m] # "\\"
  <2>1. group \in Text /\ orgId \in Text
    BY NamesAreText
  <2>2. DOMAIN orgId = 1..m /\ (m # 0 => orgId # <<>>)
    BY <2>1 DEF Text
  <2> QED
    BY <2>1, <2>2 DEF ReadableNames
<1>3. r \in Text /\ r[1] \in {"V", "E", "A"} /\ r = <<r[1]>>
  <2>1. r \in Text /\ r[1] \in {"V", "E", "A"} /\ Len(r) = 1
    BY NamesAreText
  <2> HIDE DEF r
  <2>2. r = <<r[1]>>
    BY <2>1 DEF Text
  <2> QED
    BY <2>1, <2>2
<1> HIDE DEF e, L, m, r
<1>4. PICK read : Reads(e, read) /\ splitUnescapedColon(e) = Append(read[Len(e)].fields, read[Len(e)].cur)
  BY <1>1, ReadByRecursion DEF Reads
<1>5. read[L + 1] = [fields |-> <<group>>, cur |-> <<>>]
  BY <1>1, <1>2, <1>4, ReadEscaped DEF L
<1>6. \A i \in 1..Len(e) : read[i] = ReadNext(e, i, read[i - 1])
  BY <1>4 DEF Reads
<1> DEFINE Good == {j \in 0..m : read[(L + 1) + j] = [fields |-> <<group>>, cur |-> SubSeq(orgId, 1, j)]}
<1>7. 0 \in Good
  <2>1. SubSeq(orgId, 1, 0) = <<>>
    BY <1>2 DEF Text
  <2>2. (L + 1) + 0 = L + 1
    BY <1>1
  <2> QED
    BY <1>1, <1>5, <2>1, <2>2
<1>8. ASSUME NEW j \in 0..(m - 1), j \in Good PROVE j + 1 \in Good
  <2> DEFINE p == (L + 1) + j
             before == SubSeq(orgId, 1, j)
  <2>1. /\ p \in Nat /\ p + 1 \in 1..Len(e) /\ (p + 1) - 1 = p /\ j \in Nat
        /\ j + 1 \in 0..m /\ j + 1 \in 1..m /\ p + 1 = (L + 1) + (j + 1)
    BY <1>1
  <2>2. read[p] = [fields |-> <<group>>, cur |-> before]
    BY <1>8
  <2>3. Append(before, orgId[j + 1]) = SubSeq(orgId, 1, j + 1)
    <3>1. j + 1 <= Len(orgId)
      BY <1>1, <2>1 DEF m
    <3> QED
      BY <1>2, <2>1, <3>1, AppendSubSeq
  <2>0. j + 1 = m => p + 2 = q
    BY <1>1
  <2>7. j + 1 # m => j + 2 \in 1..m /\ p + 2 = (L + 1) + (j + 2)
    BY <1>1, <2>1
  <2>8. (p + 1) + 1 = p + 2
    BY <2>1
  <2> HIDE DEF p, before, Good
  <2>4. e[p + 1] = orgId[j + 1] /\ e[p + 1] # ":"
    BY <1>1, <1>2, <2>1
  <2>5. ~Escape(e, p + 1)
    <3> SUFFICES ASSUME orgId[j + 1] = "\\", e[p + 2] = ":" PROVE FALSE
      BY <2>4, <2>8 DEF Escape
    <3>1. CASE j + 1 = m
      BY <1>1, <1>2, <3>1
    <3>2. CASE j + 1 # m
      <4>1. e[p + 2] = orgId[j + 2]
        BY <1>1, <2>7, <3>2
      <4> QED
        BY <1>2, <2>7, <3>2, <4>1
    <3> QED
      BY <3>1, <3>2
  <2>6. read[p + 1] = [fields |-> <<group>>, cur |-> SubSeq(orgId, 1, j + 1)]
    <3>1. read[p + 1] = ReadNext(e, p + 1, read[p])
      BY <1>6, <2>1
    <3>2. read[p + 1] = [fields |-> read[p].fields, cur |-> Append(read[p].cur, orgId[j + 1])]
      BY <2>4, <2>5, <3>1 DEF ReadNext, EndsField
    <3>3. read[p].fields = <<group>> /\ read[p].cur = before
      BY <2>2
    <3> QED
      BY <2>3, <3>2, <3>3
  <2> QED
    BY <2>1, <2>6 DEF Good
<1>9. read[q - 1] = [fields |-> <<group>>, cur |-> orgId]
  <2>1. SubSeq(orgId, 1, m) = orgId
    BY <1>2 DEF Text, m
  <2>2. q - 1 = (L + 1) + m
    BY <1>1
  <2> HIDE DEF Good, q
  <2>3. 0..m \subseteq Good
    BY <1>1, <1>7, <1>8, BoundedInduction
  <2>4. m \in Good
    BY <1>1, <2>3
  <2> QED
    BY <2>1, <2>2, <2>4 DEF Good
<1>10. q \in 1..Len(e) /\ e[q] = ":" /\ e[q - 1] # "\\" /\ q + 1 = Len(e) /\ (q + 1) - 1 = q /\ e[q + 1] = r[1]
  <2>1. q \in 1..Len(e) /\ q + 1 = Len(e) /\ (q + 1) - 1 = q
    BY <1>1
  <2>2. e[q] = ":" /\ e[q + 1] = r[1]
    <3>1. q + 1 = L + m + 3
      BY <1>1
    <3> QED
      BY <1>1, <3>1
  <2>3. CASE m = 0
    <3>1. q - 1 = L + 1
      BY <1>1, <2>3
    <3>2. e[L + 1] = ":"
      BY <1>1 DEF BeginsWith, L
    <3> QED
      BY <2>1, <2>2, <3>1, <3>2, CharactersDiffer
  <2>4. CASE m # 0
    <3>1. q - 1 = (L + 1) + m /\ m \in 1..m
      BY <1>1, <2>4
    <3>2. e[q - 1] = orgId[m]
      BY <1>1, <3>1
    <3> QED
      BY <1>2, <2>1, <2>2, <2>4, <3>2
  <2> QED
    BY <2>3, <2>4
<1> HIDE DEF q
<1>11. read[q] = [fields |-> <<group, orgId>>, cur |-> <<>>]
  <2>1. ~Escape(e, q) /\ EndsField(e, q)
    BY <1>10, CharactersDiffer DEF Escape, EndsField
  <2>2. read[q] = [fields |-> Append(<<group>>, orgId), cur |-> <<>>]
    <3>1. read[q] = ReadNext(e, q, read[q - 1])
      BY <1>6, <1>10
    <3> QED
      BY <1>9, <2>1, <3>1 DEF ReadNext
  <2>3. Append(<<group>>, orgId) = <<group, orgId>>
    BY AppendToOne
  <2> QED
    BY <2>2, <2>3
<1>12. read[q + 1] = [fields |-> <<group, orgId>>, cur |-> r]
  <2>0. q + 1 \in 1..Len(e)
    BY <1>1, <1>10
  <2>1. ~Escape(e, q + 1) /\ ~EndsField(e, q + 1)
    BY <1>3, <1>10, CharactersDiffer DEF Escape, EndsField
  <2>2. read[q + 1] = [fields |-> <<group, orgId>>, cur |-> Append(<<>>, r[1])]
    <3>1. read[q + 1] = ReadNext(e, q + 1, read[q])
      BY <1>6, <1>10, <2>0
    <3> QED
      BY <1>10, <1>11, <2>1, <3>1 DEF ReadNext
  <2>3. Append(<<>>, r[1]) = <<r[1]>>
    OBVIOUS
  <2> QED
    BY <1>3, <2>2, <2>3
<1>13. splitUnescapedColon(e) = Append(<<group, orgId>>, r)
  <2>1. read[Len(e)].fields = <<group, orgId>> /\ read[Len(e)].cur = r
    BY <1>10, <1>12
  <2> QED
    BY <1>4, <2>1
<1>14. Append(<<group, orgId>>, r) = <<group, orgId, r>>
  BY AppendToTwo
<1> QED
  BY <1>13, <1>14 DEF e, r

\* A text that neither begins nor ends with a space is not trimmed.
LEMMA NothingToTrim ==
    ASSUME NEW text \in Text, text # <<>>, text[1] # Space, text[Len(text)] # Space
    PROVE  TrimSpace(text) = text
<1> DEFINE inner == {i \in DOMAIN text : text[i] # Space}
           n == Len(text)
<1>1. n \in Nat /\ n >= 1 /\ DOMAIN text = 1..n
  BY DEF Text
<1>2. 1 \in inner /\ n \in inner /\ inner \subseteq 1..n
  BY <1>1
<1> HIDE DEF inner, n
<1>3. Min(inner) = 1
  <2>1. 1 \in inner /\ \A y \in inner : 1 <= y
    BY <1>1, <1>2
  <2>2. \A x \in inner : (\A y \in inner : x <= y) => x = 1
    BY <1>1, <1>2
  <2> QED
    BY <2>1, <2>2 DEF Min
<1>4. Max(inner) = n
  <2>1. n \in inner /\ \A y \in inner : n >= y
    BY <1>1, <1>2
  <2>2. \A x \in inner : (\A y \in inner : x >= y) => x = n
    BY <1>1, <1>2
  <2> QED
    BY <2>1, <2>2 DEF Max
<1>5. SubSeq(text, 1, n) = text
  BY DEF Text, n
<1>6. inner # {}
  BY <1>2
<1> QED
  BY <1>3, <1>4, <1>5, <1>6 DEF TrimSpace, inner

\* Escaping adds no comma, and a space at the start only of a text with one.
LEMMA EscapedIsPlain ==
    ASSUME NEW g \in Text, \A i \in DOMAIN g : g[i] # Comma,
           g # <<>> => g[1] # Space
    PROVE  /\ \A i \in 1..Len(escapeColon(g)) : escapeColon(g)[i] # Comma
           /\ Len(escapeColon(g)) >= 1 => escapeColon(g)[1] # Space
<1> DEFINE u == escapeColon(g)
           pieces == [i \in DOMAIN g |-> IF g[i] = ":" THEN <<"\\", ":">> ELSE <<g[i]>>]
           n == Len(g)
<1>1. u \in Text /\ Len(u) \in Nat /\ DOMAIN u = 1..Len(u) /\ n \in Nat /\ DOMAIN g = 1..n
  <2>1. u \in Text
    BY EscapedIsText
  <2> HIDE DEF u
  <2> QED
    BY <2>1 DEF Text
<1>2. \A i \in 1..Len(u) : u[i] # Comma
  <2>1. pieces \in Seq(Text) /\ Len(pieces) = n
    <3>1. <<"\\", ":">> \in Text
      BY DEF Text, Character
    <3>2. \A i \in 1..n : <<g[i]>> \in Text
      BY <1>1 DEF Text
    <3>3. \A i \in 1..n : pieces[i] \in Text
      BY <1>1, <3>1, <3>2
    <3>4. DOMAIN pieces = 1..n /\ pieces = [i \in 1..n |-> pieces[i]]
      BY <1>1
    <3> HIDE DEF pieces, n
    <3> QED
      BY <1>1, <3>3, <3>4
  <2>2. u = FlattenSeq(pieces)
    BY DEF escapeColon
  <2>3. \A i \in 1..n : pieces[i] = IF g[i] = ":" THEN <<"\\", ":">> ELSE <<g[i]>>
    BY <1>1
  <2> HIDE DEF pieces, n, u
  <2>4. ASSUME NEW i \in 1..n PROVE Comma \notin ToSet(pieces[i])
    <3>1. CASE g[i] = ":"
      <4>1. pieces[i] = <<"\\", ":">>
        BY <2>3, <3>1
      <4>2. ToSet(<<"\\", ":">>) = {"\\", ":"}
        BY DEF ToSet
      <4> QED
        BY <4>1, <4>2, SeparatorsAreSpecial
    <3>2. CASE g[i] # ":"
      <4>1. pieces[i] = <<g[i]>> /\ g[i] # Comma
        BY <1>1, <2>3, <3>2
      <4>2. ToSet(<<g[i]>>) = {g[i]}
        BY DEF ToSet
      <4> QED
        BY <4>1, <4>2
    <3> QED
      BY <3>1, <3>2
  <2>5. Comma \in ToSet(u) <=> \E i \in 1..n : Comma \in ToSet(pieces[i])
    BY <2>1, <2>2, FlattenSeqRange DEF Text
  <2>6. Comma \notin ToSet(u)
    BY <2>4, <2>5
  <2> QED
    BY <1>1, <2>6 DEF ToSet
<1>3. ASSUME Len(u) >= 1 PROVE u[1] # Space
  <2>1. PICK pos : EscapedAt(g, pos)
    BY EscapedPositions
  <2>2. n # 0
    <3> SUFFICES ASSUME n = 0 PROVE FALSE
      OBVIOUS
    <3>1. pos[n] = Len(u) /\ pos[0] = 0
      BY <2>1 DEF EscapedAt
    <3> QED
      BY <1>3, <3>1
  <2>3. 1 \in 1..n /\ 1 - 1 = 0 /\ 0 + 1 = 1 /\ g # <<>> /\ g[1] # Space
    BY <1>1, <2>2
  <2> HIDE DEF n, u
  <2>4. u[1] = "\\" \/ u[1] = g[1]
    <3>1. u[pos[1 - 1] + 1] = "\\" \/ u[pos[1 - 1] + 1] = g[1]
      BY <2>1, <2>3 DEF EscapedAt, n, u
    <3>2. pos[0] = 0
      BY <2>1 DEF EscapedAt
    <3> QED
      BY <2>3, <3>1, <3>2
  <2> QED
    BY <2>3, <2>4, SeparatorsAreSpecial
<1> QED
  BY <1>2, <1>3

\* An entry is one part of a text, and nothing of it is trimmed.
LEMMA EntryIsPlain ==
    ASSUME ReadableNames,
           NEW group \in GroupNames, NEW orgId \in OrgIds, NEW role \in Abstract!Roles,
           NEW e, e = EntryText(group, orgId, role)
    PROVE  SplitAtCommas(e) = {e} /\ TrimSpace(e) = e
<1> DEFINE u == escapeColon(group)
           L == Len(u)
           m == Len(orgId)
<1>1. /\ group \in Text /\ orgId \in Text
      /\ \A i \in DOMAIN group : group[i] # Comma
      /\ group # <<>> => group[1] # Space
      /\ \A j \in 1..m : orgId[j] # Comma
  <2>1. group \in Text /\ orgId \in Text
    BY NamesAreText
  <2>2. DOMAIN orgId = 1..m
    BY <2>1 DEF Text
  <2> QED
    BY <2>1, <2>2 DEF ReadableNames
<1>2. (\A i \in 1..L : u[i] # Comma) /\ (L >= 1 => u[1] # Space)
  BY <1>1, EscapedIsPlain
<1>3. EntryAt(e, L, m, group, orgId, role)
  BY EntryLayout
<1> HIDE DEF L, m
<1>4. /\ e \in Text /\ L \in Nat /\ m \in Nat /\ Len(e) = L + m + 3
      /\ \A i \in 1..L : e[i] = u[i]
      /\ e[L + 1] = ":"
      /\ \A j \in 1..m : e[(L + 1) + j] = orgId[j]
      /\ e[L + m + 2] = ":"
      /\ e[L + m + 3] \in {"V", "E", "A"}
  BY <1>3, NamesAreText DEF EntryAt, BeginsWith, L
<1> HIDE DEF u
<1>5. ASSUME NEW i \in 1..Len(e) PROVE e[i] # Comma
  <2>1. \/ i \in 1..L \/ i = L + 1
        \/ (i - (L + 1) \in 1..m /\ i = (L + 1) + (i - (L + 1)))
        \/ i = L + m + 2 \/ i = L + m + 3
    BY <1>4
  <2>2. CASE i \in 1..L
    BY <1>2, <1>4, <2>2
  <2>3. CASE i = L + 1 \/ i = L + m + 2
    BY <1>4, <2>3, SeparatorsAreSpecial
  <2>4. CASE i - (L + 1) \in 1..m /\ i = (L + 1) + (i - (L + 1))
    BY <1>1, <1>4, <2>4, ZenonT(30)
  <2>5. CASE i = L + m + 3
    BY <1>4, <2>5, SeparatorsAreSpecial
  <2> QED
    BY <2>1, <2>2, <2>3, <2>4, <2>5
<1>6. DOMAIN e = 1..Len(e) /\ e # <<>>
  BY <1>4 DEF Text
<1>7. e[1] # Space
  <2>1. CASE L = 0
    <3>1. e[1] = ":"
      BY <1>4, <2>1
    <3> QED
      BY <3>1, SeparatorsAreSpecial
  <2>2. CASE L # 0
    <3>1. 1 \in 1..L /\ L >= 1
      BY <1>4, <2>2
    <3> QED
      BY <1>2, <1>4, <3>1
  <2> QED
    BY <2>1, <2>2
<1>8. e[Len(e)] # Space
  BY <1>4, SeparatorsAreSpecial
<1> QED
  BY <1>4, <1>5, <1>6, <1>7, <1>8, SplitPlain, NothingToTrim

\* The empty list is read as one malformed entry.
LEMMA NothingIsWritten ==
    /\ Join(<<>>) = <<>>
    /\ SplitAtCommas(<<>>) = {<<>>}
    /\ Len(splitUnescapedColon(TrimSpace(<<>>))) = 1
<1>1. <<>> \in Text /\ DOMAIN <<>> = {} /\ Len(<<>>) = 0
  BY DEF Text
<1>2. Join(<<>>) = <<>>
  <2> DEFINE pieces == [i \in DOMAIN <<>> |-> IF i = 1 THEN <<>>[i] ELSE <<Comma>> \o <<>>[i]]
  <2>1. pieces = <<>>
    OBVIOUS
  <2>2. FlattenSeq(<<>>) = <<>>
    BY <1>1 DEF FlattenSeq
  <2> QED
    BY <2>1, <2>2 DEF Join
<1>3. SplitAtCommas(<<>>) = {<<>>}
  BY <1>1, SplitPlain
<1>4. TrimSpace(<<>>) = <<>>
  BY <1>1 DEF TrimSpace
<1>5. Len(splitUnescapedColon(<<>>)) = 1
  <2> DEFINE t == <<>>
  <2>1. t \in Text /\ Len(t) = 0
    BY <1>1
  <2> HIDE DEF t
  <2>2. PICK read \in [0..Len(t) -> [fields: Seq(Text), cur: Text]] :
           /\ read[0] = [fields |-> <<>>, cur |-> <<>>]
           /\ splitUnescapedColon(t) = Append(read[Len(t)].fields, read[Len(t)].cur)
    BY <2>1, ReadByRecursion
  <2>3. read[Len(t)].fields = <<>> /\ read[Len(t)].cur = <<>>
    BY <2>1, <2>2
  <2>4. splitUnescapedColon(t) = Append(<<>>, <<>>)
    BY <2>2, <2>3
  <2>5. Len(Append(<<>>, <<>>)) = 1
    OBVIOUS
  <2> QED
    BY <2>4, <2>5 DEF t
<1> QED
  BY <1>2, <1>3, <1>4, <1>5

\* The entries that are read back are those that were published.
LEMMA EntriesAreReadBack ==
    ASSUME ReadableNames, tenants \in Seq(TenantMapping)
    PROVE  EntriesSurvive
<1> DEFINE texts == AllEntryTexts(tenants)
           text == BuildOrgMapping(tenants)
           Fields(e) == <<e.group, e.orgId, RoleText[e.role]>>
<1>1. texts \in Seq(Text)
  BY AllEntries
<1>2. \A t : t \in ToSet(texts) <=> \E e \in Published : t = EntryText(e.group, e.orgId, e.role)
  BY EntriesAreWritten
<1>3. \A e \in Published : e.group \in GroupNames /\ e.orgId \in OrgIds /\ e.role \in Abstract!Roles
  BY PublishedAreEntries
<1>4. text = Join(texts)
  BY DEF BuildOrgMapping
<1> HIDE DEF texts, text
<1>5. CASE texts = <<>>
  <2>1. ToSet(texts) = {}
    BY <1>5 DEF ToSet
  <2>2. Published = {}
    BY <1>2, <2>1
  <2>3. SplitAtCommas(text) = {<<>>} /\ Len(splitUnescapedColon(TrimSpace(<<>>))) = 1
    BY <1>4, <1>5, NothingIsWritten
  <2>4. WellFormedEntries(text) = {}
    <3> DEFINE readings == {splitUnescapedColon(TrimSpace(part)) : part \in SplitAtCommas(text)}
    <3>1. \A fields \in readings : Len(fields) # 3
      BY <2>3, SMTT(30)
    <3>2. WellFormedEntries(text) = {fields \in readings : Len(fields) = 3}
      BY DEF WellFormedEntries
    <3> HIDE DEF readings
    <3> QED
      BY <3>1, <3>2
  <2> QED
    BY <2>2, <2>4 DEF EntriesSurvive, text
<1>6. CASE texts # <<>>
  <2>1. ASSUME NEW e \in Published
        PROVE  LET t == EntryText(e.group, e.orgId, e.role)
               IN  SplitAtCommas(t) = {t} /\ splitUnescapedColon(TrimSpace(t)) = Fields(e)
    BY <1>3, EntryIsPlain, EntryIsReadBack
  <2>2. ASSUME NEW part
        PROVE  part \in SplitAtCommas(text) <=>
                  \E e \in Published : part = EntryText(e.group, e.orgId, e.role)
    <3>1. part \in SplitAtCommas(text) <=> \E i \in 1..Len(texts) : part \in SplitAtCommas(texts[i])
      BY <1>1, <1>4, <1>6, SplitJoin
    <3>2. \A t : t \in ToSet(texts) <=> \E i \in 1..Len(texts) : t = texts[i]
      BY <1>1 DEF ToSet
    <3>3. part \in SplitAtCommas(text) <=> \E t \in ToSet(texts) : part \in SplitAtCommas(t)
      BY <3>1, <3>2
    <3>4. \A t \in ToSet(texts) : SplitAtCommas(t) = {t}
      BY <1>2, <2>1
    <3> QED
      BY <1>2, <3>3, <3>4
  <2>3. \A e : Len(Fields(e)) = 3
    OBVIOUS
  <2> HIDE DEF Fields
  <2>4. ASSUME NEW f
        PROVE  f \in WellFormedEntries(text) <=> \E e \in Published : f = Fields(e)
    <3>1. f \in WellFormedEntries(text) <=>
             Len(f) = 3 /\ \E part \in SplitAtCommas(text) : f = splitUnescapedColon(TrimSpace(part))
      BY DEF WellFormedEntries
    <3>2. (\E part \in SplitAtCommas(text) : f = splitUnescapedColon(TrimSpace(part))) <=>
             \E e \in Published : f = Fields(e)
      BY <2>1, <2>2
    <3> QED
      BY <2>3, <3>1, <3>2
  <2>5. WellFormedEntries(text) = {Fields(e) : e \in Published}
    BY <2>4
  <2> QED
    BY <2>5 DEF EntriesSurvive, Fields, text
<1> QED
  BY <1>5, <1>6

-------------------------------------------------------------------------------
(* Patterns *)

\* Where rests of s begin that a character and what follows it match, from where
\* those begin that what follows it matches.
MatchNext(c, s, next) ==
    IF c = "*" THEN {j \in 1..(Len(s) + 1) : \E k \in next : j <= k}
    ELSE {j \in DOMAIN s : c \in {"?", s[j]} /\ j + 1 \in next}

\* globMatch goes through a pattern from its end, one character at a time.
LEMMA MatchByRecursion ==
    ASSUME NEW pattern \in Text, NEW s \in Text
    PROVE  \E from \in [0..Len(pattern) -> SUBSET (1..(Len(s) + 1))] :
              /\ from[0] = {Len(s) + 1}
              /\ \A n \in 1..Len(pattern) :
                   from[n] = MatchNext(pattern[Len(pattern) - n + 1], s, from[n - 1])
              /\ globMatch(pattern, s) <=> 1 \in from[Len(pattern)]
<1> DEFINE p == Len(pattern)
           S == SUBSET (1..(Len(s) + 1))
           base == {Len(s) + 1}
           step == [n \in 1..p |-> [next \in S |-> MatchNext(pattern[p - n + 1], s, next)]]
<1>1. p \in Nat /\ Len(s) \in Nat /\ DOMAIN s = 1..Len(s)
  BY DEF Text
<1>2. base \in S
  BY <1>1
<1>3. ASSUME NEW c, NEW next \in S PROVE MatchNext(c, s, next) \in S
  BY <1>1 DEF MatchNext
<1>4. step \in [1..p -> [S -> S]]
  BY <1>3
<1>5. PICK from \in [0..p -> S] : Follows(from, p, base, step)
  <2> HIDE DEF p, S, base, step
  <2> QED
    BY <1>1, <1>2, <1>4, RecursionExists
<1>6. from[0] = base /\ \A n \in 1..p : n - 1 \in 0..p /\ from[n] = MatchNext(pattern[p - n + 1], s, from[n - 1])
  <2> SUFFICES ASSUME NEW n \in 1..p
               PROVE  n - 1 \in 0..p /\ from[n] = MatchNext(pattern[p - n + 1], s, from[n - 1])
    BY <1>5 DEF Follows
  <2>1. n - 1 \in 0..p
    BY <1>1
  <2>2. from[n - 1] \in S
    BY <2>1
  <2>3. step[n][from[n - 1]] = MatchNext(pattern[p - n + 1], s, from[n - 1])
    BY <2>2
  <2> QED
    BY <1>5, <2>1, <2>3 DEF Follows
<1> HIDE DEF p, S
<1> DEFINE Good(g) == g = [n \in 0..p |-> IF n = 0 THEN base
                                        ELSE MatchNext(pattern[p - n + 1], s, g[n - 1])]
           h == CHOOSE g : Good(g)
<1>7. Good(from)
  BY <1>6
<1>8. Good(h)
  <2> HIDE DEF Good
  <2> QED
    BY <1>7
<1>9. globMatch(pattern, s) <=> 1 \in h[p]
  BY DEF globMatch, MatchNext, p
<1>10. \A n \in 0..p : h[n] = IF n = 0 THEN base ELSE MatchNext(pattern[p - n + 1], s, h[n - 1])
  <2> HIDE DEF h
  <2> QED
    BY <1>8
<1> HIDE DEF h, base
<1> DEFINE Same == {n \in 0..p : h[n] = from[n]}
<1>11. 0 \in Same
  BY <1>1, <1>6, <1>10
<1>12. ASSUME NEW n \in 0..(p - 1), n \in Same PROVE n + 1 \in Same
  <2>1. n + 1 \in 1..p /\ n + 1 \in 0..p /\ (n + 1) - 1 = n /\ n + 1 # 0
    BY <1>1
  <2>2. h[n + 1] = MatchNext(pattern[p - (n + 1) + 1], s, h[n])
    BY <1>10, <2>1
  <2>3. from[n + 1] = MatchNext(pattern[p - (n + 1) + 1], s, from[n])
    BY <1>6, <2>1
  <2> QED
    BY <1>12, <2>1, <2>2, <2>3
<1>13. h[p] = from[p]
  <2> HIDE DEF Same
  <2>1. 0..p \subseteq Same
    BY <1>1, <1>11, <1>12, BoundedInduction
  <2>2. p \in 0..p
    BY <1>1
  <2> QED
    BY <2>1, <2>2 DEF Same
<1> QED
  BY <1>6, <1>9, <1>13 DEF p, S, base

\* A way to cut what follows the first j characters of s into what the
\* characters of the pattern after the first i stand for.
CutFrom(pattern, s, i, j, cut) ==
    /\ cut \in [i..Len(pattern) -> 0..Len(s)]
    /\ cut[i] = j
    /\ cut[Len(pattern)] = Len(s)
    /\ \A k \in (i + 1)..Len(pattern) :
         /\ cut[k - 1] <= cut[k]
         /\ pattern[k] # "*" =>
              cut[k] = cut[k - 1] + 1 /\ pattern[k] \in {"?", s[cut[k]]}

\* One more character of the pattern in front.
LEMMA CutOneMore ==
    ASSUME NEW pattern \in Text, NEW s \in Text, NEW i \in Nat, i + 1 <= Len(pattern),
           NEW j \in 0..Len(s)
    PROVE  (\E cut : CutFrom(pattern, s, i, j, cut)) <=>
             \E b \in 0..Len(s) :
                /\ j <= b
                /\ pattern[i + 1] # "*" => b = j + 1 /\ pattern[i + 1] \in {"?", s[b]}
                /\ \E cut : CutFrom(pattern, s, i + 1, b, cut)
<1> DEFINE p == Len(pattern)
           S == Len(s)
           Step(a, b) == /\ a <= b
                         /\ pattern[i + 1] # "*" => b = a + 1 /\ pattern[i + 1] \in {"?", s[b]}
<1>1. /\ p \in Nat /\ S \in Nat /\ i \in i..p /\ p \in i..p /\ i + 1 \in i..p /\ p \in (i + 1)..p
      /\ i + 1 \in (i + 1)..p /\ (i + 1) - 1 = i /\ i + 1 # i
      /\ \A k \in (i + 1)..p : k \in i..p /\ k # i /\ k - 1 \in i..p
      /\ \A k \in ((i + 1) + 1)..p : k \in (i + 1)..p /\ k - 1 \in (i + 1)..p
      /\ \A k \in (i + 1)..p : k = i + 1 \/ k \in ((i + 1) + 1)..p
      /\ \A k \in i..p : k = i \/ k \in (i + 1)..p
  <2>1. p \in Nat /\ S \in Nat /\ i + 1 <= p
    BY DEF Text
  <2> HIDE DEF p, S
  <2> QED
    BY <2>1
<1> HIDE DEF p, S
<1>2. ASSUME NEW cut, CutFrom(pattern, s, i, j, cut)
      PROVE  \E b \in 0..S : Step(j, b) /\ \E rest : CutFrom(pattern, s, i + 1, b, rest)
  <2>1. /\ cut \in [i..p -> 0..S] /\ cut[i] = j /\ cut[p] = S
        /\ \A k \in (i + 1)..p :
             /\ cut[k - 1] <= cut[k]
             /\ pattern[k] # "*" => cut[k] = cut[k - 1] + 1 /\ pattern[k] \in {"?", s[cut[k]]}
    BY <1>2 DEF CutFrom, p, S
  <2> DEFINE b == cut[i + 1]
             rest == [k \in (i + 1)..p |-> cut[k]]
  <2>2. b \in 0..S
    BY <1>1, <2>1
  <2>3. Step(j, b)
    <3>1. /\ cut[(i + 1) - 1] <= cut[i + 1]
          /\ pattern[i + 1] # "*" =>
               cut[i + 1] = cut[(i + 1) - 1] + 1 /\ pattern[i + 1] \in {"?", s[cut[i + 1]]}
      BY <1>1, <2>1
    <3>2. cut[(i + 1) - 1] = j
      BY <1>1, <2>1
    <3> QED
      BY <3>1, <3>2
  <2>4. \A k \in (i + 1)..p : rest[k] = cut[k]
    OBVIOUS
  <2>5. rest \in [(i + 1)..p -> 0..S]
    BY <1>1, <2>1
  <2> HIDE DEF rest
  <2>6. /\ rest[i + 1] = b /\ rest[p] = S
        /\ \A k \in ((i + 1) + 1)..p :
             /\ rest[k - 1] <= rest[k]
             /\ pattern[k] # "*" => rest[k] = rest[k - 1] + 1 /\ pattern[k] \in {"?", s[rest[k]]}
    BY <1>1, <2>1, <2>4
  <2>7. CutFrom(pattern, s, i + 1, b, rest)
    BY <2>5, <2>6 DEF CutFrom, p, S
  <2> QED
    BY <2>2, <2>3, <2>7
<1>3. ASSUME NEW b \in 0..S, Step(j, b), NEW rest, CutFrom(pattern, s, i + 1, b, rest)
      PROVE  \E cut : CutFrom(pattern, s, i, j, cut)
  <2>1. /\ rest \in [(i + 1)..p -> 0..S] /\ rest[i + 1] = b /\ rest[p] = S
        /\ \A k \in ((i + 1) + 1)..p :
             /\ rest[k - 1] <= rest[k]
             /\ pattern[k] # "*" => rest[k] = rest[k - 1] + 1 /\ pattern[k] \in {"?", s[rest[k]]}
    BY <1>3 DEF CutFrom, p, S
  <2> DEFINE cut == [k \in i..p |-> IF k = i THEN j ELSE rest[k]]
  <2>2. cut[i] = j /\ \A k \in (i + 1)..p : cut[k] = rest[k]
    BY <1>1
  <2>3. cut \in [i..p -> 0..S]
    <3>1. j \in 0..S
      BY DEF S
    <3>2. \A k \in i..p : cut[k] \in 0..S
      BY <1>1, <2>1, <3>1
    <3> QED
      BY <3>2
  <2> HIDE DEF cut
  <2>4. cut[p] = S
    BY <1>1, <2>1, <2>2
  <2>5. ASSUME NEW k \in (i + 1)..p
        PROVE  /\ cut[k - 1] <= cut[k]
               /\ pattern[k] # "*" => cut[k] = cut[k - 1] + 1 /\ pattern[k] \in {"?", s[cut[k]]}
    <3>1. CASE k = i + 1
      <4>1. cut[k] = b /\ cut[k - 1] = j
        BY <1>1, <2>1, <2>2, <3>1
      <4> QED
        BY <1>3, <3>1, <4>1
    <3>2. CASE k \in ((i + 1) + 1)..p
      <4>1. cut[k] = rest[k] /\ cut[k - 1] = rest[k - 1]
        BY <1>1, <2>2, <3>2
      <4> QED
        BY <2>1, <3>2, <4>1
    <3> QED
      BY <1>1, <3>1, <3>2
  <2>6. CutFrom(pattern, s, i, j, cut)
    BY <2>2, <2>3, <2>4, <2>5 DEF CutFrom, p, S
  <2> QED
    BY <2>6
<1> QED
  BY <1>2, <1>3 DEF S

\* The matcher finds a match exactly when the pattern matches.
LEMMA GlobMatchMatches ==
    ASSUME NEW pattern \in Text, NEW s \in Text
    PROVE  globMatch(pattern, s) <=> Matches(pattern, s)
<1> DEFINE p == Len(pattern)
           S == Len(s)
<1>1. p \in Nat /\ S \in Nat /\ DOMAIN s = 1..S /\ DOMAIN pattern = 1..p
  BY DEF Text
<1>2. PICK from \in [0..p -> SUBSET (1..(S + 1))] :
         /\ from[0] = {S + 1}
         /\ \A n \in 1..p : from[n] = MatchNext(pattern[p - n + 1], s, from[n - 1])
         /\ globMatch(pattern, s) <=> 1 \in from[p]
  BY MatchByRecursion
<1> DEFINE Cuts2(n, j) == \E cut : CutFrom(pattern, s, p - n, j, cut)
           Good == {n \in 0..p : \A j \in 0..S : j + 1 \in from[n] <=> Cuts2(n, j)}
<1>3. 0 \in Good
  <2>1. ASSUME NEW j \in 0..S PROVE j + 1 \in from[0] <=> Cuts2(0, j)
    <3>1. p - 0 = p /\ p..p = {p} /\ (p + 1)..p = {}
      BY <1>1
    <3>2. ASSUME j = S PROVE CutFrom(pattern, s, p, j, [k \in p..p |-> S])
      <4> DEFINE cut == [k \in p..p |-> S]
      <4>1. cut \in [p..p -> 0..S] /\ cut[p] = S
        BY <1>1, <3>1
      <4> HIDE DEF cut
      <4>2. CutFrom(pattern, s, p, j, cut)
        BY <3>1, <3>2, <4>1 DEF CutFrom
      <4> QED
        BY <4>2 DEF cut
    <3>3. ASSUME NEW cut, CutFrom(pattern, s, p, j, cut) PROVE j = S
      BY <3>3 DEF CutFrom
    <3>4. Cuts2(0, j) <=> j = S
      BY <3>1, <3>2, <3>3
    <3>5. j + 1 \in from[0] <=> j = S
      <4>1. j + 1 = S + 1 <=> j = S
        <5>1. j \in 0..S /\ S \in Nat
          BY <1>1
        <5> HIDE DEF S
        <5>2. j \in Int /\ S \in Int
          BY <5>1
        <5> QED
          BY <5>2
      <4>2. from[0] = {S + 1}
        BY <1>2
      <4> QED
        BY <4>1, <4>2
    <3> QED
      BY <3>4, <3>5
  <2> QED
    BY <1>1, <2>1
<1>4. ASSUME NEW n \in 0..(p - 1), n \in Good PROVE n + 1 \in Good
  <2> DEFINE i == p - (n + 1)
             c == pattern[i + 1]
  <2>1. /\ n + 1 \in 1..p /\ n + 1 \in 0..p /\ n \in 0..p /\ (n + 1) - 1 = n
        /\ i \in Nat /\ i + 1 <= p /\ i + 1 = p - n
    BY <1>1
  <2>2. from[n + 1] = MatchNext(c, s, from[n])
    BY <1>2, <2>1
  <2>3. from[n] \in SUBSET (1..(S + 1))
    BY <1>2, <2>1
  <2>4. \A b \in 0..S : b + 1 \in from[n] <=> Cuts2(n, b)
    BY <1>4
  <2> HIDE DEF c
  <2>5. ASSUME NEW j \in 0..S PROVE j + 1 \in from[n + 1] <=> Cuts2(n + 1, j)
    <3> HIDE DEF Good
    <3>1. Cuts2(n + 1, j) <=>
            \E b \in 0..S : j <= b /\ (c # "*" => b = j + 1 /\ c \in {"?", s[b]}) /\ Cuts2(n, b)
      <4> HIDE DEF i
      <4>1. (\E cut : CutFrom(pattern, s, i, j, cut)) <=>
              \E b \in 0..S :
                /\ j <= b
                /\ c # "*" => b = j + 1 /\ c \in {"?", s[b]}
                /\ \E cut : CutFrom(pattern, s, i + 1, b, cut)
        BY <2>1, CutOneMore DEF c
      <4> QED
        BY <2>1, <4>1 DEF i
    <3> HIDE DEF Cuts2, i
    <3>2. Cuts2(n + 1, j) <=>
            \E b \in 0..S : j <= b /\ (c # "*" => b = j + 1 /\ c \in {"?", s[b]}) /\ b + 1 \in from[n]
      BY <2>4, <3>1
    <3>3. CASE c = "*"
      <4>1. j + 1 \in from[n + 1] <=> \E k \in from[n] : j + 1 <= k
        BY <1>1, <2>2, <3>3 DEF MatchNext
      <4>2. (\E k \in from[n] : j + 1 <= k) <=> \E b \in 0..S : j <= b /\ b + 1 \in from[n]
        <5>1. \A k \in from[n] : k - 1 \in 0..S /\ (k - 1) + 1 = k /\ (j + 1 <= k <=> j <= k - 1)
          BY <1>1, <2>3
        <5>2. \A b \in 0..S : j <= b <=> j + 1 <= b + 1
          BY <1>1
        <5> QED
          BY <5>1, <5>2
      <4> QED
        BY <3>2, <3>3, <4>1, <4>2
    <3>4. CASE c # "*"
      <4>1. j + 1 \in from[n + 1] <=>
              j + 1 \in 1..S /\ c \in {"?", s[j + 1]} /\ (j + 1) + 1 \in from[n]
        BY <1>1, <2>2, <3>4 DEF MatchNext
      <4>2. j + 1 \in 1..S <=> j + 1 \in 0..S
        BY <1>1
      <4>3. j <= j + 1
        BY <1>1
      <4>4. Cuts2(n + 1, j) <=> j + 1 \in 0..S /\ c \in {"?", s[j + 1]} /\ (j + 1) + 1 \in from[n]
        BY <3>2, <3>4, <4>3
      <4> QED
        BY <4>1, <4>2, <4>4
    <3> QED
      BY <3>3, <3>4
  <2> QED
    BY <2>1, <2>5
<1>5. 1 \in from[p] <=> Cuts2(p, 0)
  <2> HIDE DEF Good, Cuts2
  <2>1. 0..p \subseteq Good
    BY <1>1, <1>3, <1>4, BoundedInduction
  <2>2. p \in Good /\ 0 \in 0..S /\ 0 + 1 = 1
    BY <1>1, <2>1
  <2>3. 0 + 1 \in from[p] <=> Cuts2(p, 0)
    BY <2>2 DEF Good
  <2> QED
    BY <2>2, <2>3
<1>6. Matches(pattern, s) <=> Cuts2(p, 0)
  <2>1. p - p = 0 /\ 0 + 1 = 1
    BY <1>1
  <2>2. ASSUME NEW cut
        PROVE  CutFrom(pattern, s, 0, 0, cut) <=>
                 /\ cut \in [0..p -> 0..S] /\ cut[0] = 0 /\ cut[p] = S
                 /\ \A k \in DOMAIN pattern :
                      /\ cut[k - 1] <= cut[k]
                      /\ pattern[k] # "*" =>
                           cut[k] = cut[k - 1] + 1 /\ pattern[k] \in {"?", s[cut[k]]}
    BY <1>1, <2>1 DEF CutFrom
  <2>3. Matches(pattern, s) <=> \E cut : CutFrom(pattern, s, 0, 0, cut)
    BY <2>2 DEF Matches
  <2> QED
    BY <2>1, <2>3
<1> QED
  BY <1>2, <1>5, <1>6

\* A user resolves to the orgs of the entries whose group matches one of the claims.
LEMMA GrantsAreResolved ==
    ASSUME ReadableNames, tenants \in Seq(TenantMapping)
    PROVE  ResolvesGrants
<1> DEFINE text == BuildOrgMapping(tenants)
           Fields(e) == <<e.group, e.orgId, RoleText[e.role]>>
<1>1. WellFormedEntries(text) = {Fields(e) : e \in Published}
  BY EntriesAreReadBack DEF EntriesSurvive
<1>2. \A e : Fields(e)[1] = e.group /\ Fields(e)[2] = e.orgId
  OBVIOUS
<1> HIDE DEF text, Fields
<1>3. \A e \in Published : e.group \in GroupNames
  BY PublishedAreEntries
<1>4. ASSUME NEW e \in Published, NEW c \in Claims
      PROVE  globMatch(e.group, c) <=> <<e.group, c>> \in Matching
  <2>1. Claims \subseteq Text
    <3>1. Seq(STRING) \subseteq Text
      BY DEF Text, Character
    <3> QED
      BY <3>1, TextAssumption
  <2>2. e.group \in GroupNames /\ e.group \in Text /\ c \in Text
    BY <1>3, <2>1, NamesAreText
  <2>3. globMatch(e.group, c) <=> Matches(e.group, c)
    BY <2>2, GlobMatchMatches
  <2>4. <<e.group, c>> \in Matching <=> Matches(e.group, c)
    BY <2>2 DEF Matching
  <2> QED
    BY <2>3, <2>4
<1>5. ASSUME NEW claimGroups \in SUBSET Claims
      PROVE  ResolveOrgIDs(text, claimGroups) =
                {e.orgId : e \in {x \in Published : \E c \in claimGroups : <<x.group, c>> \in Matching}}
  <2>1. ASSUME NEW orgId
        PROVE  orgId \in ResolveOrgIDs(text, claimGroups) <=>
                 \E e \in Published : orgId = e.orgId /\ \E c \in claimGroups : <<e.group, c>> \in Matching
    <3>1. orgId \in ResolveOrgIDs(text, claimGroups) <=>
             \E f \in WellFormedEntries(text) : orgId = f[2] /\ \E c \in claimGroups : globMatch(f[1], c)
      BY DEF ResolveOrgIDs
    <3>2. orgId \in ResolveOrgIDs(text, claimGroups) <=>
             \E e \in Published : orgId = e.orgId /\ \E c \in claimGroups : globMatch(e.group, c)
      BY <1>1, <1>2, <3>1
    <3> QED
      BY <1>4, <3>2
  <2> QED
    BY <2>1
<1>6. \A claimGroups \in {{c} : c \in Claims} \cup {{}, Claims} : claimGroups \in SUBSET Claims
  OBVIOUS
<1> QED
  BY <1>5, <1>6 DEF ResolvesGrants, text

-------------------------------------------------------------------------------
(* What the drift check finds *)

\* An escaped name ends in a colon and a text without colons exactly when the name
\* itself does: the backslashes are in front of colons, and none is behind them.
LEMMA EscapedEnd ==
    ASSUME NEW g \in Text, NEW x \in Text, \A j \in 1..Len(x) : x[j] # ":"
    PROVE  LET n == Len(g)
               k == Len(x)
               u == escapeColon(g)
               L == Len(u)
           IN  (L - k >= 1 /\ u[L - k] = ":" /\ \A j \in 1..k : u[(L - k) + j] = x[j])
                  <=> (n - k >= 1 /\ g[n - k] = ":" /\ \A j \in 1..k : g[(n - k) + j] = x[j])
<1> DEFINE n == Len(g)
           k == Len(x)
           u == escapeColon(g)
           L == Len(u)
<1>0. \A j \in 1..k : x[j] # ":"
  OBVIOUS
<1>1. PICK pos : EscapedAt(g, pos)
  BY EscapedPositions
<1>2. /\ n \in Nat /\ k \in Nat /\ L \in Nat
      /\ pos \in [0..n -> Nat] /\ pos[0] = 0 /\ pos[n] = L
      /\ \A t \in 1..n :
           /\ g[t] = ":" => pos[t] = pos[t - 1] + 2 /\ u[pos[t - 1] + 2] = ":"
           /\ g[t] # ":" => pos[t] = pos[t - 1] + 1 /\ u[pos[t - 1] + 1] = g[t]
  <2>1. u \in Text
    BY EscapedIsText
  <2>2. n \in Nat /\ k \in Nat /\ L \in Nat
    BY <2>1 DEF Text
  <2> QED
    BY <1>1, <2>2 DEF EscapedAt
<1> HIDE DEF n, k, u, L
<1>5. \A t \in 0..n : pos[t] \in Nat
  BY <1>2
<1>6. \A t \in 1..n : g[t] = ":" => pos[t] = pos[t - 1] + 2 /\ u[pos[t - 1] + 2] = ":"
  BY <1>2
<1>7. \A t \in 1..n : g[t] # ":" => pos[t] = pos[t - 1] + 1 /\ u[pos[t - 1] + 1] = g[t]
  BY <1>2
<1>8. n \in Nat /\ k \in Nat /\ L \in Nat
  BY <1>2
<1> DEFINE Back == {j \in 0..k : j <= n /\ pos[n - j] = L - j}
<1>3. ASSUME L - k >= 1, \A j \in 1..k : u[(L - k) + j] = x[j], u[L - k] = ":"
      PROVE  n - k >= 1 /\ g[n - k] = ":" /\ \A j \in 1..k : g[(n - k) + j] = x[j]
  <2>1. 0..k \subseteq Back
    <3>1. 0 \in Back
      BY <1>2
    <3>2. ASSUME NEW j \in 0..(k - 1), j \in Back PROVE j + 1 \in Back
      <4>1. j <= n /\ pos[n - j] = L - j /\ n - j \in Nat
        BY <1>2, <3>2
      <4>2. n - j # 0
        BY <1>2, <1>3, <4>1
      <4> DEFINE t == n - j
      <4>3. t \in 1..n /\ pos[t] = L - j /\ t - 1 = n - (j + 1) /\ j + 1 <= n
        BY <1>2, <4>1, <4>2
      <4>4. k - j \in 1..k /\ (L - k) + (k - j) = L - j
        BY <1>2
      <4>5. u[L - j] # ":"
        BY <1>0, <1>3, <4>4
      <4> HIDE DEF t
      <4>6. pos[t - 1] \in Nat
        <5>1. t - 1 \in 0..n
          BY <1>8, <4>3
        <5> QED
          BY <1>5, <5>1
      <4>7. g[t] # ":"
        BY <1>2, <4>3, <4>5, <4>6
      <4>8. pos[t - 1] = L - (j + 1)
        BY <1>2, <4>3, <4>6, <4>7
      <4> QED
        BY <1>8, <4>3, <4>8
    <3> HIDE DEF Back
    <3> QED
      BY <1>2, <3>1, <3>2, BoundedInduction
  <2>2. ASSUME NEW j \in 0..k PROVE n - j \in 0..n /\ pos[n - j] = L - j
    <3>1. j \in Back
      <4> HIDE DEF Back
      <4> QED
        BY <2>1
    <3>2. j <= n /\ pos[n - j] = L - j
      BY <3>1
    <3> QED
      BY <1>8, <3>2
  <2>3. n - k >= 1
    <3>1. k \in 0..k
      BY <1>8
    <3>2. n - k \in 0..n /\ pos[n - k] = L - k
      BY <2>2, <3>1
    <3>3. n - k # 0
      <4> SUFFICES ASSUME n - k = 0 PROVE FALSE
        OBVIOUS
      <4>1. pos[n - k] = 0
        BY <1>2
      <4> QED
        BY <1>3, <1>8, <3>2, <4>1
    <3> QED
      BY <1>8, <3>2, <3>3
  <2>4. g[n - k] = ":"
    <3> SUFFICES ASSUME g[n - k] # ":" PROVE FALSE
      OBVIOUS
    <3>0. n - k \in 1..n /\ (n - k) - 1 \in 0..n /\ k \in 0..k
      BY <1>8, <2>3
    <3>1. n - k \in 1..n /\ pos[n - k] = L - k /\ (n - k) - 1 \in 0..n
      BY <2>2, <3>0
    <3>2. pos[(n - k) - 1] + 1 = L - k /\ u[pos[(n - k) - 1] + 1] = g[n - k]
      BY <1>2, <3>1
    <3> QED
      BY <1>3, <3>2
  <2>5. ASSUME NEW j \in 1..k PROVE g[(n - k) + j] = x[j]
    <3> DEFINE t == (n - k) + j
    <3>1. t \in 1..n /\ t = n - (k - j) /\ t - 1 = n - (k - j + 1)
      BY <1>2, <2>3
    <3>2. k - j \in 0..k /\ k - j + 1 \in 0..k /\ L - (k - j) = (L - k) + j /\ L - (k - j + 1) + 1 = (L - k) + j
      BY <1>2
    <3>3. pos[t] = L - (k - j) /\ pos[t - 1] = L - (k - j + 1)
      BY <2>2, <3>1, <3>2
    <3> HIDE DEF t
    <3>4. pos[t] = pos[t - 1] + 1 /\ pos[t - 1] + 1 = (L - k) + j
      BY <1>2, <3>2, <3>3
    <3>5. pos[t - 1] \in Nat
      <4>1. t - 1 \in 0..n
        BY <1>8, <3>1
      <4> QED
        BY <1>5, <4>1
    <3>6. g[t] # ":"
      <4>1. g[t] = ":" => pos[t] = pos[t - 1] + 2
        BY <1>6, <3>1
      <4>2. pos[t] # pos[t - 1] + 2
        <5> DEFINE a == pos[t - 1]
        <5>1. a \in Nat /\ pos[t] = a + 1
          BY <3>4, <3>5
        <5> HIDE DEF a
        <5>2. pos[t] # a + 2
          BY <5>1
        <5> QED
          BY <5>2 DEF a
      <4> QED
        BY <4>1, <4>2
    <3>7. u[(L - k) + j] = g[t]
      BY <1>2, <3>1, <3>4, <3>6
    <3> QED
      BY <1>3, <3>7 DEF t
  <2> QED
    BY <2>3, <2>4, <2>5
<1>4. ASSUME n - k >= 1, g[n - k] = ":", \A j \in 1..k : g[(n - k) + j] = x[j]
      PROVE  L - k >= 1 /\ u[L - k] = ":" /\ \A j \in 1..k : u[(L - k) + j] = x[j]
  <2>1. ASSUME NEW j \in 1..k
        PROVE  /\ (n - k) + j \in 1..n
               /\ pos[(n - k) + j] = pos[(n - k) + j - 1] + 1
               /\ u[pos[(n - k) + j - 1] + 1] = x[j]
    <3>1. (n - k) + j \in 1..n /\ g[(n - k) + j] = x[j]
      BY <1>2, <1>4
    <3>2. g[(n - k) + j] # ":"
      BY <1>0, <3>1
    <3> QED
      BY <1>2, <3>1, <3>2
  <2>2. 0..k \subseteq Back
    <3>1. 0 \in Back
      BY <1>2
    <3>2. ASSUME NEW j \in 0..(k - 1), j \in Back PROVE j + 1 \in Back
      <4>1. k - j \in 1..k /\ (n - k) + (k - j) = n - j /\ j + 1 <= n /\ (n - j) - 1 = n - (j + 1)
        BY <1>2, <1>4
      <4>2. pos[n - j] = L - j
        BY <3>2
      <4>3. pos[n - j] = pos[(n - j) - 1] + 1
        <5> DEFINE i == k - j
        <5>1. i \in 1..k /\ (n - k) + i = n - j
          BY <4>1
        <5> HIDE DEF i
        <5>2. pos[(n - k) + i] = pos[(n - k) + i - 1] + 1
          BY <2>1, <5>1
        <5>3. (n - k) + i - 1 = (n - j) - 1
          BY <1>8, <5>1
        <5> QED
          BY <5>1, <5>2, <5>3, Zenon
      <4>4. (n - j) - 1 \in 0..n
        BY <1>2, <4>1
      <4>5. pos[n - (j + 1)] = L - (j + 1)
        <5>1. pos[(n - j) - 1] \in Nat
          BY <1>5, <4>4
        <5> DEFINE a == pos[(n - j) - 1]
        <5>2. a \in Nat /\ L - j = a + 1
          BY <4>2, <4>3, <5>1, Zenon
        <5> HIDE DEF a
        <5>3. a = L - (j + 1)
          BY <1>8, <5>2
        <5> QED
          BY <4>1, <5>3, Zenon DEF a
      <4> QED
        BY <1>2, <4>1, <4>5
    <3> HIDE DEF Back
    <3> QED
      BY <1>2, <3>1, <3>2, BoundedInduction
  <2>3. ASSUME NEW j \in 0..k PROVE pos[n - j] = L - j
    <3>1. j \in Back
      <4> HIDE DEF Back
      <4> QED
        BY <2>2
    <3> QED
      BY <3>1
  <2>4. /\ n - k \in 1..n /\ pos[n - k] = L - k /\ pos[(n - k) - 1] \in Nat
        /\ pos[n - k] = pos[(n - k) - 1] + 2 /\ u[pos[(n - k) - 1] + 2] = ":"
    <3>1. n - k \in 1..n /\ (n - k) - 1 \in 0..n
      BY <1>8, <1>4
    <3>2. k \in 0..k
      BY <1>8
    <3>3. pos[n - k] = L - k
      BY <2>3, <3>2
    <3>4. pos[(n - k) - 1] \in Nat
      BY <1>5, <3>1
    <3>5. pos[n - k] = pos[(n - k) - 1] + 2 /\ u[pos[(n - k) - 1] + 2] = ":"
      BY <1>4, <1>6, <3>1, Zenon
    <3> QED
      BY <3>1, <3>3, <3>4, <3>5, Zenon
  <2>5. ASSUME NEW j \in 1..k PROVE u[(L - k) + j] = x[j]
    <3>1. k - j + 1 \in 0..k /\ (n - k) + j - 1 = n - (k - j + 1) /\ L - (k - j + 1) + 1 = (L - k) + j
      BY <1>2
    <3>2. pos[(n - k) + j - 1] = L - (k - j + 1)
      BY <2>3, <3>1
    <3> QED
      BY <2>1, <3>1, <3>2
  <2>6. L - k >= 1 /\ u[L - k] = ":"
    BY <1>2, <2>4
  <2> QED
    BY <2>5, <2>6
<1>9. (L - k >= 1 /\ u[L - k] = ":" /\ \A j \in 1..k : u[(L - k) + j] = x[j])
         <=> (n - k >= 1 /\ g[n - k] = ":" /\ \A j \in 1..k : g[(n - k) + j] = x[j])
  BY <1>3, <1>4
<1> QED
  BY <1>9, Zenon DEF n, k, u, L

\* Every colon of an escaped name comes after a backslash.
LEMMA ColonsAreEscaped ==
    ASSUME NEW g \in Text, NEW u, u = escapeColon(g), NEW p \in 1..Len(u), u[p] = ":"
    PROVE  p >= 2 /\ u[p - 1] = "\\"
<1> DEFINE n == Len(g)
<1>1. PICK pos : EscapedAt(g, pos)
  BY EscapedPositions
<1>2. /\ n \in Nat /\ p \in Nat /\ p >= 1 /\ p <= Len(u) /\ Len(u) \in Nat
      /\ pos \in [0..n -> Nat] /\ pos[0] = 0 /\ pos[n] = Len(u)
      /\ \A t \in 1..n :
           /\ g[t] = ":" => /\ pos[t] = pos[t - 1] + 2
                            /\ u[pos[t - 1] + 1] = "\\" /\ u[pos[t - 1] + 2] = ":"
           /\ g[t] # ":" => pos[t] = pos[t - 1] + 1 /\ u[pos[t - 1] + 1] = g[t]
  <2>1. u \in Text
    BY EscapedIsText
  <2>2. n \in Nat /\ Len(u) \in Nat
    BY <2>1 DEF Text
  <2> QED
    BY <1>1, <2>2 DEF EscapedAt
<1> HIDE DEF n
<1> DEFINE Reached == {t \in 0..n : p <= pos[t]}
<1>3. Reached \in SUBSET Nat /\ n \in Reached
  BY <1>2
<1>4. PICK t \in Reached : \A s \in Reached : t <= s
  BY <1>3, LeastNumber
<1>5. t \in 1..n /\ t - 1 \in 0..n /\ p <= pos[t] /\ pos[t - 1] < p /\ pos[t - 1] \in Nat
  <2>1. t \in 0..n /\ p <= pos[t]
    BY <1>4
  <2>2. t # 0
    BY <1>2, <2>1
  <2>3. t \in 1..n /\ t - 1 \in 0..n /\ t - 1 \notin Reached
    BY <1>2, <1>4, <2>1, <2>2
  <2>4. ~(p <= pos[t - 1]) /\ pos[t - 1] \in Nat
    BY <1>2, <2>3
  <2> QED
    BY <1>2, <2>1, <2>3, <2>4
<1>6. CASE g[t] = ":"
  <2>1. p = pos[t - 1] + 1 \/ p = pos[t - 1] + 2
    BY <1>2, <1>5, <1>6
  <2>2. u[pos[t - 1] + 1] = "\\"
    BY <1>2, <1>5, <1>6
  <2>3. p # pos[t - 1] + 1
    BY <2>2, CharactersDiffer
  <2> QED
    BY <1>5, <2>1, <2>2, <2>3
<1>7. CASE g[t] # ":"
  <2>1. p = pos[t - 1] + 1 /\ u[pos[t - 1] + 1] = g[t]
    BY <1>2, <1>5, <1>7
  <2> QED
    BY <1>7, <2>1
<1> QED
  BY <1>6, <1>7

\* Where an infix of a text is.
LEMMA InfixAt ==
    ASSUME NEW e \in Text, NEW f \in Text
    PROVE  HasInfix(e, f) <=>
              \E i \in 1..(Len(e) - Len(f) + 1) : \A j \in 1..Len(f) : e[i + j - 1] = f[j]
<1>1. Len(e) \in Nat /\ Len(f) \in Nat /\ DOMAIN f = 1..Len(f)
  BY DEF Text
<1> SUFFICES ASSUME NEW i \in 1..(Len(e) - Len(f) + 1)
             PROVE  SubSeq(e, i, i + Len(f) - 1) = f <=> \A j \in 1..Len(f) : e[i + j - 1] = f[j]
  BY DEF HasInfix
<1>2. SubSeq(e, i, i + Len(f) - 1) = [j \in 1..Len(f) |-> e[i + j - 1]]
  <2>1. SubSeq(e, i, i + Len(f) - 1) = [j \in 1..(1 + (i + Len(f) - 1) - i) |-> e[j + i - 1]]
    BY <1>1 DEF Text
  <2>2. 1 + (i + Len(f) - 1) - i = Len(f) /\ \A j \in 1..Len(f) : j + i - 1 = i + j - 1
    BY <1>1
  <2> QED
    BY <2>1, <2>2
<1>3. f = [j \in 1..Len(f) |-> f[j]]
  BY <1>1 DEF Text
<1> DEFINE a == [j \in 1..Len(f) |-> e[i + j - 1]]
<1>4. a = f <=> \A j \in 1..Len(f) : a[j] = f[j]
  <2>1. DOMAIN a = 1..Len(f) /\ a = [j \in 1..Len(f) |-> a[j]]
    OBVIOUS
  <2> HIDE DEF a
  <2> QED
    BY <1>3, <2>1
<1> QED
  BY <1>2, <1>4

\* An org between colons.
LEMMA SearchedText ==
    ASSUME NEW x \in Text, NEW f, f = <<":">> \o x \o <<":">>
    PROVE  /\ f \in Text /\ Len(x) \in Nat /\ Len(f) = Len(x) + 2
           /\ f[1] = ":" /\ f[Len(x) + 2] = ":"
           /\ \A j \in 1..Len(x) : f[1 + j] = x[j]
<1> DEFINE y == <<":">> \o x
<1>1. ":" \in Character /\ f = y \o <<":">>
  BY DEF Character
<1> HIDE DEF y
<1>2. /\ y \in Text /\ Len(y) = Len(x) + 1 /\ Len(x) \in Nat
      /\ y[1] = ":" /\ \A j \in 1..Len(x) : y[1 + j] = x[j]
  BY <1>1, CharacterFirst DEF y
<1>3. /\ f \in Text /\ Len(f) = Len(y) + 1
      /\ \A j \in 1..Len(y) : f[j] = y[j]
      /\ f[Len(y) + 1] = ":"
  <2>1. \A c \in Character :
           /\ y \o <<c>> \in Text /\ Len(y \o <<c>>) = Len(y) + 1
           /\ \A j \in 1..Len(y) : (y \o <<c>>)[j] = y[j]
           /\ (y \o <<c>>)[Len(y) + 1] = c
    BY <1>2, CharacterLast, Zenon
  <2> DEFINE z == y \o <<":">>
  <2>2. z \in Text /\ Len(z) = Len(y) + 1 /\ (\A j \in 1..Len(y) : z[j] = y[j]) /\ z[Len(y) + 1] = ":"
    BY <1>1, <2>1
  <2>3. f = z
    BY <1>1
  <2> HIDE DEF z
  <2> QED
    BY <2>2, <2>3
<1>4. 1 \in 1..Len(y) /\ \A j \in 1..Len(x) : 1 + j \in 1..Len(y)
  BY <1>2
<1> QED
  BY <1>2, <1>3, <1>4

\* What a text ends in, character by character.
LEMMA EndsInAt ==
    ASSUME NEW g \in Text, NEW x \in Text
    PROVE  EndsIn(g, <<":">> \o x) <=>
              /\ Len(g) - Len(x) >= 1 /\ g[Len(g) - Len(x)] = ":"
              /\ \A j \in 1..Len(x) : g[(Len(g) - Len(x)) + j] = x[j]
<1> DEFINE y == <<":">> \o x
           n == Len(g)
           k == Len(x)
<1>1. ":" \in Character
  BY DEF Character
<1>2. /\ y \in Text /\ Len(y) = k + 1 /\ k \in Nat /\ n \in Nat
      /\ y[1] = ":" /\ \A j \in 1..k : y[1 + j] = x[j]
  BY <1>1, CharacterFirst DEF Text
<1> HIDE DEF y, n, k
<1>3. ASSUME k + 1 <= n
      PROVE  SubSeq(g, n - (k + 1) + 1, n) = y <=>
                g[n - k] = ":" /\ \A j \in 1..k : g[(n - k) + j] = x[j]
  <2> DEFINE rest == SubSeq(g, (n - k - 1) + 1, n)
  <2>1. n - k - 1 \in Nat /\ n - k - 1 <= n /\ n - (n - k - 1) = k + 1
        /\ n - (k + 1) + 1 = (n - k - 1) + 1
    BY <1>2, <1>3
  <2>2. rest \in Text /\ Len(rest) = k + 1 /\ \A i \in 1..(k + 1) : rest[i] = g[(n - k - 1) + i]
    <3>1. /\ rest \in Text /\ Len(rest) = n - (n - k - 1)
          /\ \A i \in 1..(n - (n - k - 1)) : rest[i] = g[(n - k - 1) + i]
      BY <2>1, RestOfText DEF n
    <3> HIDE DEF rest
    <3> QED
      BY <2>1, <3>1
  <2> HIDE DEF rest
  <2>3. rest = y <=> \A i \in 1..(k + 1) : rest[i] = y[i]
    <3>1. ASSUME \A i \in 1..(k + 1) : rest[i] = y[i] PROVE rest = y
      BY <1>2, <2>2, <3>1, SeqEqual DEF Text
    <3> QED
      BY <3>1
  <2>4. (\A i \in 1..(k + 1) : rest[i] = y[i]) <=>
           g[n - k] = ":" /\ \A j \in 1..k : g[(n - k) + j] = x[j]
    <3>1. 1 \in 1..(k + 1) /\ (n - k - 1) + 1 = n - k
      BY <1>2
    <3>2. \A j \in 1..k : 1 + j \in 1..(k + 1) /\ (n - k - 1) + (1 + j) = (n - k) + j
      BY <1>2
    <3>3. \A i \in 1..(k + 1) : i = 1 \/ (i - 1 \in 1..k /\ i = 1 + (i - 1))
      BY <1>2
    <3>4. rest[1] = g[n - k] /\ \A j \in 1..k : rest[1 + j] = g[(n - k) + j]
      BY <2>2, <3>1, <3>2
    <3>5. ASSUME \A i \in 1..(k + 1) : rest[i] = y[i]
          PROVE  g[n - k] = ":" /\ \A j \in 1..k : g[(n - k) + j] = x[j]
      BY <1>2, <3>1, <3>2, <3>4, <3>5
    <3>6. ASSUME g[n - k] = ":", \A j \in 1..k : g[(n - k) + j] = x[j], NEW i \in 1..(k + 1)
          PROVE  rest[i] = y[i]
      <4>1. CASE i = 1
        BY <1>2, <3>4, <3>6, <4>1
      <4>2. CASE i - 1 \in 1..k /\ i = 1 + (i - 1)
        <5>1. rest[1 + (i - 1)] = x[i - 1] /\ y[1 + (i - 1)] = x[i - 1]
          BY <1>2, <3>4, <3>6, <4>2
        <5> QED
          BY <4>2, <5>1
      <4> QED
        BY <3>3, <4>1, <4>2
    <3> QED
      BY <3>5, <3>6
  <2> QED
    BY <2>1, <2>3, <2>4 DEF rest
<1>4. k + 1 <= n <=> n - k >= 1
  BY <1>2
<1> QED
  BY <1>2, <1>3, <1>4 DEF EndsIn, y, n, k

\* An org is found in an entry when it is the entry's, or the end of its group.
LEMMA OrgInEntry ==
    ASSUME ReadableNames,
           NEW group \in GroupNames, NEW orgId \in OrgIds, NEW role \in Abstract!Roles,
           NEW x \in OrgIds, NEW e, e = EntryText(group, orgId, role)
    PROVE  HasInfix(e, <<":">> \o x \o <<":">>) <=>
              orgId = x \/ EndsIn(group, <<":">> \o x)
<1> DEFINE u == escapeColon(group)
           L == Len(u)
           m == Len(orgId)
           k == Len(x)
           f == <<":">> \o x \o <<":">>
           n == Len(group)
<1>1. group \in Text /\ orgId \in Text /\ x \in Text /\ u \in Text
  BY NamesAreText, EscapedIsText
<1>2. EntryAt(e, L, m, group, orgId, role)
  BY EntryLayout
<1>3. /\ e \in Text /\ L \in Nat /\ m \in Nat /\ k \in Nat /\ Len(e) = L + m + 3
      /\ \A i \in 1..L : e[i] = u[i]
      /\ e[L + 1] = ":"
      /\ \A j \in 1..m : e[(L + 1) + j] = orgId[j]
      /\ e[L + m + 2] = ":"
      /\ e[L + m + 3] # ":"
  <2>1. RoleText[role][1] # ":"
    BY NamesAreText, CharactersDiffer
  <2>2. k \in Nat
    BY <1>1 DEF Text
  <2> HIDE DEF L, m, k
  <2>3. (\A i \in 1..L : e[i] = u[i]) /\ e[L + 1] = ":"
    BY <1>2 DEF EntryAt, BeginsWith, L
  <2> HIDE DEF u
  <2> QED
    BY <1>2, <2>1, <2>2, <2>3, Zenon DEF EntryAt
<1>4. /\ \A j \in 1..m : orgId[j] # ":"
      /\ \A j \in 1..k : x[j] # ":"
      /\ k >= 1 => x[k] # "\\"
  <2>1. DOMAIN orgId = 1..m /\ DOMAIN x = 1..k /\ (k >= 1 => x # <<>>)
    BY <1>1 DEF Text
  <2> QED
    BY <2>1 DEF ReadableNames
<1>5. HasInfix(e, f) <=>
        \E i \in 1..(L + m + 2 - k) :
            /\ e[i] = ":" /\ e[i + k + 1] = ":"
            /\ \A j \in 1..k : e[i + j] = x[j]
  <2>1. /\ f \in Text /\ Len(f) = k + 2 /\ f[1] = ":" /\ f[k + 2] = ":"
        /\ \A j \in 1..k : f[1 + j] = x[j]
    BY <1>1, SearchedText
  <2> HIDE DEF f, u, L, m, k
  <2>2. HasInfix(e, f) <=>
          \E i \in 1..(Len(e) - Len(f) + 1) : \A j \in 1..Len(f) : e[i + j - 1] = f[j]
    BY <1>3, <2>1, InfixAt
  <2>3. Len(e) - Len(f) + 1 = L + m + 2 - k
    BY <1>3, <2>1
  <2>4. ASSUME NEW i \in 1..(L + m + 2 - k)
        PROVE  (\A j \in 1..Len(f) : e[i + j - 1] = f[j]) <=>
                  /\ e[i] = ":" /\ e[i + k + 1] = ":"
                  /\ \A j \in 1..k : e[i + j] = x[j]
    <3>1. 1 \in 1..(k + 2) /\ k + 2 \in 1..(k + 2) /\ i + 1 - 1 = i /\ i + (k + 2) - 1 = i + k + 1
      BY <1>3
    <3>2. \A j \in 1..k : 1 + j \in 1..(k + 2) /\ i + (1 + j) - 1 = i + j
      BY <1>3
    <3>3. \A j \in 1..(k + 2) : j = 1 \/ j = k + 2 \/ (j - 1 \in 1..k /\ j = 1 + (j - 1))
      BY <1>3
    <3>4. ASSUME \A j \in 1..(k + 2) : e[i + j - 1] = f[j]
          PROVE  /\ e[i] = ":" /\ e[i + k + 1] = ":"
                 /\ \A j \in 1..k : e[i + j] = x[j]
      <4>1. e[i] = ":" /\ e[i + k + 1] = ":"
        BY <2>1, <3>1, <3>4
      <4>2. ASSUME NEW j \in 1..k PROVE e[i + j] = x[j]
        BY <2>1, <3>2, <3>4
      <4> QED
        BY <4>1, <4>2
    <3>5. ASSUME e[i] = ":", e[i + k + 1] = ":", \A j \in 1..k : e[i + j] = x[j],
                 NEW j \in 1..(k + 2)
          PROVE  e[i + j - 1] = f[j]
      <4>1. CASE j = 1
        BY <2>1, <3>1, <3>5, <4>1
      <4>2. CASE j = k + 2
        BY <2>1, <3>1, <3>5, <4>2
      <4>3. CASE j - 1 \in 1..k /\ j = 1 + (j - 1)
        <5>1. f[1 + (j - 1)] = x[j - 1] /\ e[i + (j - 1)] = x[j - 1] /\ i + j - 1 = i + (j - 1)
          BY <2>1, <3>5, <4>3
        <5> QED
          BY <4>3, <5>1
      <4> QED
        BY <3>3, <4>1, <4>2, <4>3
    <3> QED
      BY <2>1, <3>4, <3>5
  <2>5. HasInfix(e, f) <=>
          \E i \in 1..(L + m + 2 - k) : \A j \in 1..Len(f) : e[i + j - 1] = f[j]
    BY <2>2, <2>3, Zenon
  <2> QED
    BY <2>4, <2>5, Zenon
<1>6. EndsIn(group, <<":">> \o x) <=>
        L - k >= 1 /\ u[L - k] = ":" /\ \A j \in 1..k : u[(L - k) + j] = x[j]
  <2>1. EndsIn(group, <<":">> \o x) <=>
          n - k >= 1 /\ group[n - k] = ":" /\ \A j \in 1..k : group[(n - k) + j] = x[j]
    BY <1>1, EndsInAt
  <2>2. (L - k >= 1 /\ u[L - k] = ":" /\ \A j \in 1..k : u[(L - k) + j] = x[j]) <=>
          n - k >= 1 /\ group[n - k] = ":" /\ \A j \in 1..k : group[(n - k) + j] = x[j]
    <3>1. \A j \in 1..k : x[j] # ":"
      BY <1>4
    <3> QED
      BY <1>1, <3>1, EscapedEnd
  <2> QED
    BY <2>1, <2>2, Zenon
<1>7. \A p \in 1..L : u[p] = ":" => p >= 2 /\ u[p - 1] = "\\"
  BY <1>1, ColonsAreEscaped
<1> HIDE DEF u, L, m, k, f
<1>8. ASSUME NEW i \in 1..(L + m + 2 - k), e[i] = ":", e[i + k + 1] = ":",
             \A j \in 1..k : e[i + j] = x[j]
      PROVE  orgId = x \/ EndsIn(group, <<":">> \o x)
  <2>1. \A j \in 1..k : e[i + j] # ":"
    BY <1>4, <1>8
  <2>2. CASE i > L + 1
    <3>1. i + k + 1 <= L + m + 3 /\ i >= 1
      BY <1>3
    <3>2. CASE i <= L + m + 1
      <4>1. i - (L + 1) \in 1..m /\ i = (L + 1) + (i - (L + 1))
        BY <1>3, <2>2, <3>2
      <4>2. e[i] # ":"
        BY <1>3, <1>4, <4>1, ZenonT(30)
      <4> QED
        BY <1>8, <4>2
    <3>3. CASE i = L + m + 2
      <4>1. i + k + 1 = L + m + 3
        BY <1>3, <3>1, <3>3
      <4> QED
        BY <1>3, <1>8, <4>1
    <3>4. i <= L + m + 2
      BY <1>3, <3>1
    <3> QED
      BY <1>3, <3>2, <3>3, <3>4
  <2>3. CASE i = L + 1
    <3>1. ~(m < k)
      <4> SUFFICES ASSUME m < k PROVE FALSE
        OBVIOUS
      <4>1. m + 1 \in 1..k /\ i + (m + 1) = L + m + 2
        BY <1>3, <2>3
      <4> QED
        BY <1>3, <2>1, <4>1
    <3>2. ~(k < m)
      <4> SUFFICES ASSUME k < m PROVE FALSE
        OBVIOUS
      <4>1. k + 1 \in 1..m /\ i + k + 1 = (L + 1) + (k + 1)
        BY <1>3, <2>3
      <4>2. e[(L + 1) + (k + 1)] = orgId[k + 1] /\ orgId[k + 1] # ":"
        BY <1>3, <1>4, <4>1
      <4> DEFINE p == i + k + 1
      <4>3. e[p] = ":"
        BY <1>8
      <4>4. p = (L + 1) + (k + 1)
        BY <4>1
      <4> HIDE DEF p
      <4>5. e[p] # ":"
        BY <4>2, <4>4, Zenon
      <4> QED
        BY <4>3, <4>5, Zenon
    <3>3. m = k
      BY <1>3, <3>1, <3>2
    <3>4. \A j \in 1..k : orgId[j] = x[j]
      BY <1>3, <1>8, <2>3, <3>3
    <3>5. orgId = x
      BY <1>1, <3>3, <3>4, SeqEqual DEF Text, m, k
    <3> QED
      BY <3>5
  <2>4. CASE i <= L
    <3>1. i + k + 1 <= L + 1
      <4> SUFFICES ASSUME i + k + 1 > L + 1 PROVE FALSE
        BY <1>3
      <4>1. (L + 1) - i \in 1..k /\ i + ((L + 1) - i) = L + 1
        BY <1>3, <2>4
      <4> QED
        BY <1>3, <2>1, <4>1
    <3>2. CASE i + k + 1 = L + 1
      <4>1. i = L - k /\ L - k >= 1 /\ L - k \in 1..L
        BY <1>3, <3>2
      <4>2. \A j \in 1..k : (L - k) + j \in 1..L
        BY <1>3, <4>1
      <4>3. u[L - k] = ":" /\ \A j \in 1..k : u[(L - k) + j] = x[j]
        BY <1>3, <1>8, <4>1, <4>2
      <4> QED
        BY <1>6, <4>1, <4>3
    <3>3. CASE i + k + 1 # L + 1
      <4>1. i + k + 1 \in 1..L /\ i + k \in 1..L /\ (i + k + 1) - 1 = i + k
        BY <1>3, <2>4, <3>1, <3>3
      <4>2. u[i + k + 1] = ":" /\ u[i + k] = e[i + k]
        BY <1>3, <1>8, <4>1
      <4>3. e[i + k] = "\\"
        BY <1>7, <4>1, <4>2
      <4>4. CASE k = 0
        <5>1. i + k = i
          BY <4>4
        <5> QED
          BY <1>8, <4>3, <5>1, CharactersDiffer
      <4>5. CASE k # 0
        <5>1. k \in 1..k /\ k >= 1
          BY <1>3, <4>5
        <5> QED
          BY <1>4, <1>8, <4>3, <5>1
      <4> QED
        BY <4>4, <4>5
    <3> QED
      BY <3>2, <3>3
  <2>5. i < L + 1 \/ i = L + 1 \/ i > L + 1
    BY <1>3
  <2>6. i < L + 1 => i <= L
    BY <1>3
  <2> QED
    BY <2>2, <2>3, <2>4, <2>5, <2>6
<1>9. ASSUME orgId = x PROVE HasInfix(e, f)
  <2>1. m = k /\ L + 1 \in 1..(L + m + 2 - k) /\ (L + 1) + k + 1 = L + m + 2
    BY <1>3, <1>9 DEF m, k
  <2>2. \A j \in 1..k : e[(L + 1) + j] = x[j]
    BY <1>3, <1>9, <2>1
  <2> QED
    BY <1>3, <1>5, <2>1, <2>2
<1>10. ASSUME EndsIn(group, <<":">> \o x) PROVE HasInfix(e, f)
  <2>1. L - k >= 1 /\ u[L - k] = ":" /\ \A j \in 1..k : u[(L - k) + j] = x[j]
    BY <1>6, <1>10
  <2>2. /\ L - k \in 1..L /\ L - k \in 1..(L + m + 2 - k) /\ (L - k) + k + 1 = L + 1
        /\ \A j \in 1..k : (L - k) + j \in 1..L
    BY <1>3, <2>1
  <2>3. e[L - k] = ":" /\ e[(L - k) + k + 1] = ":" /\ \A j \in 1..k : e[(L - k) + j] = x[j]
    BY <1>3, <2>1, <2>2
  <2> QED
    BY <1>5, <2>2, <2>3
<1> QED
  BY <1>5, <1>8, <1>9, <1>10 DEF f

\* The drift check finds the orgs of the entries and those that groups end in.
LEMMA OrgsAreFound ==
    ASSUME ReadableNames, tenants \in Seq(TenantMapping)
    PROVE  SearchIsAbstract
<1> DEFINE texts == AllEntryTexts(tenants)
           text == BuildOrgMapping(tenants)
           Entry(e) == EntryText(e.group, e.orgId, e.role)
<1>1. texts \in Seq(Text)
  BY AllEntries
<1>2. \A t : t \in ToSet(texts) <=> \E e \in Published : t = Entry(e)
  BY EntriesAreWritten
<1>3. text = Join(texts)
  BY DEF BuildOrgMapping
<1> HIDE DEF texts, text, Entry
<1>9. ASSUME NEW x \in OrgIds
      PROVE  Abstract!OrgMappingContains(Published, x) <=>
                \E e \in Published : e.orgId = x \/ EndsIn(e.group, <<":">> \o x)
  <2>1. \A e \in Published :
           <<e.group, x>> \in {p \in GroupNames \X OrgIds : EndsIn(p[1], <<":">> \o p[2])}
           <=> EndsIn(e.group, <<":">> \o x)
    BY PublishedAreEntries
  <2> QED
    BY <2>1 DEF Abstract!OrgMappingContains
<1> SUFFICES ASSUME NEW x \in OrgIds
             PROVE  OrgMappingContains(text, x) <=>
                      \E e \in Published : e.orgId = x \/ EndsIn(e.group, <<":">> \o x)
  BY <1>9 DEF SearchIsAbstract, text
<1> DEFINE f == <<":">> \o x \o <<":">>
<1>4. OrgMappingContains(text, x) <=> \E part \in SplitAtCommas(text) : HasInfix(TrimSpace(part), f)
  BY DEF OrgMappingContains
<1>5. f \in Text /\ Len(f) = Len(x) + 2 /\ Len(x) \in Nat
  BY NamesAreText, SearchedText
<1>6. ASSUME NEW e \in Published
      PROVE  /\ SplitAtCommas(Entry(e)) = {Entry(e)} /\ TrimSpace(Entry(e)) = Entry(e)
             /\ HasInfix(Entry(e), f) <=> e.orgId = x \/ EndsIn(e.group, <<":">> \o x)
  <2>1. e.group \in GroupNames /\ e.orgId \in OrgIds /\ e.role \in Abstract!Roles
    BY PublishedAreEntries
  <2>2. SplitAtCommas(Entry(e)) = {Entry(e)} /\ TrimSpace(Entry(e)) = Entry(e)
    BY <2>1, EntryIsPlain DEF Entry
  <2>3. HasInfix(Entry(e), f) <=> e.orgId = x \/ EndsIn(e.group, <<":">> \o x)
    BY <2>1, OrgInEntry DEF Entry
  <2> QED
    BY <2>2, <2>3
<1> HIDE DEF f
<1>7. CASE texts = <<>>
  <2>1. Published = {}
    BY <1>2, <1>7 DEF ToSet
  <2>2. SplitAtCommas(text) = {<<>>}
    BY <1>3, <1>7, NothingIsWritten
  <2>3. TrimSpace(<<>>) = <<>>
    BY DEF TrimSpace
  <2>4. ~HasInfix(<<>>, f)
    BY <1>5 DEF HasInfix
  <2> QED
    BY <1>4, <2>1, <2>2, <2>3, <2>4
<1>8. CASE texts # <<>>
  <2>1. ASSUME NEW part
        PROVE  part \in SplitAtCommas(text) <=> \E e \in Published : part = Entry(e)
    <3>1. part \in SplitAtCommas(text) <=> \E i \in 1..Len(texts) : part \in SplitAtCommas(texts[i])
      BY <1>1, <1>3, <1>8, SplitJoin
    <3>2. \A t : t \in ToSet(texts) <=> \E i \in 1..Len(texts) : t = texts[i]
      BY <1>1 DEF ToSet
    <3>3. part \in SplitAtCommas(text) <=> \E t \in ToSet(texts) : part \in SplitAtCommas(t)
      BY <3>1, <3>2
    <3>4. \A t \in ToSet(texts) : SplitAtCommas(t) = {t}
      BY <1>2, <1>6
    <3> QED
      BY <1>2, <3>3, <3>4
  <2>2. OrgMappingContains(text, x) <=> \E e \in Published : HasInfix(TrimSpace(Entry(e)), f)
    BY <1>4, <2>1
  <2> QED
    BY <1>6, <2>2
<1> QED
  BY <1>7, <1>8

-------------------------------------------------------------------------------
(* The state machine *)

\* Every Tenant in a list has an org and lists of groups under its three roles.
LEMMA TenantsAreListed == Spec => [](tenants \in Seq(TenantMapping))
<1>1. Init => tenants \in Seq(TenantMapping)
  BY DEF Init
<1>2. tenants \in Seq(TenantMapping) /\ [Next]_tenants => (tenants \in Seq(TenantMapping))'
  <2> SUFFICES ASSUME tenants \in Seq(TenantMapping), [Next]_tenants
               PROVE  tenants' \in Seq(TenantMapping)
    OBVIOUS
  <2>1. ASSUME NEW orgId \in OrgIds, ListTenant(orgId) PROVE tenants' \in Seq(TenantMapping)
    <3>1. [orgId |-> orgId, Viewer |-> <<>>, Editor |-> <<>>, Admin |-> <<>>] \in TenantMapping
      BY DEF TenantMapping
    <3> QED
      BY <2>1, <3>1 DEF ListTenant
  <2>2. ASSUME NEW role \in Abstract!Roles, NEW group \in GroupNames, GiveRole(role, group)
        PROVE  tenants' \in Seq(TenantMapping)
    <3> DEFINE n == Len(tenants)
               t == [tenants[n] EXCEPT ![role] = Append(@, group)]
    <3>1. n \in Nat /\ n >= 1 /\ DOMAIN tenants = 1..n
      BY <2>2 DEF GiveRole
    <3>2. tenants[n] \in TenantMapping
      BY <3>1
    <3>3. t \in TenantMapping
      <4>1. tenants[n][role] \in Seq(GroupNames)
        BY <3>2 DEF TenantMapping, Abstract!Roles
      <4>2. Append(tenants[n][role], group) \in Seq(GroupNames)
        BY <4>1
      <4> HIDE DEF n
      <4> QED
        BY <3>2, <4>2 DEF TenantMapping, Abstract!Roles
    <3>4. tenants' = [tenants EXCEPT ![n] = t]
      BY <2>2 DEF GiveRole
    <3> HIDE DEF t, n
    <3> QED
      BY <3>1, <3>3, <3>4
  <2>3. CASE UNCHANGED tenants
    BY <2>3
  <2> QED
    BY <2>1, <2>2, <2>3 DEF Next
<1> QED
  BY <1>1, <1>2, PTL DEF Spec

\* isGrafanaDrifted never takes a mapping that BuildOrgMapping just wrote for drift:
\* for lists of any length and for all names of groups, however they are escaped or cut,
\* OrgMappingContains finds every org that has an entry, if no orgId has a comma.
THEOREM OrgIsNeverMissed ==
    ASSUME NoCommaInOrgIds
    PROVE  Spec => []NeverMissesAnOrg
<1>1. tenants \in Seq(TenantMapping) => NeverMissesAnOrg
  <2> SUFFICES ASSUME tenants \in Seq(TenantMapping), NEW orgId \in OrgIds,
                      Abstract!HasEntry(Published, orgId)
               PROVE  OrgMappingContains(BuildOrgMapping(tenants), orgId)
    BY DEF NeverMissesAnOrg
  <2>1. PICK e \in Published : e.orgId = orgId
    BY DEF Abstract!HasEntry
  <2> QED
    BY <2>1, OrgIsFound
<1> QED
  BY <1>1, TenantsAreListed, PTL

\* What BuildOrgMapping writes for a list of any length, splitUnescapedColon reads back
\* from its parts, entry by entry, if the names are readable.
THEOREM EntriesAlwaysSurvive ==
    ASSUME ReadableNames
    PROVE  Spec => []EntriesSurvive
<1>1. tenants \in Seq(TenantMapping) => EntriesSurvive
  BY EntriesAreReadBack
<1> QED
  BY <1>1, TenantsAreListed, PTL

\* Under the same condition ResolveOrgIDs gives a user exactly the orgs of the Tenants
\* with a group that, as a glob pattern, matches one of the user's claims.
THEOREM GrantsAlwaysResolved ==
    ASSUME ReadableNames
    PROVE  Spec => []ResolvesGrants
<1>1. tenants \in Seq(TenantMapping) => ResolvesGrants
  BY GrantsAreResolved
<1> QED
  BY <1>1, TenantsAreListed, PTL

\* Under the same condition the search of the text agrees with the search of entries
\* that OrgMapping and with it TenantController take for OrgMappingContains: the drift
\* check is modelled with exactly the mistake it makes, that of groups which end in an
\* orgId after a colon, and makes no other.
THEOREM SearchIsModelled ==
    ASSUME ReadableNames
    PROVE  Spec => []SearchIsAbstract
<1>1. tenants \in Seq(TenantMapping) => SearchIsAbstract
  BY OrgsAreFound
<1> QED
  BY <1>1, TenantsAreListed, PTL
===============================================================================
