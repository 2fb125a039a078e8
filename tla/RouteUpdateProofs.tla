--------------------------- MODULE RouteUpdateProofs ---------------------------
(* Theorems about RouteUpdate, for any requests, origins, URLs and faults.     *)
EXTENDS RouteUpdate, SequenceTheorems, FiniteSetTheorems, TLAPS

-----------------------------------------------------------------------------
(* Sets of numbers and of routes: the longest one is there.                    *)

LEMMA Greatest ==
  ASSUME NEW S \in SUBSET Nat, IsFiniteSet(S), S # {}
  PROVE  \E x \in S : \A y \in S : y <= x
  <1> DEFINE Above(x) == {y \in S : x < y}
             T == {Above(x) : x \in S}
  <1>1. T \subseteq FiniteSubsetsOf(S)
    BY FS_Subset DEF FiniteSubsetsOf
  <1>2. IsWellFoundedOn(StrictSubsetOrdering(S), FiniteSubsetsOf(S))
    BY FS_StrictSubsetOrderingWellFounded
  <1>3. T # {}
    OBVIOUS
  <1> HIDE DEF T
  <1>4. PICK A \in T : \A B \in T : <<B, A>> \notin StrictSubsetOrdering(S)
    BY <1>1, <1>2, <1>3, WFMin
  <1>5. PICK x \in S : A = Above(x)
    BY <1>4 DEF T
  <1>6. ASSUME NEW y \in S, x < y PROVE FALSE
    <2>1. Above(y) \in T
      BY DEF T
    <2>2. Above(y) \subseteq Above(x) /\ y \in Above(x) /\ y \notin Above(y)
      <3>1. S \subseteq Nat
        OBVIOUS
      <3>2. \A z \in S : (y < z => x < z) /\ ~(y < y)
        BY <1>6, <3>1
      <3>3. QED
        BY <1>6, <3>2
    <2> DEFINE B == Above(y)
    <2>3. <<B, A>> \in StrictSubsetOrdering(S)
      <3>1. B \in SUBSET S /\ A \in SUBSET S /\ B \subseteq A /\ B # A
        BY <1>5, <2>2
      <3> HIDE DEF B, Above
      <3>2. QED
        BY <3>1 DEF StrictSubsetOrdering
    <2>4. QED
      BY <1>4, <2>1, <2>3
  <1>7. QED
    BY <1>6

LEMMA MaxIs ==
  ASSUME NEW S \in SUBSET Nat, IsFiniteSet(S), S # {}
  PROVE  Max(S) \in S /\ \A y \in S : y <= Max(S)
  BY Greatest DEF Max

Table == {t \in SUBSET Route : IsFiniteSet(t)}

LEMMA PathLength == ASSUME NEW r \in Route PROVE Len(r.path) \in Nat
  BY LenProperties DEF Route

\* The image of a finite table.
LEMMA FiniteImage ==
  ASSUME NEW S, IsFiniteSet(S), NEW T, NEW f \in [S -> T]
  PROVE  IsFiniteSet({f[x] : x \in S})
  <1> DEFINE I == {f[x] : x \in S}
  <1>1. f \in Surjection(S, I)
    BY DEF Surjection
  <1>2. QED
    BY <1>1, FS_Surjection

LEMMA FirstIs ==
  ASSUME NEW t \in Table, t # {}
  PROVE  FirstOf(t) \in t /\ \A s \in t : Len(s.path) <= Len(FirstOf(t).path)
  <1> DEFINE len  == [r \in t |-> Len(r.path)]
             lens == {len[r] : r \in t}
  <1>1. IsFiniteSet(lens) /\ lens \in SUBSET Nat /\ lens # {}
    <2>1. len \in [t -> Nat]
      BY PathLength DEF Table
    <2>2. IsFiniteSet(t)
      BY DEF Table
    <2> HIDE DEF len
    <2>3. IsFiniteSet(lens)
      BY <2>1, <2>2, FiniteImage
    <2>4. QED
      BY <2>1, <2>3
  <1>2. PICK n \in lens : \A m \in lens : m <= n
    BY <1>1, Greatest
  <1>3. PICK r \in t : Len(r.path) = n
    BY <1>2
  <1>4. \A s \in t : ~Before(s, r)
    BY <1>2, <1>3, PathLength DEF Before, Table
  <1>5. FirstOf(t) \in t /\ \A s \in t : ~Before(s, FirstOf(t))
    BY <1>4 DEF FirstOf
  <1>6. QED
    BY <1>5, PathLength DEF Before, Table

-----------------------------------------------------------------------------
(* Normalisation makes tables.                                                 *)

Text == Seq(Chars)

LEMMA TrimRightText ==
  ASSUME NEW s \in Text, NEW cut
  PROVE  TrimRight(s, cut) \in Text
  <1> DEFINE keep == {i \in DOMAIN s : s[i] \notin cut}
  <1>1. Len(s) \in Nat /\ DOMAIN s = 1 .. Len(s) /\ \A i \in 1 .. Len(s) : s[i] \in Chars
    BY LenProperties, ElementOfSeq DEF Text
  <1>2. CASE keep = {}
    BY <1>2, EmptySeq DEF TrimRight, Text
  <1>3. CASE keep # {}
    <2>1. keep \in SUBSET (1 .. Len(s)) /\ IsFiniteSet(1 .. Len(s))
      BY <1>1, FS_Interval
    <2>2. keep \in SUBSET Nat /\ IsFiniteSet(keep)
      BY <1>1, <2>1, FS_Subset
    <2> HIDE DEF keep
    <2>3. Max(keep) \in 1 .. Len(s)
      BY <1>3, <2>1, <2>2, MaxIs
    <2>4. SubSeq(s, 1, Max(keep)) \in Seq(Chars)
      BY <1>1, <2>3, SubSeqProperties
    <2>5. QED
      BY <1>3, <2>4 DEF TrimRight, Text, keep
  <1>4. QED
    BY <1>2, <1>3

LEMMA ReverseText ==
  ASSUME NEW s \in Text
  PROVE  Reverse(s) \in Text
  <1>1. Len(s) \in Nat /\ \A i \in 1 .. Len(s) : s[i] \in Chars
    BY LenProperties, ElementOfSeq DEF Text
  <1>2. \A i \in 1 .. Len(s) : s[(Len(s) - i) + 1] \in Chars
    BY <1>1
  <1>3. Reverse(s) \in [1 .. Len(s) -> Chars]
    BY <1>2 DEF Reverse
  <1>4. QED
    BY <1>1, <1>3, SeqDef DEF Text

LEMMA NormalPathText ==
  ASSUME NEW s \in Text
  PROVE  NormalPath(s) \in Text
  <1>1. TrimSpace(s) \in Text
    BY TrimRightText, ReverseText DEF TrimSpace
  <1>2. QED
    BY <1>1, TrimRightText DEF NormalPath

LEMMA NormalRoute ==
  ASSUME NEW r \in Route
  PROVE  Normal(r) \in Route
  BY NormalPathText DEF Normal, Route, Text

LEMMA NormalTable ==
  ASSUME NEW q \in Seq(Route)
  PROVE  Normalize(q) \in Table
  <1> DEFINE f == [i \in DOMAIN q |-> Normal(q[i])]
  <1>1. IsFiniteSet(DOMAIN q) /\ \A i \in DOMAIN q : q[i] \in Route
    BY LenProperties, ElementOfSeq, FS_Interval
  <1>2. f \in [DOMAIN q -> Route]
    BY <1>1, NormalRoute
  <1>3. Normalize(q) = {f[i] : i \in DOMAIN q}
    BY DEF Normalize
  <1> HIDE DEF f
  <1>4. IsFiniteSet(Normalize(q))
    <2>1. IsFiniteSet({f[i] : i \in DOMAIN q})
      BY <1>1, <1>2, FiniteImage
    <2>2. QED
      BY <1>3, <2>1
  <1>5. Normalize(q) \subseteq Route
    BY <1>2, <1>3
  <1>6. QED
    BY <1>4, <1>5 DEF Table

LEMMA SequenceOf ==
  ASSUME NEW t \in Table
  PROVE  SetToSeq(t) \in Seq(Route)
  <1>1. Cardinality(t) \in Nat /\ ExistsBijection(1 .. Cardinality(t), t)
    BY FS_CardinalityType DEF Table
  <1>2. \E f \in [1 .. Cardinality(t) -> t] : IsInjective(f)
    BY <1>1 DEF ExistsBijection, Bijection, Injection
  <1>3. SetToSeq(t) \in [1 .. Cardinality(t) -> t]
    BY <1>2 DEF SetToSeq
  <1>4. SetToSeq(t) \in Seq(t)
    BY <1>1, <1>3, SeqDef
  <1>5. t \subseteq Route
    BY DEF Table
  <1>6. QED
    BY <1>4, <1>5, SeqMonotonic

LEMMA OriginTable ==
  ASSUME NEW t \in Table, NEW o \in Origins
  PROVE  WithOrigin(t, o) \in Table
  <1> DEFINE f == [r \in t |-> IF r.path = Root THEN [r EXCEPT !.origin = o] ELSE r]
  <1>1. f \in [t -> Route] /\ IsFiniteSet(t)
    BY DEF Route, Table
  <1>2. WithOrigin(t, o) = {f[r] : r \in t}
    BY DEF WithOrigin
  <1> HIDE DEF f
  <1>3. IsFiniteSet(WithOrigin(t, o)) /\ WithOrigin(t, o) \subseteq Route
    <2>1. IsFiniteSet({f[r] : r \in t})
      BY <1>1, FiniteImage
    <2>2. QED
      BY <1>1, <1>2, <2>1
  <1>4. QED
    BY <1>3 DEF Table

\* An accepted table has a route for "/", and never a stripped one.
Rooted(t) ==
  /\ \E r \in t : r.path = Root
  /\ \A r \in t : r.path = Root => ~r.strip

LEMMA AcceptedRooted ==
  ASSUME NEW q \in Seq(Route), NEW legacy, Accepted(q, legacy)
  PROVE  Rooted(Normalize(q))
  <1>1. \A i \in DOMAIN q : q[i] \in Route
    BY LenProperties, ElementOfSeq
  <1>2. \A r \in Route : Normal(r).strip = r.strip
    BY DEF Normal, Route
  <1>3. QED
    BY <1>1, <1>2 DEF Accepted, Normalize, Rooted

LEMMA TablesRooted == \A t \in Tables : t \in Table /\ Rooted(t)
  BY NormalTable, AcceptedRooted, RequestsAssumption DEF Tables

LEMMA StrippedTable == ASSUME NEW t \in Table PROVE Stripped(t) \in Table
  BY FS_Subset DEF Stripped, Table

LEMMA TransitionTable ==
  ASSUME NEW t \in Table, NEW u \in Table
  PROVE  Transition(t, u) \in Table
  <1> DEFINE kept == {r \in Stripped(t) : \A n \in Stripped(u) : n.path # r.path}
  <1>1. Stripped(t) \in Table /\ Stripped(u) \in Table
    BY StrippedTable
  <1>2. IsFiniteSet(kept) /\ kept \subseteq Route
    BY <1>1, FS_Subset DEF Table
  <1>3. IsFiniteSet(Stripped(u) \cup kept)
    BY <1>1, <1>2, FS_Union DEF Table
  <1>4. QED
    BY <1>1, <1>2, <1>3 DEF Transition, Table

-----------------------------------------------------------------------------
(* Two ways to match, and the promise: the same prefixes of a URL.             *)

\* path is a prefix of url up to the end of a segment.
Fits(url, path) ==
  /\ Len(path) <= Len(url)
  /\ \A i \in 1 .. Len(path) : url[i] = path[i]
  /\ Len(path) = Len(url) \/ url[Len(path) + 1] = "/"

LEMMA PrefixIs ==
  ASSUME NEW s \in Text, NEW t \in Text
  PROVE  IsPrefix(s, t) <=> Len(s) <= Len(t) /\ \A i \in 1 .. Len(s) : t[i] = s[i]
  <1>1. Len(s) \in Nat /\ Len(t) \in Nat /\ \A i \in 1 .. Len(t) : t[i] \in Chars
    BY LenProperties, ElementOfSeq DEF Text
  <1>2. SubSeq(s, 1, Len(s)) = s
    BY SubSeqFull DEF Text
  <1>3. CASE Len(s) <= Len(t)
    <2> DEFINE u == SubSeq(t, 1, Len(s))
    <2>1. /\ u \in Text /\ Len(u) = IF 1 <= Len(s) THEN Len(s) - 1 + 1 ELSE 0
          /\ \A i \in 1 .. Len(s) - 1 + 1 : u[i] = t[1 + i - 1]
      BY <1>1, <1>3, SubSeqProperties DEF Text
    <2>2. Len(u) = Len(s) /\ \A i \in 1 .. Len(s) : u[i] = t[i]
      BY <1>1, <2>1
    <2>3. IsPrefix(s, t) <=> s = u
      BY <1>2, <1>3 DEF IsPrefix
    <2> HIDE DEF u
    <2>4. s = u <=> \A i \in 1 .. Len(s) : u[i] = s[i]
      BY <2>1, <2>2, SeqEqual DEF Text
    <2>5. QED
      BY <1>3, <2>2, <2>3, <2>4
  <1>4. QED
    BY <1>3 DEF IsPrefix

LEMMA OneElement ==
  ASSUME NEW S, NEW x \in S
  PROVE  <<x>> \in Seq(S) /\ Len(<<x>>) = 1 /\ <<x>>[1] = x
  OBVIOUS

LEMMA UrlText ==
  ASSUME NEW url \in Urls
  PROVE  /\ url \in Text /\ Len(url) \in Nat \ {0} /\ url[1] = "/"
         /\ Root \in Text /\ Len(Root) = 1 /\ Root[1] = "/"
  <1>1. url \in Text /\ url # <<>> /\ url[1] = "/"
    BY UrlsAssumption DEF Text
  <1>2. Len(url) \in Nat \ {0}
    BY <1>1, EmptySeq DEF Text
  <1>3. url[1] \in Chars
    BY <1>1, <1>2, ElementOfSeq DEF Text
  <1>4. <<url[1]>> \in Seq(Chars) /\ Len(<<url[1]>>) = 1 /\ <<url[1]>>[1] = url[1]
    BY <1>3, OneElement
  <1>5. QED
    BY <1>1, <1>2, <1>3, <1>4 DEF Root, Text

LEMMA MatchesFits ==
  ASSUME NEW url \in Urls, NEW path \in Text
  PROVE  Matches(url, path) <=> Fits(url, path)
  <1> DEFINE s == path \o Root
  <1>1. Len(url) \in Nat /\ Len(path) \in Nat /\ url \in Text
    BY LenProperties, UrlText DEF Text
  <1>2. Root \in Text /\ Len(Root) = 1 /\ Root[1] = "/"
    BY UrlText
  <1>3. /\ s \in Text /\ Len(s) = Len(path) + 1
        /\ \A i \in 1 .. Len(path) : s[i] = path[i]
        /\ s[Len(path) + 1] = "/"
    <2>1. /\ s \in Seq(Chars) /\ Len(s) = Len(path) + Len(Root)
          /\ \A i \in 1 .. Len(path) + Len(Root) :
               s[i] = IF i <= Len(path) THEN path[i] ELSE Root[i - Len(path)]
      BY <1>2, ConcatProperties DEF Text
    <2> HIDE DEF s
    <2>2. \A i \in 1 .. Len(path) + 1 :
            s[i] = IF i <= Len(path) THEN path[i] ELSE Root[i - Len(path)]
      BY <1>2, <2>1
    <2>3. \A i \in 1 .. Len(path) : i \in 1 .. Len(path) + 1 /\ i <= Len(path)
      BY <1>1
    <2>4. /\ Len(path) + 1 \in 1 .. Len(path) + 1 /\ ~(Len(path) + 1 <= Len(path))
          /\ (Len(path) + 1) - Len(path) = 1
      BY <1>1
    <2>5. QED
      BY <1>2, <2>1, <2>2, <2>3, <2>4 DEF Text
  <1> HIDE DEF s
  <1>4. IsPrefix(s, url) <=> Len(s) <= Len(url) /\ \A i \in 1 .. Len(s) : url[i] = s[i]
    BY <1>1, <1>3, PrefixIs
  <1>5. url = path <=> Len(path) = Len(url) /\ \A i \in 1 .. Len(path) : url[i] = path[i]
    BY <1>1, SeqEqual DEF Text
  <1>6. (\A i \in 1 .. Len(s) : url[i] = s[i])
          <=> (\A i \in 1 .. Len(path) : url[i] = path[i]) /\ url[Len(path) + 1] = "/"
    BY <1>1, <1>3
  <1>7. QED
    BY <1>1, <1>3, <1>4, <1>5, <1>6 DEF Matches, Fits, s, Root

LEMMA SegmentsFit ==
  ASSUME NEW url \in Text, NEW path \in Text, Len(path) > 0
  PROVE  path \in Segments(url) <=> Fits(url, path)
  <1>1. Len(url) \in Nat /\ Len(path) \in Nat /\ \A i \in 1 .. Len(url) : url[i] \in Chars
    BY LenProperties, ElementOfSeq DEF Text
  <1>2. ASSUME NEW n \in 1 .. Len(url)
        PROVE  path = SubSeq(url, 1, n) <=> n = Len(path) /\ \A i \in 1 .. n : url[i] = path[i]
    <2> DEFINE u == SubSeq(url, 1, n)
    <2>1. /\ u \in Text /\ Len(u) = IF 1 <= n THEN n - 1 + 1 ELSE 0
          /\ \A i \in 1 .. n - 1 + 1 : u[i] = url[1 + i - 1]
      BY <1>1, SubSeqProperties DEF Text
    <2>2. Len(u) = n /\ \A i \in 1 .. n : u[i] = url[i]
      BY <1>1, <2>1
    <2> HIDE DEF u
    <2>3. path = u <=> Len(path) = Len(u) /\ \A i \in 1 .. Len(path) : path[i] = u[i]
      BY <2>1, SeqEqual DEF Text
    <2>4. path = u <=> n = Len(path) /\ \A i \in 1 .. n : url[i] = path[i]
      BY <2>2, <2>3
    <2>5. QED
      BY <2>4 DEF u
  <1>3. path \in Segments(url)
          <=> \E n \in 1 .. Len(url) : /\ n = Len(url) \/ url[n + 1] = "/"
                                       /\ path = SubSeq(url, 1, n)
    BY DEF Segments
  <1>4. path \in Segments(url)
          <=> \E n \in 1 .. Len(url) : /\ n = Len(url) \/ url[n + 1] = "/"
                                       /\ n = Len(path) /\ \A i \in 1 .. n : url[i] = path[i]
    BY <1>2, <1>3
  <1>5. QED
    BY <1>1, <1>4 DEF Fits


-----------------------------------------------------------------------------
(* What a URL is answered by.                                                  *)

\* The paths that cloudflared matches: "/" in any case.
Under(url, path) == path = Root \/ Fits(url, path)

LEMMA UnderAgrees ==
  ASSUME NEW url \in Urls, NEW path \in Text, Under(url, path)
  PROVE  Len(path) \in Nat /\ \A i \in 1 .. Len(path) : path[i] = url[i]
  <1>1. Len(path) \in Nat
    BY LenProperties DEF Text
  <1>2. CASE path = Root
    <2>1. \A i \in 1 .. 1 : i = 1
      OBVIOUS
    <2>2. QED
      BY <1>1, <1>2, <2>1, UrlText
  <1>3. CASE Fits(url, path)
    BY <1>1, <1>3 DEF Fits
  <1>4. QED
    BY <1>2, <1>3 DEF Under

\* Of the prefixes of a URL there is one of each length: the lexical order among
\* paths of one length does not matter.
LEMMA OneOfEachLength ==
  ASSUME NEW url \in Urls, NEW p \in Text, NEW q \in Text,
         Under(url, p), Under(url, q), Len(p) = Len(q)
  PROVE  p = q
  <1>1. \A i \in 1 .. Len(p) : p[i] = q[i]
    BY UnderAgrees
  <1>2. QED
    BY <1>1, SeqEqual DEF Text

LEMMA SubTable ==
  ASSUME NEW t \in Table, NEW u \in SUBSET t
  PROVE  u \in Table
  BY FS_Subset DEF Table

LEMMA RoutePath == ASSUME NEW r \in Route PROVE r.path \in Text
  BY DEF Route, Text

LEMMA EdgeIsLongest ==
  ASSUME NEW t \in Table, Rooted(t), NEW url \in Urls
  PROVE  LET e == EdgeRule(t, url) IN
         /\ e \in t /\ Under(url, e.path)
         /\ \A s \in t : Under(url, s.path) => Len(s.path) <= Len(e.path)
  <1> DEFINE u == {r \in t : r.path = Root \/ Matches(url, r.path)}
  <1>1. t \subseteq Route
    BY DEF Table
  <1>2. \A r \in t : (r.path = Root \/ Matches(url, r.path)) <=> Under(url, r.path)
    BY <1>1, MatchesFits, RoutePath DEF Under
  <1>3. u \in Table /\ u # {}
    BY SubTable DEF Rooted
  <1>4. EdgeRule(t, url) = FirstOf(u)
    BY DEF EdgeRule
  <1>5. \A r : r \in u <=> r \in t /\ Under(url, r.path)
    BY <1>2
  <1> HIDE DEF u
  <1>6. FirstOf(u) \in u /\ \A s \in u : Len(s.path) <= Len(FirstOf(u).path)
    BY <1>3, FirstIs
  <1>7. QED
    BY <1>4, <1>5, <1>6

LEMMA ProxyIsLongest ==
  ASSUME NEW p \in Table, NEW url \in Urls,
         NEW r \in p, Fits(url, r.path)
  PROVE  LET h == ProxyRule(p, url) IN
         /\ h \in p /\ Fits(url, h.path)
         /\ \A s \in p : Fits(url, s.path) => Len(s.path) <= Len(h.path)
  <1> DEFINE u == {s \in p : Matches(url, s.path)}
  <1>1. p \subseteq Route
    BY DEF Table
  <1>2. \A s \in p : Matches(url, s.path) <=> Fits(url, s.path)
    BY <1>1, MatchesFits, RoutePath
  <1>3. u \in Table /\ u # {}
    BY <1>2, SubTable
  <1>4. ProxyRule(p, url) = FirstOf(u)
    BY DEF ProxyRule
  <1>5. \A s : s \in u <=> s \in p /\ Fits(url, s.path)
    BY <1>2
  <1> HIDE DEF u
  <1>6. FirstOf(u) \in u /\ \A s \in u : Len(s.path) <= Len(FirstOf(u).path)
    BY <1>3, FirstIs
  <1>7. QED
    BY <1>4, <1>5, <1>6

\* The promise counts the prefixes by segments.
LEMMA CoversUnder ==
  ASSUME NEW r \in Route, NEW url \in Urls, Len(r.path) > 0
  PROVE  Covers(r, url) <=> Under(url, r.path)
  BY SegmentsFit, RoutePath, UrlText DEF Covers, Under

LEMMA CoversHasLength ==
  ASSUME NEW r \in Route, NEW url \in Urls, Covers(r, url)
  PROVE  Len(r.path) > 0
  <1>1. CASE r.path = Root
    BY <1>1, UrlText
  <1>2. CASE r.path \in Segments(url)
    <2>1. Len(url) \in Nat /\ \A i \in 1 .. Len(url) : url[i] \in Chars
      BY UrlText, ElementOfSeq DEF Text
    <2>2. PICK n \in 1 .. Len(url) : r.path = SubSeq(url, 1, n)
      BY <1>2 DEF Segments
    <2>3. Len(SubSeq(url, 1, n)) = IF 1 <= n THEN n - 1 + 1 ELSE 0
      BY <2>1, SubSeqProperties
    <2>4. QED
      BY <2>1, <2>2, <2>3
  <1>3. QED
    BY <1>1, <1>2 DEF Covers

LEMMA EdgeCovers ==
  ASSUME NEW t \in Table, Rooted(t), NEW url \in Urls
  PROVE  Len(EdgeRule(t, url).path) > 0 /\ Covers(EdgeRule(t, url), url)
  <1> DEFINE e == EdgeRule(t, url)
  <1>1. /\ e \in t /\ Under(url, e.path)
        /\ \A s \in t : Under(url, s.path) => Len(s.path) <= Len(e.path)
    BY EdgeIsLongest
  <1> HIDE DEF e
  <1>2. PICK r \in t : r.path = Root
    BY DEF Rooted
  <1>3. Len(r.path) = 1 /\ Under(url, r.path)
    BY <1>2, UrlText DEF Under
  <1>4. e \in Route /\ Len(e.path) \in Nat
    BY <1>1, PathLength DEF Table
  <1>5. Len(r.path) <= Len(e.path)
    BY <1>1, <1>3
  <1>6. Len(e.path) > 0
    BY <1>3, <1>4, <1>5
  <1>7. QED
    BY <1>1, <1>4, <1>6, CoversUnder DEF e


\* No path twice.
Unique(t) == \A r, s \in t : r.path = s.path => r = s

\* The tables that requests and tunnels have.
Sound(t) == t \in Table /\ Rooted(t) /\ Unique(t)

LEMMA AcceptedSound ==
  ASSUME NEW q \in Seq(Route), NEW legacy, Accepted(q, legacy)
  PROVE  Sound(Normalize(q))
  <1>1. Unique(Normalize(q))
    BY DEF Accepted, Normalize, Unique
  <1>2. QED
    BY <1>1, NormalTable, AcceptedRooted DEF Sound

LEMMA PromiseIsEdge ==
  ASSUME NEW t, Sound(t), NEW url \in Urls
  PROVE  Promised(t, url) = AnswerOf(EdgeRule(t, url), url)
  <1> DEFINE e == EdgeRule(t, url)
             Best(r) == Covers(r, url) /\ \A s \in t : Covers(s, url) => Len(s.path) <= Len(r.path)
  <1>1. t \in Table /\ t \subseteq Route /\ Rooted(t)
    BY DEF Sound, Table
  <1>2. /\ e \in t /\ Under(url, e.path) /\ Covers(e, url)
        /\ \A s \in t : Under(url, s.path) => Len(s.path) <= Len(e.path)
    BY <1>1, EdgeIsLongest, EdgeCovers
  <1> HIDE DEF e
  <1>3. \A s \in t : Covers(s, url) => Under(url, s.path)
    BY <1>1, CoversUnder, CoversHasLength
  <1>4. Best(e)
    BY <1>2, <1>3
  <1>5. ASSUME NEW r \in t, Best(r)
        PROVE  r = e
    <2>1. Covers(r, url) /\ Len(e.path) <= Len(r.path)
      BY <1>2, <1>5
    <2>2. Under(url, r.path) /\ Len(r.path) <= Len(e.path)
      BY <1>2, <1>3, <2>1
    <2>3. /\ r.path \in Text /\ e.path \in Text
          /\ Len(r.path) \in Nat /\ Len(e.path) \in Nat
      BY <1>1, <1>2, RoutePath, PathLength
    <2>4. Len(r.path) = Len(e.path)
      BY <2>1, <2>2, <2>3
    <2>5. r.path = e.path
      BY <1>2, <2>2, <2>3, <2>4, OneOfEachLength
    <2>6. QED
      BY <1>2, <2>5 DEF Sound, Unique
  <1>6. Longest(t, url) = CHOOSE r \in t : Best(r)
    BY DEF Longest
  <1> HIDE DEF Best
  <1>7. Longest(t, url) = e
    BY <1>2, <1>4, <1>5, <1>6
  <1>8. QED
    BY <1>7 DEF Promised, e

\* A stripped route of the edge is no route for "/".
LEMMA StrippedFits ==
  ASSUME NEW t \in Table, Rooted(t), NEW url \in Urls, NEW r \in t, r.strip, Under(url, r.path)
  PROVE  Fits(url, r.path)
  BY DEF Rooted, Under

\* The snapshot of the table itself: the rule that the edge took wins again.
LEMMA AnswerAtRest ==
  ASSUME NEW t, Sound(t), NEW url \in Urls
  PROVE  Answer(t, Stripped(t), url) = AnswerOf(EdgeRule(t, url), url)
  <1> DEFINE e == EdgeRule(t, url)
             h == ProxyRule(Stripped(t), url)
  <1>1. t \in Table /\ t \subseteq Route /\ Rooted(t)
    BY DEF Sound, Table
  <1>2. /\ e \in t /\ Under(url, e.path)
        /\ \A s \in t : Under(url, s.path) => Len(s.path) <= Len(e.path)
    BY <1>1, EdgeIsLongest
  <1>3. e # NoRoute
    BY <1>1, <1>2, NothingAssumption
  <1>4. e.strip \in BOOLEAN
    BY <1>1, <1>2 DEF Route
  <1>5. CASE ~e.strip
    <2> HIDE DEF e, h
    <2>1. Answer(t, Stripped(t), url) = Direct(e, url)
      BY <1>3, <1>5 DEF Answer, e, h
    <2>2. QED
      BY <1>5, <2>1 DEF AnswerOf, e
  <1>6. CASE e.strip
    <2>1. e \in Stripped(t) /\ Fits(url, e.path) /\ Stripped(t) \in Table
      BY <1>1, <1>2, <1>6, StrippedFits, StrippedTable DEF Stripped
    <2> HIDE DEF e
    <2>2. /\ h \in Stripped(t) /\ Fits(url, h.path)
          /\ \A s \in Stripped(t) : Fits(url, s.path) => Len(s.path) <= Len(h.path)
      BY <2>1, ProxyIsLongest
    <2> HIDE DEF h
    <2>3. h \in t /\ Len(e.path) <= Len(h.path)
      BY <2>1, <2>2 DEF Stripped
    <2>4. Under(url, h.path) /\ Len(h.path) <= Len(e.path)
      BY <1>2, <2>2, <2>3 DEF Under
    <2>5. /\ h.path \in Text /\ e.path \in Text
          /\ Len(h.path) \in Nat /\ Len(e.path) \in Nat
      BY <1>1, <1>2, <2>3, RoutePath, PathLength
    <2>6. Len(h.path) = Len(e.path)
      BY <2>3, <2>4, <2>5
    <2>7. h = e
      <3>1. h.path = e.path
        BY <1>2, <2>4, <2>5, <2>6, OneOfEachLength
      <3>2. QED
        BY <1>2, <2>3, <3>1 DEF Sound, Unique
    <2>8. Answer(t, Stripped(t), url) = Stripping(e, url)
      BY <1>3, <1>6, <2>7 DEF Answer, e, h
    <2>9. QED
      BY <1>6, <2>8 DEF AnswerOf, e
  <1>7. QED
    BY <1>4, <1>5, <1>6

\* Every stripped route of t has one of the same path here.
Backed(t, p) == \A r \in Stripped(t) : \E s \in p : s.path = r.path

\* Then the edge's choice is answered here, by a route at least as long.
LEMMA AnswerBacked ==
  ASSUME NEW t, Sound(t), NEW p \in Table, Backed(t, p), \A r \in p : r.strip, NEW url \in Urls
  PROVE  \E r \in t \cup p : Covers(r, url) /\ Answer(t, p, url) = AnswerOf(r, url)
  <1> DEFINE e == EdgeRule(t, url)
             h == ProxyRule(p, url)
  <1>1. t \in Table /\ t \subseteq Route /\ Rooted(t) /\ p \subseteq Route
    BY DEF Sound, Table
  <1>2. /\ e \in t /\ Under(url, e.path) /\ Covers(e, url) /\ Len(e.path) > 0
        /\ \A s \in t : Under(url, s.path) => Len(s.path) <= Len(e.path)
    BY <1>1, EdgeIsLongest, EdgeCovers
  <1>3. e # NoRoute
    BY <1>1, <1>2, NothingAssumption
  <1>4. e.strip \in BOOLEAN
    BY <1>1, <1>2 DEF Route
  <1>5. CASE ~e.strip
    <2> HIDE DEF e, h
    <2>1. Answer(t, p, url) = Direct(e, url)
      BY <1>3, <1>5 DEF Answer, e, h
    <2>2. QED
      BY <1>2, <1>5, <2>1 DEF AnswerOf
  <1>6. CASE e.strip
    <2>1. e \in Stripped(t) /\ Fits(url, e.path)
      BY <1>1, <1>2, <1>6, StrippedFits DEF Stripped
    <2> HIDE DEF e
    <2>2. PICK s \in p : s.path = e.path
      BY <2>1 DEF Backed
    <2>3. /\ h \in p /\ Fits(url, h.path)
          /\ \A r \in p : Fits(url, r.path) => Len(r.path) <= Len(h.path)
      BY <2>1, <2>2, ProxyIsLongest
    <2> HIDE DEF h
    <2>4. Len(e.path) <= Len(h.path)
      BY <2>1, <2>2, <2>3
    <2>5. Len(h.path) \in Nat /\ Len(e.path) \in Nat
      BY <1>1, <1>2, <2>3, PathLength
    <2>6. Len(h.path) > 0 /\ Under(url, h.path)
      BY <1>2, <2>3, <2>4, <2>5 DEF Under
    <2>7. Covers(h, url)
      BY <1>1, <2>3, <2>6, CoversUnder
    <2>8. h # NoRoute /\ h.strip
      BY <1>1, <2>3, NothingAssumption
    <2>9. Answer(t, p, url) = Stripping(h, url)
      BY <1>3, <1>6, <2>8 DEF Answer, e, h
    <2>10. QED
      BY <2>3, <2>7, <2>8, <2>9 DEF AnswerOf
  <1>7. QED
    BY <1>4, <1>5, <1>6

LEMMA OwnBacked == ASSUME NEW t PROVE Backed(t, Stripped(t))
  BY DEF Backed

LEMMA TransitionBacked ==
  ASSUME NEW t, NEW u
  PROVE  Backed(t, Transition(t, u)) /\ Backed(u, Transition(t, u))
  BY DEF Backed, Transition

\* What the snapshot of a transition serves belongs to one of the two tables.
LEMMA TransitionOf ==
  ASSUME NEW t, NEW u
  PROVE  /\ Transition(t, u) \subseteq t \cup u
         /\ \A r \in Transition(t, u) : r.strip
  BY DEF Transition, Stripped


\* An answer, never a 404.
LEMMA AnswerIsAnswer ==
  ASSUME NEW r \in Route, NEW url \in Urls
  PROVE  AnswerOf(r, url) # NoRoute
  <1>1. Len(r.path) \in Nat /\ Len(url) \in Nat /\ r.origin \in Origins
    BY PathLength, UrlText DEF Route
  <1>2. \A i \in Len(r.path) + 1 .. Len(url) : url[i] \in Chars
    BY <1>1, UrlText, ElementOfSeq DEF Text
  <1>3. SubSeq(url, Len(r.path) + 1, Len(url)) \in Text
    BY <1>1, <1>2, SubSeqProperties DEF Text
  <1>4. Forwarded(url, r.path) \in Text
    BY <1>3, UrlText DEF Forwarded
  <1>5. AnswerOf(r, url) \in [origin : Origins, path : Seq(Chars)]
    BY <1>1, <1>4, UrlText DEF AnswerOf, Stripping, Direct, Text
  <1>6. QED
    BY <1>5, NothingAssumption

-----------------------------------------------------------------------------
(* The inductive invariant.                                                    *)

Replacing == {"prepare", "put", "persist", "undo", "commit"}
Deleting  == {"cleanup", "remove", "delete", "restore"}

Maybe(t) == t = NoTable \/ Sound(t)

Typed ==
  /\ Maybe(edge) /\ Maybe(db)
  /\ proxy = NoTable \/ (proxy \in Table /\ \A r \in proxy : r.strip)
  /\ holder \in Callers \cup {NoCaller}
  /\ req \in [Callers -> [at  : {"idle"} \cup Replacing \cup Deleting,
                          old : (SUBSET Route) \cup {NoTable},
                          new : (SUBSET Route) \cup {NoTable}]]
  /\ up \in BOOLEAN
  /\ faults \in FaultSets

\* Nobody is under way but the request inside.
Locked == \A c \in Callers : req[c].at # "idle" <=> holder = c

\* What each place of the request inside says of the three copies, whatever goes wrong.
Stage(q) ==
  /\ q.at \in Replacing => Sound(q.old) /\ Sound(q.new)
  /\ q.at \in {"prepare", "put", "persist", "undo"} \cup Deleting => db = q.old /\ db # NoTable
  /\ q.at \in {"persist", "undo"} => edge = q.new
  /\ q.at = "commit" => db = q.new
  /\ q.at \in {"delete", "restore"} => proxy = NoTable

\* The tunnel has the stored routes, or is gone.
Followed == db # NoTable => edge = NoTable \/ edge = db
Hydrated == db # NoTable => proxy = Stripped(db)

Stages ==
  /\ holder = NoCaller /\ db = NoTable => proxy = NoTable
  /\ \A c \in Callers : Stage(req[c])

\* ... and when nothing goes wrong that is not compensated.
Compensated(q) ==
  /\ q.at \in {"prepare", "put"} \cup Deleting => Followed
  /\ q.at \in {"prepare", "cleanup", "remove"} => Hydrated
  /\ q.at \in {"put", "persist", "undo", "commit"} => proxy = Transition(q.old, q.new)
  /\ q.at = "commit" => edge = q.new

Inv ==
  /\ Typed /\ Locked /\ Stages
  /\ Compensable =>
       /\ holder = NoCaller => Followed /\ Hydrated
       /\ \A c \in Callers : Compensated(req[c])

LEMMA StrippedIs ==
  ASSUME NEW t, Sound(t)
  PROVE  Stripped(t) \in Table /\ \A r \in Stripped(t) : r.strip
  BY StrippedTable DEF Sound, Stripped

LEMMA TransitionIs ==
  ASSUME NEW t, Sound(t), NEW u, Sound(u)
  PROVE  Transition(t, u) \in Table /\ \A r \in Transition(t, u) : r.strip
  BY TransitionTable, TransitionOf DEF Sound

LEMMA SoundIs == ASSUME NEW t, Sound(t) PROVE t \in SUBSET Route /\ t # NoTable
  BY NothingAssumption DEF Sound, Table

LEMMA TableIsThere == ASSUME NEW t \in Table PROVE t # NoTable
  BY NothingAssumption DEF Table

LEMMA TablesSound == \A t \in Tables : Sound(t)
  BY AcceptedSound, RequestsAssumption DEF Tables

LEMMA RootText == Root \in Text
  BY CharsAssumption DEF Root, Text

LEMMA MigratedSound == \A t \in Migrated : Sound(t)
  <1> SUFFICES ASSUME NEW o \in Origins
               PROVE  Sound({[path |-> Root, origin |-> o, strip |-> FALSE]})
    BY DEF Migrated
  <1> DEFINE r == [path |-> Root, origin |-> o, strip |-> FALSE]
  <1>1. r \in Route
    BY RootText DEF Route, Text
  <1>2. {r} \in Table
    BY <1>1, FS_Singleton DEF Table
  <1>3. r.path = Root /\ r.strip = FALSE
    OBVIOUS
  <1> HIDE DEF r
  <1>4. Rooted({r}) /\ Unique({r})
    BY <1>3 DEF Rooted, Unique
  <1>5. QED
    BY <1>2, <1>4 DEF Sound, r

LEMMA InitInv == Init => Inv
  <1> SUFFICES ASSUME Init PROVE Inv
    OBVIOUS
  <1>1. PICK t \in Tables \cup Migrated : edge = t /\ db = t /\ proxy = Stripped(t)
    BY DEF Init
  <1>2. Sound(t)
    BY TablesSound, MigratedSound
  <1>3. Stripped(t) \in Table /\ (\A r \in Stripped(t) : r.strip) /\ t # NoTable
    BY <1>2, StrippedIs, SoundIs
  <1> USE DEF Init, Idle
  <1>4. Typed
    BY <1>1, <1>2, <1>3 DEF Typed, Maybe
  <1>5. Locked
    <2>1. \A c \in Callers : req[c].at = "idle" /\ holder # c
      BY NothingAssumption
    <2>2. QED
      BY <2>1 DEF Locked
  <1>6. Stages
    BY <1>1, <1>3 DEF Stages, Stage, Replacing, Deleting
  <1>7. Followed /\ Hydrated /\ \A c \in Callers : Compensated(req[c])
    BY <1>1, <1>3 DEF Followed, Hydrated, Compensated, Deleting
  <1>8. QED
    BY <1>4, <1>5, <1>6, <1>7 DEF Inv


Busy == Replacing \cup Deleting

Kept(t) == t = NoTable \/ (t \in Table /\ \A r \in t : r.strip)

\* A step of the request inside that leaves it inside.
LEMMA GotoInv ==
  ASSUME Inv, NEW c \in Callers, NEW from \in Busy, NEW to \in Busy, Goto(c, from, to),
         UNCHANGED <<holder, up, faults>>,
         Maybe(edge'), Maybe(db'), Kept(proxy'),
         Stage(req[c])', Compensable => Compensated(req[c])'
  PROVE  Inv'
  <1>1. /\ req \in [Callers -> [at  : {"idle"} \cup Busy,
                                old : (SUBSET Route) \cup {NoTable},
                                new : (SUBSET Route) \cup {NoTable}]]
        /\ holder \in Callers \cup {NoCaller} /\ up \in BOOLEAN /\ faults \in FaultSets
    BY DEF Inv, Typed, Busy
  <1>2. from # "idle" /\ to # "idle"
    BY DEF Busy, Replacing, Deleting
  <1>3. req[c].at = from /\ req' = [req EXCEPT ![c].at = to]
    BY DEF Goto
  <1>4. req' \in [Callers -> [at  : {"idle"} \cup Busy,
                              old : (SUBSET Route) \cup {NoTable},
                              new : (SUBSET Route) \cup {NoTable}]]
    BY <1>1, <1>3
  <1>5. Typed'
    BY <1>1, <1>4 DEF Typed, Maybe, Kept, Busy, Table
  <1>6. holder = c /\ req'[c].at = to
    BY <1>1, <1>2, <1>3 DEF Inv, Locked
  <1>7. \A c2 \in Callers : c2 # c => req'[c2] = req[c2] /\ req[c2].at = "idle"
    BY <1>1, <1>3, <1>6 DEF Inv, Locked
  <1>8. Locked'
    BY <1>2, <1>6, <1>7 DEF Locked
  <1>9. \A c2 \in Callers : Stage(req[c2])' /\ (Compensable => Compensated(req[c2])')
    BY <1>7 DEF Stage, Compensated, Replacing, Deleting
  <1>10. holder' # NoCaller
    BY <1>6, NothingAssumption
  <1>11. QED
    BY <1>5, <1>8, <1>9, <1>10 DEF Inv, Stages, Compensable

\* The last step of a request.
LEMMA ReturnInv ==
  ASSUME Inv, NEW c \in Callers, NEW from \in Busy, Return(c, from),
         UNCHANGED <<up, faults>>,
         Maybe(edge'), Maybe(db'), Kept(proxy'),
         db' = NoTable => proxy' = NoTable,
         Compensable => Followed' /\ Hydrated'
  PROVE  Inv'
  <1>1. /\ req \in [Callers -> [at  : {"idle"} \cup Busy,
                                old : (SUBSET Route) \cup {NoTable},
                                new : (SUBSET Route) \cup {NoTable}]]
        /\ up \in BOOLEAN /\ faults \in FaultSets
    BY DEF Inv, Typed, Busy
  <1>2. from # "idle"
    BY DEF Busy, Replacing, Deleting
  <1>3. req[c].at = from /\ req' = [req EXCEPT ![c] = Idle] /\ holder' = NoCaller
    BY DEF Return
  <1>4. req' \in [Callers -> [at  : {"idle"} \cup Busy,
                              old : (SUBSET Route) \cup {NoTable},
                              new : (SUBSET Route) \cup {NoTable}]]
    BY <1>1, <1>3 DEF Idle
  <1>5. Typed'
    BY <1>1, <1>3, <1>4 DEF Typed, Maybe, Kept, Busy, Table
  <1>6. holder = c
    BY <1>1, <1>2, <1>3 DEF Inv, Locked
  <1>7. \A c2 \in Callers : req'[c2].at = "idle" /\ c2 # NoCaller
    BY <1>1, <1>3, <1>6, NothingAssumption DEF Inv, Locked, Idle
  <1>8. Locked'
    BY <1>3, <1>7 DEF Locked
  <1>9. \A c2 \in Callers : Stage(req[c2])' /\ Compensated(req[c2])'
    BY <1>7 DEF Stage, Compensated, Replacing, Deleting
  <1>10. QED
    BY <1>5, <1>8, <1>9 DEF Inv, Stages, Compensable

\* The first step of a request.
LEMMA EnterInv ==
  ASSUME Inv, NEW c \in Callers, NEW place \in {"prepare", "cleanup"}, NEW t,
         Enter(c, place, t), UNCHANGED <<up, faults>>,
         t = NoTable \/ Sound(t), place = "prepare" => t # NoTable
  PROVE  Inv'
  <1>1. /\ req \in [Callers -> [at  : {"idle"} \cup Busy,
                                old : (SUBSET Route) \cup {NoTable},
                                new : (SUBSET Route) \cup {NoTable}]]
        /\ Maybe(edge) /\ Maybe(db) /\ Kept(proxy)
        /\ up \in BOOLEAN /\ faults \in FaultSets
    BY DEF Inv, Typed, Busy, Kept
  <1>2. /\ holder = NoCaller /\ db # NoTable /\ holder' = c
        /\ req' = [req EXCEPT ![c] = [at |-> place, old |-> db, new |-> t]]
        /\ UNCHANGED <<edge, db, proxy>>
    BY DEF Enter
  <1>3. Sound(db) /\ db \in SUBSET Route /\ t \in (SUBSET Route) \cup {NoTable}
    BY <1>1, <1>2, SoundIs DEF Maybe
  <1>4. req' \in [Callers -> [at  : {"idle"} \cup Busy,
                              old : (SUBSET Route) \cup {NoTable},
                              new : (SUBSET Route) \cup {NoTable}]]
    BY <1>1, <1>2, <1>3 DEF Busy, Replacing, Deleting
  <1>5. Typed'
    BY <1>1, <1>2, <1>4 DEF Typed, Maybe, Kept, Busy
  <1>6. \A c2 \in Callers : req[c2].at = "idle" /\ c2 # NoCaller
    BY <1>2, NothingAssumption DEF Inv, Locked
  <1>7. \A c2 \in Callers : c2 # c => req'[c2].at = "idle"
    BY <1>1, <1>2, <1>6
  <1>8. req'[c].at = place /\ req'[c].old = db /\ req'[c].new = t
    BY <1>1, <1>2
  <1>9. Locked'
    BY <1>2, <1>7, <1>8 DEF Locked
  <1>10. Stage(req[c])'
    BY <1>2, <1>3, <1>8 DEF Stage, Replacing, Deleting
  <1>11. Compensable => Compensated(req[c])'
    BY <1>2, <1>8 DEF Inv, Compensated, Replacing, Deleting, Followed, Hydrated
  <1>12. \A c2 \in Callers : Stage(req[c2])' /\ (Compensable => Compensated(req[c2])')
    BY <1>7, <1>10, <1>11 DEF Stage, Compensated, Replacing, Deleting
  <1>13. holder' # NoCaller
    BY <1>2, NothingAssumption
  <1>14. QED
    BY <1>5, <1>9, <1>12, <1>13 DEF Inv, Stages, Compensable

LEMMA BeginInv ==
  ASSUME Inv, NEW c \in Callers, Begin(c)
  PROVE  Inv'
  <1>1. CASE BeginReplace(c)
    BY <1>1, EnterInv, TablesSound, SoundIs DEF Begin, BeginReplace
  <1>2. CASE BeginUpdateOrigin(c)
    <2>1. PICK o \in Origins :
            /\ db # NoTable /\ Accepted(SetToSeq(WithOrigin(db, o)), FALSE)
            /\ Enter(c, "prepare", Normalize(SetToSeq(WithOrigin(db, o))))
      BY <1>2 DEF BeginUpdateOrigin
    <2>2. WithOrigin(db, o) \in Table
      BY <2>1, OriginTable DEF Inv, Typed, Maybe, Sound
    <2>3. Sound(Normalize(SetToSeq(WithOrigin(db, o))))
      BY <2>1, <2>2, SequenceOf, AcceptedSound
    <2>4. QED
      BY <2>1, <2>3, EnterInv, SoundIs DEF Begin
  <1>3. CASE BeginDelete(c)
    BY <1>3, EnterInv DEF Begin, BeginDelete
  <1>4. QED
    BY <1>1, <1>2, <1>3 DEF Begin

LEMMA CrashInv ==
  ASSUME Inv, Crash, UNCHANGED faults
  PROVE  Inv'
  <1> DEFINE stored == SetToSeq(db)
             valid  == db # NoTable => Accepted(stored, TRUE)
  <1>1. /\ req' = [c \in Callers |-> Idle] /\ holder' = NoCaller /\ up' = valid
        /\ proxy' = IF db = NoTable \/ ~valid THEN NoTable ELSE Stripped(Normalize(stored))
        /\ UNCHANGED <<edge, db>> /\ ~Compensable
    BY DEF Crash, Compensable
  <1>2. Kept(proxy')
    <2>1. CASE db = NoTable \/ ~valid
      BY <1>1, <2>1 DEF Kept
    <2>2. CASE db # NoTable /\ valid
      <3>1. db \in Table
        BY <2>2 DEF Inv, Typed, Maybe, Sound
      <3>2. stored \in Seq(Route)
        BY <3>1, SequenceOf
      <3>3. Sound(Normalize(stored))
        BY <2>2, <3>2, AcceptedSound
      <3>4. proxy' = Stripped(Normalize(stored))
        BY <1>1, <2>2
      <3>5. QED
        BY <3>3, <3>4, StrippedIs DEF Kept
    <2>3. QED
      BY <2>1, <2>2
  <1>3. valid \in BOOLEAN
    OBVIOUS
  <1> HIDE DEF valid, stored
  <1>4. Typed'
    BY <1>1, <1>2, <1>3 DEF Inv, Typed, Maybe, Kept, Idle
  <1>5. \A c \in Callers : req'[c].at = "idle" /\ c # NoCaller
    BY <1>1, NothingAssumption DEF Idle
  <1>6. Locked'
    BY <1>1, <1>5 DEF Locked
  <1>7. Stages'
    BY <1>1, <1>5 DEF Stages, Stage, Replacing, Deleting
  <1>8. ~Compensable'
    BY <1>1 DEF Compensable
  <1>9. QED
    BY <1>4, <1>6, <1>7, <1>8 DEF Inv


LEMMA StepInv ==
  ASSUME Inv, NEW c \in Callers, Step(c)
  PROVE  Inv'
  <1> DEFINE old == req[c].old
             new == req[c].new
  <1>1. /\ Maybe(edge) /\ Maybe(db) /\ Kept(proxy) /\ UNCHANGED <<up, faults>>
        /\ Stage(req[c]) /\ (Compensable => Compensated(req[c]))
    BY DEF Inv, Typed, Stages, Kept, Step
  <1>2. \A to : (\E from : Goto(c, from, to)) =>
          req'[c].at = to /\ req'[c].old = old /\ req'[c].new = new
    BY DEF Goto, Inv, Typed
  <1>3. ASSUME NEW t, Sound(t) PROVE Kept(Stripped(t)) /\ t # NoTable
    BY <1>3, StrippedIs, SoundIs DEF Kept
  <1> HIDE DEF old, new
  <1>4. CASE Prepare(c)
    <2>1. /\ req[c].at = "prepare" /\ proxy' = Transition(old, new)
          /\ UNCHANGED <<edge, db, holder>>
      BY <1>4 DEF Prepare, Goto, old, new
    <2>2. Sound(old) /\ Sound(new) /\ db = old /\ db # NoTable
      BY <1>1, <2>1 DEF Stage, Replacing, Deleting, old, new
    <2>3. Kept(proxy')
      BY <2>1, <2>2, TransitionIs DEF Kept
    <2>4. req'[c].at = "put" /\ req'[c].old = old /\ req'[c].new = new
      BY <1>2, <1>4 DEF Prepare
    <2>5. Stage(req[c])'
      BY <2>1, <2>2, <2>4 DEF Stage, Replacing, Deleting
    <2>6. Compensable => Compensated(req[c])'
      BY <1>1, <2>1, <2>4 DEF Compensated, Deleting, Followed
    <2>7. "prepare" \in Busy /\ "put" \in Busy /\ Goto(c, "prepare", "put")
      BY <1>4 DEF Busy, Replacing, Prepare
    <2>8. QED
      BY <1>1, <2>1, <2>3, <2>5, <2>6, <2>7, GotoInv
  <1>5. CASE PrepareFails(c)
    <2>1. req[c].at = "prepare" /\ UNCHANGED <<edge, db, proxy>>
      BY <1>5 DEF PrepareFails, Return
    <2>2. db # NoTable
      BY <1>1, <2>1 DEF Stage
    <2>3. Compensable => Followed' /\ Hydrated'
      BY <1>1, <2>1 DEF Compensated, Followed, Hydrated
    <2>4. "prepare" \in Busy /\ Return(c, "prepare")
      BY <1>5 DEF Busy, Replacing, PrepareFails
    <2>5. QED
      BY <1>1, <2>1, <2>2, <2>3, <2>4, ReturnInv
  <1>6. CASE Put(c)
    <2>1. req[c].at = "put" /\ edge' = new /\ UNCHANGED <<db, proxy, holder>>
      BY <1>6 DEF Put, PutEffect, Goto, new
    <2>2. Sound(old) /\ Sound(new) /\ db = old /\ db # NoTable
      BY <1>1, <2>1 DEF Stage, Replacing, Deleting, old, new
    <2>3. req'[c].at = "persist" /\ req'[c].old = old /\ req'[c].new = new
      BY <1>2, <1>6 DEF Put
    <2>4. Stage(req[c])'
      BY <2>1, <2>2, <2>3 DEF Stage, Replacing, Deleting
    <2>5. Compensable => Compensated(req[c])'
      BY <1>1, <2>1, <2>3 DEF Compensated, Deleting, old, new
    <2>6. "put" \in Busy /\ "persist" \in Busy /\ Goto(c, "put", "persist")
      BY <1>6 DEF Busy, Replacing, Put
    <2>7. Maybe(edge') /\ Maybe(db') /\ Kept(proxy')
      BY <1>1, <2>1, <2>2 DEF Maybe
    <2>8. QED
      BY <1>1, <2>1, <2>4, <2>5, <2>6, <2>7, GotoInv
  <1>7. CASE PutFails(c)
    <2>1. /\ req[c].at = "put" /\ proxy' = Stripped(old) /\ UNCHANGED db
          /\ UNCHANGED edge \/ ("timeout" \in faults /\ edge' = new)
      BY <1>7 DEF PutFails, PutEffect, Return, old, new
    <2>2. Sound(old) /\ Sound(new) /\ db = old /\ db # NoTable
      BY <1>1, <2>1 DEF Stage, Replacing, Deleting, old, new
    <2>3. Maybe(edge') /\ Maybe(db') /\ Kept(proxy')
      BY <1>1, <1>3, <2>1, <2>2 DEF Maybe
    <2>4. Compensable => Followed' /\ Hydrated'
      BY <1>1, <2>1, <2>2 DEF Compensable, Compensated, Followed, Hydrated
    <2>5. "put" \in Busy /\ Return(c, "put")
      BY <1>7 DEF Busy, Replacing, PutFails
    <2>6. QED
      BY <1>1, <2>1, <2>2, <2>3, <2>4, <2>5, ReturnInv
  <1>8. CASE Persist(c)
    <2>1. req[c].at = "persist" /\ db' = new /\ UNCHANGED <<edge, proxy, holder>>
      BY <1>8 DEF Persist, Goto, new
    <2>2. Sound(old) /\ Sound(new) /\ edge = new
      BY <1>1, <2>1 DEF Stage, Replacing, Deleting, old, new
    <2>3. req'[c].at = "commit" /\ req'[c].old = old /\ req'[c].new = new
      BY <1>2, <1>8 DEF Persist
    <2>4. Stage(req[c])'
      BY <2>1, <2>2, <2>3 DEF Stage, Replacing, Deleting
    <2>5. Compensable => Compensated(req[c])'
      BY <1>1, <2>1, <2>2, <2>3 DEF Compensated, Deleting, old, new
    <2>6. "persist" \in Busy /\ "commit" \in Busy /\ Goto(c, "persist", "commit")
      BY <1>8 DEF Busy, Replacing, Persist
    <2>7. Maybe(edge') /\ Maybe(db') /\ Kept(proxy')
      BY <1>1, <2>1, <2>2 DEF Maybe
    <2>8. QED
      BY <1>1, <2>1, <2>4, <2>5, <2>6, <2>7, GotoInv
  <1>9. CASE PersistFails(c)
    <2>1. req[c].at = "persist" /\ UNCHANGED <<edge, db, proxy, holder>>
      BY <1>9 DEF PersistFails, Goto
    <2>2. req'[c].at = "undo" /\ req'[c].old = old /\ req'[c].new = new
      BY <1>2, <1>9 DEF PersistFails
    <2>3. Stage(req[c])'
      BY <1>1, <2>1, <2>2 DEF Stage, Replacing, Deleting, old, new
    <2>4. Compensable => Compensated(req[c])'
      BY <1>1, <2>1, <2>2 DEF Compensated, Deleting, old, new
    <2>5. "persist" \in Busy /\ "undo" \in Busy /\ Goto(c, "persist", "undo")
      BY <1>9 DEF Busy, Replacing, PersistFails
    <2>6. QED
      BY <1>1, <2>1, <2>3, <2>4, <2>5, GotoInv
  <1>10. CASE Undo(c)
    <2>1. req[c].at = "undo" /\ edge' = old /\ proxy' = Stripped(old) /\ UNCHANGED db
      BY <1>10 DEF Undo, PutEffect, Return, old
    <2>2. Sound(old) /\ db = old /\ db # NoTable
      BY <1>1, <2>1 DEF Stage, Replacing, Deleting, old
    <2>3. Maybe(edge') /\ Maybe(db') /\ Kept(proxy')
      BY <1>1, <1>3, <2>1, <2>2 DEF Maybe
    <2>4. Followed' /\ Hydrated'
      BY <2>1, <2>2 DEF Followed, Hydrated
    <2>5. "undo" \in Busy /\ Return(c, "undo")
      BY <1>10 DEF Busy, Replacing, Undo
    <2>6. QED
      BY <1>1, <2>1, <2>2, <2>3, <2>4, <2>5, ReturnInv
  <1>11. CASE UndoFails(c)
    <2>1. /\ req[c].at = "undo" /\ UNCHANGED <<edge, db, proxy>>
          /\ "undo" \in faults \/ edge = NoTable
      BY <1>11 DEF UndoFails, Return
    <2>2. Sound(new) /\ edge = new /\ db # NoTable
      BY <1>1, <2>1 DEF Stage, Replacing, Deleting, new
    <2>3. ~Compensable
      BY <1>3, <2>1, <2>2 DEF Compensable
    <2>4. "undo" \in Busy /\ Return(c, "undo")
      BY <1>11 DEF Busy, Replacing, UndoFails
    <2>5. QED
      BY <1>1, <2>1, <2>2, <2>3, <2>4, ReturnInv
  <1>12. CASE Commit(c)
    <2>1. req[c].at = "commit" /\ proxy' = Stripped(new) /\ UNCHANGED <<edge, db>>
      BY <1>12 DEF Commit, Return, new
    <2>2. Sound(new) /\ db = new
      BY <1>1, <2>1 DEF Stage, Replacing, Deleting, new
    <2>3. Kept(proxy') /\ db # NoTable
      BY <1>3, <2>1, <2>2
    <2>4. Compensable => Followed' /\ Hydrated'
      BY <1>1, <2>1, <2>2 DEF Compensated, Followed, Hydrated, new
    <2>5. "commit" \in Busy /\ Return(c, "commit")
      BY <1>12 DEF Busy, Replacing, Commit
    <2>6. QED
      BY <1>1, <2>1, <2>3, <2>4, <2>5, ReturnInv
  <1>13. CASE Cleanup(c)
    <2>1. /\ req[c].at = "cleanup" /\ UNCHANGED <<db, proxy, holder>>
          /\ edge' = NoTable \/ UNCHANGED edge
      BY <1>13 DEF Cleanup, Goto
    <2>2. req'[c].at = "remove" /\ req'[c].old = old /\ req'[c].new = new
      BY <1>2, <1>13 DEF Cleanup
    <2>3. Stage(req[c])'
      BY <1>1, <2>1, <2>2 DEF Stage, Replacing, Deleting, old, new
    <2>4. Compensable => Compensated(req[c])'
      BY <1>1, <2>1, <2>2 DEF Compensated, Deleting, Followed, Hydrated
    <2>5. "cleanup" \in Busy /\ "remove" \in Busy /\ Goto(c, "cleanup", "remove")
      BY <1>13 DEF Busy, Deleting, Cleanup
    <2>6. Maybe(edge') /\ Maybe(db') /\ Kept(proxy')
      BY <1>1, <2>1 DEF Maybe
    <2>7. QED
      BY <1>1, <2>1, <2>3, <2>4, <2>5, <2>6, GotoInv
  <1>14. CASE RemoveDomain(c)
    <2>1. req[c].at = "remove" /\ proxy' = NoTable /\ UNCHANGED <<edge, db, holder>>
      BY <1>14 DEF RemoveDomain, Goto
    <2>2. req'[c].at = "delete" /\ req'[c].old = old /\ req'[c].new = new
      BY <1>2, <1>14 DEF RemoveDomain
    <2>3. Stage(req[c])'
      BY <1>1, <2>1, <2>2 DEF Stage, Replacing, Deleting, old, new
    <2>4. Compensable => Compensated(req[c])'
      BY <1>1, <2>1, <2>2 DEF Compensated, Deleting, Followed
    <2>5. "remove" \in Busy /\ "delete" \in Busy /\ Goto(c, "remove", "delete")
      BY <1>14 DEF Busy, Deleting, RemoveDomain
    <2>6. Kept(proxy')
      BY <2>1 DEF Kept
    <2>7. QED
      BY <1>1, <2>1, <2>3, <2>4, <2>5, <2>6, GotoInv
  <1>15. CASE Delete(c)
    <2>1. req[c].at = "delete" /\ db' = NoTable /\ UNCHANGED <<edge, proxy>>
      BY <1>15 DEF Delete, Return
    <2>2. proxy = NoTable
      BY <1>1, <2>1 DEF Stage
    <2>3. Followed' /\ Hydrated' /\ Maybe(db')
      BY <2>1 DEF Followed, Hydrated, Maybe
    <2>4. "delete" \in Busy /\ Return(c, "delete")
      BY <1>15 DEF Busy, Deleting, Delete
    <2>5. QED
      BY <1>1, <2>1, <2>2, <2>3, <2>4, ReturnInv
  <1>16. CASE DeleteFails(c)
    <2>1. req[c].at = "delete" /\ UNCHANGED <<edge, db, proxy, holder>>
      BY <1>16 DEF DeleteFails, Goto
    <2>2. req'[c].at = "restore" /\ req'[c].old = old /\ req'[c].new = new
      BY <1>2, <1>16 DEF DeleteFails
    <2>3. Stage(req[c])'
      BY <1>1, <2>1, <2>2 DEF Stage, Replacing, Deleting, old, new
    <2>4. Compensable => Compensated(req[c])'
      BY <1>1, <2>1, <2>2 DEF Compensated, Deleting, Followed
    <2>5. "delete" \in Busy /\ "restore" \in Busy /\ Goto(c, "delete", "restore")
      BY <1>16 DEF Busy, Deleting, DeleteFails
    <2>6. QED
      BY <1>1, <2>1, <2>3, <2>4, <2>5, GotoInv
  <1>17. CASE Restore(c)
    <2>1. req[c].at = "restore" /\ proxy' = Stripped(old) /\ UNCHANGED <<edge, db>>
      BY <1>17 DEF Restore, Return, old
    <2>2. db = old /\ db # NoTable
      BY <1>1, <2>1 DEF Stage, Deleting, old
    <2>3. Kept(proxy')
      BY <1>1, <1>3, <2>1, <2>2 DEF Maybe
    <2>4. Compensable => Followed' /\ Hydrated'
      BY <1>1, <2>1, <2>2 DEF Compensated, Deleting, Followed, Hydrated
    <2>5. "restore" \in Busy /\ Return(c, "restore")
      BY <1>17 DEF Busy, Deleting, Restore
    <2>6. QED
      BY <1>1, <2>1, <2>2, <2>3, <2>4, <2>5, ReturnInv
  <1>18. QED
    BY <1>4, <1>5, <1>6, <1>7, <1>8, <1>9, <1>10, <1>11, <1>12, <1>13, <1>14, <1>15,
       <1>16, <1>17 DEF Step

LEMMA NextInv == Inv /\ [Next]_vars => Inv'
  <1> SUFFICES ASSUME Inv, [Next]_vars PROVE Inv'
    OBVIOUS
  <1>1. CASE \E c \in Callers : Begin(c) \/ Step(c)
    BY <1>1, BeginInv, StepInv
  <1>2. CASE Crash /\ UNCHANGED faults
    BY <1>2, CrashInv
  <1>3. CASE UNCHANGED vars
    BY <1>3 DEF vars, Inv, Typed, Locked, Stages, Stage, Compensable, Compensated, Followed,
                Hydrated, Maybe
  <1>4. QED
    BY <1>1, <1>2, <1>3 DEF Next

\* The inductive invariant: what each place of a request says of the tunnel's rules, the
\* tables and the snapshot (update.go, delete.go), and what compensation keeps of it.
THEOREM Invariance == Spec => []Inv
  BY InitInv, NextInv, PTL DEF Spec


\* The type invariant: the three copies are tables, and the snapshot has stripped routes only.
THEOREM TypeCorrect == Spec => []TypeOK
  <1>1. Inv => TypeOK
    <2> SUFFICES ASSUME Inv PROVE TypeOK
      OBVIOUS
    <2>1. \A t : Maybe(t) => IsTable(t)
      BY SoundIs DEF Maybe, IsTable
    <2>2. IsTable(proxy) /\ (proxy # NoTable => \A r \in proxy : r.strip)
      BY DEF Inv, Typed, IsTable, Table
    <2>3. \A c \in Callers : /\ req[c].at \in {"idle"} \cup Replacing \cup Deleting
                             /\ req[c].old \in (SUBSET Route) \cup {NoTable}
                             /\ req[c].new \in (SUBSET Route) \cup {NoTable}
      BY DEF Inv, Typed
    <2>4. QED
      BY <2>1, <2>2, <2>3 DEF Inv, Typed, TypeOK, IsTable, Replacing, Deleting
  <1>2. QED
    BY Invariance, <1>1, PTL

\* SQLite gets new routes only while Cloudflare has the very same (update.go:62-73), whatever
\* fails, times out or crashes.
THEOREM NeverAhead == Spec => SQLiteFollowsCloudflare
  <1>1. Inv /\ [Next]_vars => [db' # db /\ db' # NoTable => edge = db']_vars
    <2> SUFFICES ASSUME Inv, [Next]_vars, db' # db, db' # NoTable PROVE edge = db'
      OBVIOUS
    <2>1. PICK c \in Callers : Persist(c)
      BY DEF Next, vars, Begin, BeginReplace, BeginUpdateOrigin, BeginDelete, Enter, Crash, Step,
             Prepare, PrepareFails, Put, PutFails, PersistFails, Undo, UndoFails, Commit, Cleanup,
             RemoveDomain, Delete, DeleteFails, Restore
    <2>2. req[c].at = "persist" /\ db' = req[c].new /\ Stage(req[c])
      BY <2>1 DEF Persist, Goto, Inv, Stages
    <2>3. QED
      BY <2>2 DEF Stage
  <1>2. QED
    BY Invariance, <1>1, PTL DEF Spec, SQLiteFollowsCloudflare

\* No snapshot of a deleted domain stays or comes back (delete.go:31-42), whatever fails.
THEOREM DeletedGone == Spec => []DeletedIsUnrouted
  <1>1. Inv => DeletedIsUnrouted
    BY DEF Inv, Stages, DeletedIsUnrouted
  <1>2. QED
    BY Invariance, <1>1, PTL

\* In service, the snapshot has a route for every stripped rule of the tunnel, and none that
\* belongs to neither table.
LEMMA Serving ==
  ASSUME Inv, InService, Compensable
  PROVE  /\ Sound(edge) /\ proxy \in Table /\ proxy # NoTable
         /\ Backed(edge, proxy) /\ (\A r \in proxy : r.strip)
         /\ \A r \in edge \cup proxy :
              \E t \in {db} \cup {req[c].new : c \in Callers} \cup {req[c].old : c \in Callers} :
                t # NoTable /\ r \in t
  <1>1. Sound(edge) /\ Sound(db) /\ edge # NoTable /\ db # NoTable
    BY DEF Inv, Typed, Maybe, InService
  <1>2. CASE holder = NoCaller
    <2>1. edge = db /\ proxy = Stripped(db)
      BY <1>1, <1>2 DEF Inv, Followed, Hydrated
    <2>2. proxy \in Table /\ \A r \in proxy : r.strip
      BY <1>1, <2>1, StrippedIs
    <2>3. proxy \subseteq db /\ Backed(edge, proxy)
      BY <2>1, OwnBacked DEF Stripped
    <2>4. QED
      BY <1>1, <2>1, <2>2, <2>3, TableIsThere
  <1>3. CASE holder # NoCaller
    <2>1. PICK c \in Callers : holder = c /\ req[c].at # "idle"
      BY <1>3 DEF Inv, Typed, Locked
    <2> DEFINE old == req[c].old
               new == req[c].new
    <2>2. Stage(req[c]) /\ Compensated(req[c])
      BY DEF Inv, Stages
    <2>3. req[c].at \in Replacing
      BY <2>1 DEF Inv, Typed, InService, Deleting
    <2>4. Sound(old) /\ Sound(new)
      BY <2>2, <2>3 DEF Stage
    <2> HIDE DEF old, new
    <2>5. edge \in {old, new}
      BY <1>1, <2>2, <2>3 DEF Stage, Compensated, Replacing, Deleting, Followed, old, new
    <2>6. /\ proxy \in {Stripped(old), Transition(old, new)}
          /\ proxy = Stripped(old) => edge = old \/ proxy = Transition(old, new)
      BY <1>1, <2>2, <2>3
      DEF Stage, Compensated, Replacing, Deleting, Followed, Hydrated, old, new
    <2>7. Backed(edge, proxy)
      BY <2>5, <2>6, OwnBacked, TransitionBacked
    <2>8. proxy \in Table /\ \A r \in proxy : r.strip
      BY <2>4, <2>6, StrippedIs, TransitionIs
    <2>9. proxy \subseteq old \cup new
      BY <2>6, TransitionOf DEF Stripped
    <2>10. old # NoTable /\ new # NoTable
      BY <2>4, SoundIs
    <2>11. \A r \in edge \cup proxy : r \in old \/ r \in new
      BY <2>5, <2>9
    <2>12. /\ old \in {req[d].old : d \in Callers}
           /\ new \in {req[d].new : d \in Callers}
      BY DEF old, new
    <2>13. QED
      BY <1>1, <2>7, <2>8, <2>10, <2>11, <2>12, TableIsThere
  <1>4. QED
    BY <1>2, <1>3


\* What is served is what AnswerBacked says of tunnel and snapshot.
LEMMA ServedBacked ==
  ASSUME Inv, InService, Compensable, NEW url \in Urls
  PROVE  \E r \in edge \cup proxy :
           r \in Route /\ Covers(r, url) /\ Served(url) = AnswerOf(r, url)
  <1>1. /\ Sound(edge) /\ proxy \in Table /\ proxy # NoTable
        /\ Backed(edge, proxy) /\ \A r \in proxy : r.strip
    BY Serving
  <1>2. Served(url) = Answer(edge, proxy, url)
    BY <1>1 DEF Served
  <1>3. edge \cup proxy \subseteq Route
    BY <1>1 DEF Sound, Table
  <1>4. QED
    BY <1>1, <1>2, <1>3, AnswerBacked

\* No URL that Cloudflare sends here ends in a local 404, during a replacement, after its
\* compensation and at rest (update.go:59-75), for any tables, URLs and number of requests.
THEOREM AlwaysRoutable == Spec => []Routable
  <1>1. Inv => Routable
    BY ServedBacked, AnswerIsAnswer DEF Routable
  <1>2. QED
    BY Invariance, <1>1, PTL

\* During a replacement every URL is answered by one route of the old or the new table
\* that covers it, with that route's prefix cut off if that route says so.
THEOREM NeverMixed == Spec => []OldOrNew
  <1>1. Inv => OldOrNew
    <2> SUFFICES ASSUME Inv, InService, Compensable, NEW url \in Urls
                 PROVE  \E t \in {db} \cup {req[c].new : c \in Callers} \cup {req[c].old : c \in Callers} :
                          t # NoTable /\ \E r \in t : Covers(r, url) /\ Served(url) = AnswerOf(r, url)
      BY DEF OldOrNew
    <2>1. PICK r \in edge \cup proxy : Covers(r, url) /\ Served(url) = AnswerOf(r, url)
      BY ServedBacked
    <2>2. \E t \in {db} \cup {req[c].new : c \in Callers} \cup {req[c].old : c \in Callers} :
            t # NoTable /\ r \in t
      BY Serving
    <2>3. QED
      BY <2>1, <2>2
  <1>2. QED
    BY Invariance, <1>1, PTL

\* At rest the rules of cloudflared and the snapshot come to the longest prefix stored in
\* SQLite, for any accepted tables and URLs.
THEOREM Agreement == Spec => []AgreeAtRest
  <1>1. Inv => AgreeAtRest
    <2> SUFFICES ASSUME Inv, InService, Compensable, holder = NoCaller, NEW url \in Urls
                 PROVE  Served(url) = Promised(db, url)
      BY DEF AgreeAtRest
    <2>1. Sound(db) /\ edge = db /\ proxy = Stripped(db)
      BY DEF Inv, Typed, Maybe, InService, Followed, Hydrated
    <2>2. proxy # NoTable
      BY <2>1, StrippedIs, TableIsThere
    <2>3. Served(url) = Answer(db, Stripped(db), url)
      BY <2>1, <2>2 DEF Served
    <2>4. QED
      BY <2>1, <2>3, AnswerAtRest, PromiseIsEdge
  <1>2. QED
    BY Invariance, <1>1, PTL

-----------------------------------------------------------------------------
(* Starting again: what is stored is accepted a second time.                   *)

LEMMA SameInterval ==
  ASSUME NEW m \in Nat, NEW n \in Nat, 1 .. m = 1 .. n
  PROVE  m = n
  <1>1. m \in 1 .. m \/ m = 0
    OBVIOUS
  <1>2. n \in 1 .. n \/ n = 0
    OBVIOUS
  <1>3. (m \in 1 .. n \/ m = 0) /\ (n \in 1 .. m \/ n = 0)
    BY <1>1, <1>2
  <1>4. QED
    BY <1>3

LEMMA Between ==
  ASSUME NEW n \in Nat, NEW i \in 1 .. n, n <= i
  PROVE  i = n
  OBVIOUS

LEMMA Mirror ==
  ASSUME NEW n \in Nat, NEW i \in 1 .. n
  PROVE  (n - i) + 1 \in 1 .. n /\ (n - ((n - i) + 1)) + 1 = i
  OBVIOUS

LEMMA NonEmpty ==
  ASSUME NEW s \in Text
  PROVE  /\ Len(s) \in Nat /\ DOMAIN s = 1 .. Len(s)
         /\ s # <<>> <=> Len(s) >= 1
         /\ s # <<>> <=> Len(s) \in DOMAIN s
  <1>1. Len(s) \in Nat /\ DOMAIN s = 1 .. Len(s)
    BY LenProperties DEF Text
  <1>2. s # <<>> <=> Len(s) # 0
    BY EmptySeq DEF Text
  <1>3. QED
    BY <1>1, <1>2

\* What TrimRight leaves is a prefix that ends in no character of the cut set.
LEMMA TrimRightIs ==
  ASSUME NEW s \in Text, NEW cut
  PROVE  LET t == TrimRight(s, cut) IN
         /\ t \in Text /\ Len(t) \in Nat /\ Len(s) \in Nat /\ Len(t) <= Len(s)
         /\ \A i \in 1 .. Len(t) : t[i] = s[i]
         /\ t # <<>> => t[Len(t)] \notin cut
         /\ s # <<>> /\ s[Len(s)] \notin cut => t = s
  <1> DEFINE keep == {i \in DOMAIN s : s[i] \notin cut}
             t    == TrimRight(s, cut)
  <1>1. Len(s) \in Nat /\ DOMAIN s = 1 .. Len(s) /\ \A i \in 1 .. Len(s) : s[i] \in Chars
    BY LenProperties, ElementOfSeq DEF Text
  <1>2. CASE keep = {}
    <2>1. t = <<>> /\ t \in Text /\ Len(t) = 0
      BY <1>2, EmptySeq DEF TrimRight, Text
    <2>2. s # <<>> => Len(s) \in DOMAIN s
      BY <1>1, EmptySeq DEF Text
    <2>3. s # <<>> => s[Len(s)] \in cut
      BY <1>2, <2>2
    <2> HIDE DEF t
    <2>4. QED
      BY <1>1, <2>1, <2>3 DEF t
  <1>3. CASE keep # {}
    <2> DEFINE n == Max(keep)
    <2>1. keep \in SUBSET (1 .. Len(s)) /\ IsFiniteSet(1 .. Len(s))
      BY <1>1, FS_Interval
    <2>2. keep \in SUBSET Nat /\ IsFiniteSet(keep)
      BY <1>1, <2>1, FS_Subset
    <2>3. n \in keep /\ \A i \in keep : i <= n
      BY <1>3, <2>2, MaxIs
    <2>4. n \in 1 .. Len(s) /\ s[n] \notin cut
      BY <2>1, <2>3
    <2>5. t = SubSeq(s, 1, n)
      BY <1>3 DEF TrimRight
    <2>6. Len(s) \in DOMAIN s /\ s[Len(s)] \notin cut => n = Len(s)
      <3>1. Len(s) \in DOMAIN s /\ s[Len(s)] \notin cut => Len(s) \in keep
        OBVIOUS
      <3> HIDE DEF keep, n
      <3>2. SUFFICES ASSUME Len(s) \in keep PROVE n = Len(s)
        BY <3>1
      <3>3. Len(s) <= n
        BY <2>3, <3>2
      <3>4. QED
        BY <1>1, <2>4, <3>3, Between
    <2> HIDE DEF keep, n, t
    <2>7. /\ SubSeq(s, 1, n) \in Seq(Chars) /\ Len(SubSeq(s, 1, n)) = n
          /\ \A i \in 1 .. n : SubSeq(s, 1, n)[i] = s[i]
      <3>1. \A i \in 1 .. n : s[i] \in Chars
        BY <1>1, <2>4
      <3>2. QED
        BY <2>4, <3>1, SubSeqProperties
    <2>8. s[Len(s)] \notin cut => t = s
      <3>1. Len(s) \in DOMAIN s
        BY <1>1, <2>4
      <3>2. SubSeq(s, 1, Len(s)) = s
        BY SubSeqFull DEF Text
      <3>3. QED
        BY <2>5, <2>6, <3>1, <3>2
    <2>9. n \in Nat /\ n <= Len(s) /\ Len(t) = n /\ t \in Text
      BY <1>1, <2>4, <2>5, <2>7 DEF Text
    <2>10. \A i \in 1 .. Len(t) : t[i] = s[i]
      BY <2>5, <2>7, <2>9
    <2>11. t[Len(t)] \notin cut
      BY <2>4, <2>9, <2>10
    <2>12. QED
      BY <1>1, <2>8, <2>9, <2>10, <2>11 DEF t
  <1>4. QED
    BY <1>2, <1>3

Space == " "

LEMMA SpaceIs == Space # "/" /\ "/" # Space
  BY Zenon DEF Space

LEMMA TrimSpaceIs ==
  ASSUME NEW s
  PROVE  TrimSpace(s) = Reverse(TrimRight(Reverse(TrimRight(s, {Space})), {Space}))
  BY DEF TrimSpace, Space

\* A text that begins and ends with no blank is not trimmed.
LEMMA TrimSpaceKeeps ==
  ASSUME NEW s \in Text, s # <<>>, s[1] # Space, s[Len(s)] # Space
  PROVE  TrimSpace(s) = s
  <1>1. Len(s) \in Nat /\ Len(s) \in 1 .. Len(s)
    BY NonEmpty
  <1>2. TrimRight(s, {Space}) = s
    BY TrimRightIs
  <1> DEFINE u == Reverse(s)
             n == Len(s)
  <1>3. u \in Text
    BY ReverseText
  <1>4. Len(u) = n
    <2>1. DOMAIN u = 1 .. n
      BY DEF Reverse
    <2>2. Len(u) \in Nat /\ DOMAIN u = 1 .. Len(u)
      BY <1>3, NonEmpty
    <2> HIDE DEF u
    <2>3. QED
      BY <1>1, <2>1, <2>2, SameInterval
  <1>5. \A i \in 1 .. n : u[i] = s[(n - i) + 1]
    BY DEF Reverse
  <1>6. \A i \in 1 .. n : Reverse(u)[i] = u[(n - i) + 1]
    BY <1>4 DEF Reverse
  <1>7. Len(Reverse(u)) = n /\ Reverse(u) \in Text
    <2>1. DOMAIN Reverse(u) = 1 .. n
      BY <1>4 DEF Reverse
    <2>2. Reverse(u) \in Text
      BY <1>3, ReverseText
    <2>3. Len(Reverse(u)) \in Nat /\ DOMAIN Reverse(u) = 1 .. Len(Reverse(u))
      BY <2>2, NonEmpty
    <2> HIDE DEF u
    <2>4. QED
      BY <1>1, <2>1, <2>2, <2>3, SameInterval
  <1>8. n \in Nat /\ n \in 1 .. n
    BY <1>1
  <1> HIDE DEF u, n
  <1>9. u # <<>> /\ u[Len(u)] # Space
    <2>1. (n - n) + 1 = 1 /\ n >= 1
      BY <1>8
    <2>2. u[n] = s[1]
      BY <1>5, <1>8, <2>1
    <2>3. QED
      BY <1>3, <1>4, <2>1, <2>2, NonEmpty
  <1>10. TrimRight(u, {Space}) = u
    BY <1>3, <1>9, TrimRightIs
  <1>11. Reverse(u) = s
    <2>1. ASSUME NEW i \in 1 .. n PROVE Reverse(u)[i] = s[i]
      <3>1. (n - i) + 1 \in 1 .. n /\ (n - ((n - i) + 1)) + 1 = i
        BY <1>8, Mirror
      <3>2. u[(n - i) + 1] = s[(n - ((n - i) + 1)) + 1]
        BY <1>5, <3>1
      <3>3. QED
        BY <1>6, <3>1, <3>2
    <2>2. Len(s) = n
      BY DEF n
    <2>3. QED
      BY <1>7, <2>1, <2>2, SeqEqual DEF Text
  <1>12. QED
    BY <1>2, <1>10, <1>11, TrimSpaceIs DEF u

\* A path that normalisation accepts and leaves as it is.
Canonical(p) == ValidPath(p) /\ NormalPath(p) = p

\* Only two kinds of accepted paths are not stored in this form: those of slashes alone
\* ("//"), and those with a blank before the slashes at their end ("/a /").
LEMMA NormalIsCanonical ==
  ASSUME NEW raw \in Text, ValidPath(raw), NormalPath(raw) # <<>>,
         NormalPath(raw)[Len(NormalPath(raw))] # Space
  PROVE  Canonical(NormalPath(raw))
  <1> DEFINE t == TrimSpace(raw)
             p == NormalPath(raw)
  <1>1. t \in Text /\ p \in Text
    BY TrimRightText, ReverseText, NormalPathText DEF TrimSpace
  <1>2. IsPrefix(Root, t) /\ (\A i \in DOMAIN t : t[i] # "?") /\ Len(t) <= MaxPathLen
    BY DEF ValidPath
  <1>3. p = IF t = Root THEN t ELSE TrimRight(t, {"/"})
    BY DEF NormalPath
  <1>4. p # <<>> /\ p[Len(p)] # Space
    OBVIOUS
  <1> HIDE DEF t, p
  <1>5. Len(t) \in Nat /\ DOMAIN t = 1 .. Len(t) /\ Len(p) \in Nat /\ DOMAIN p = 1 .. Len(p)
    BY <1>1, NonEmpty
  <1>6. /\ Len(p) <= Len(t) /\ \A i \in 1 .. Len(p) : p[i] = t[i]
        /\ p = Root \/ p[Len(p)] \notin {"/"}
    <2>1. CASE t = Root
      BY <1>3, <1>5, <2>1
    <2>2. CASE t # Root
      <3>1. p = TrimRight(t, {"/"})
        BY <1>3, <2>2
      <3>2. QED
        BY <1>1, <1>4, <3>1, TrimRightIs
    <2>3. QED
      BY <2>1, <2>2
  <1>7. Len(Root) = 1 /\ Root[1] = "/" /\ Root \in Text
    BY RootText DEF Root
  <1>8. Len(p) >= 1 /\ 1 \in 1 .. Len(p) /\ 1 \in 1 .. 1
    BY <1>1, <1>4, <1>5, NonEmpty
  <1>9. p[1] = "/"
    <2>1. \A i \in 1 .. 1 : t[i] = Root[i]
      BY <1>1, <1>2, <1>7, PrefixIs
    <2>2. QED
      BY <1>6, <1>7, <1>8, <2>1
  <1>10. TrimSpace(p) = p
    <2>1. p[1] # Space
      BY <1>9, SpaceIs
    <2>2. QED
      BY <1>1, <1>4, <2>1, TrimSpaceKeeps
  <1>11. ValidPath(p)
    <2>1. IsPrefix(Root, p)
      <3>1. Len(Root) <= Len(p)
        BY <1>5, <1>7, <1>8
      <3>2. \A i \in 1 .. 1 : p[i] = Root[i]
        BY <1>7, <1>9
      <3>3. QED
        BY <1>1, <1>7, <3>1, <3>2, PrefixIs
    <2>2. \A i \in DOMAIN p : p[i] # "?"
      <3>1. ASSUME NEW i \in 1 .. Len(p) PROVE p[i] # "?"
        <4>1. i \in 1 .. Len(t)
          BY <1>5, <1>6
        <4>2. QED
          BY <1>2, <1>5, <1>6, <4>1
      <3>2. QED
        BY <1>5, <3>1
    <2>3. Len(p) <= MaxPathLen
      <3>1. MaxPathLen \in Nat
        BY LimitsAssumption
      <3>2. QED
        BY <1>2, <1>5, <1>6, <3>1
    <2>4. QED
      BY <1>10, <2>1, <2>2, <2>3 DEF ValidPath
  <1>12. NormalPath(p) = p
    <2>1. CASE p = Root
      BY <1>10, <2>1 DEF NormalPath
    <2>2. CASE p # Root
      <3>1. TrimRight(p, {"/"}) = p
        BY <1>1, <1>4, <1>6, <2>2, TrimRightIs
      <3>2. QED
        BY <1>10, <2>2, <3>1 DEF NormalPath
    <2>3. QED
      BY <2>1, <2>2
  <1>13. QED
    BY <1>11, <1>12 DEF Canonical, p

\* A table that Reconcile accepts.
Storable(t) ==
  /\ Sound(t) /\ Cardinality(t) \in 1 .. MaxRoutes
  /\ \A r \in t : Canonical(r.path) /\ ValidOrigin(r, TRUE)

LEMMA StorableAccepted ==
  ASSUME NEW t, Storable(t)
  PROVE  Accepted(SetToSeq(t), TRUE)
  <1> DEFINE s == SetToSeq(t)
             n == Cardinality(t)
  <1>1. n \in Nat /\ n \in 1 .. MaxRoutes /\ t \in SUBSET Route
    BY LimitsAssumption DEF Storable, Sound, Table
  <1>2. ExistsBijection(1 .. n, t) /\ IsFiniteSet(t)
    BY FS_CardinalityType DEF Storable, Sound, Table
  <1>3. \E f \in [1 .. n -> t] : IsInjective(f)
    BY <1>2 DEF ExistsBijection, Bijection, Injection
  <1>4. s \in [1 .. n -> t] /\ IsInjective(s)
    BY <1>3 DEF SetToSeq
  <1> HIDE DEF s, n
  <1>5. s \in Seq(t) /\ Len(s) = n /\ DOMAIN s = 1 .. n
    <2>1. s \in Seq(t)
      BY <1>1, <1>4, SeqDef
    <2>2. DOMAIN s = 1 .. n
      BY <1>4
    <2>3. QED
      BY <1>1, <2>1, <2>2, LenProperties
  <1>6. \A r \in t : \E i \in 1 .. n : s[i] = r
    <2>1. s \in Injection(1 .. n, t)
      BY <1>4 DEF Injection
    <2>2. Cardinality(1 .. n) = Cardinality(t)
      BY <1>1, FS_Interval DEF n
    <2>3. s \in Surjection(1 .. n, t)
      BY <1>2, <2>1, <2>2, FS_Injection
    <2>4. QED
      BY <2>3 DEF Surjection
  <1>7. ASSUME NEW i \in 1 .. n
        PROVE  /\ s[i] \in t /\ Normal(s[i]).path = s[i].path
               /\ ValidPath(s[i].path) /\ ValidOrigin(s[i], TRUE)
    <2>1. s[i] \in t /\ s[i] \in Route
      BY <1>1, <1>4
    <2>2. QED
      BY <2>1 DEF Normal, Storable, Canonical, Route
  <1>8. Unique(t) /\ Rooted(t)
    BY DEF Storable, Sound
  <1>9. \A i, j \in 1 .. n : Normal(s[i]).path = Normal(s[j]).path => i = j
    <2>1. \A i, j \in 1 .. n : Normal(s[i]).path = Normal(s[j]).path => s[i] = s[j]
      <3>1. SUFFICES ASSUME NEW i \in 1 .. n, NEW j \in 1 .. n,
                            Normal(s[i]).path = Normal(s[j]).path
                     PROVE  s[i] = s[j]
        OBVIOUS
      <3>2. s[i] \in t /\ s[j] \in t /\ s[i].path = s[j].path
        BY <1>7, <3>1
      <3>3. QED
        BY <1>8, <3>2 DEF Unique
    <2>2. QED
      BY <1>4, <2>1 DEF IsInjective
  <1>10. \A i \in 1 .. n : Normal(s[i]).path = Root => ~s[i].strip
    BY <1>7, <1>8 DEF Rooted
  <1>11. \E i \in 1 .. n : Normal(s[i]).path = Root
    <2>1. PICK r \in t : r.path = Root
      BY <1>8 DEF Rooted
    <2>2. QED
      BY <1>6, <1>7, <2>1
  <1>12. QED
    BY <1>1, <1>5, <1>7, <1>9, <1>10, <1>11 DEF Accepted, s

\* What is accepted and has clean paths can be stored.
LEMMA AcceptedStorable ==
  ASSUME NEW q \in Seq(Route), Accepted(q, FALSE),
         \A i \in DOMAIN q : Canonical(NormalPath(q[i].path))
  PROVE  Storable(Normalize(q))
  <1>1. Len(q) \in Nat /\ DOMAIN q = 1 .. Len(q) /\ \A i \in 1 .. Len(q) : q[i] \in Route
    BY LenProperties, ElementOfSeq
  <1>2. Sound(Normalize(q))
    BY AcceptedSound
  <1>3. Cardinality(Normalize(q)) \in 1 .. MaxRoutes
    <2> DEFINE D == 1 .. Len(q)
               T == Normalize(q)
               f == [i \in D |-> Normal(q[i])]
    <2>1. IsFiniteSet(D) /\ Cardinality(D) = Len(q)
      BY <1>1, FS_Interval
    <2>2. f \in Surjection(D, T)
      BY <1>1 DEF Surjection, Normalize
    <2>3. IsFiniteSet(T) /\ T # {}
      BY <1>2 DEF Sound, Table, Rooted
    <2> HIDE DEF D, T, f
    <2>4. Cardinality(T) <= Cardinality(D)
      BY <2>1, <2>2, FS_Surjection
    <2>5. Cardinality(T) \in Nat /\ Cardinality(T) # 0
      BY <2>3, FS_CardinalityType, FS_EmptySet
    <2>6. Len(q) <= MaxRoutes
      BY <1>1, LimitsAssumption DEF Accepted
    <2>7. QED
      BY <1>1, <2>1, <2>4, <2>5, <2>6, LimitsAssumption DEF T
  <1>4. ASSUME NEW i \in 1 .. Len(q)
        PROVE  Canonical(Normal(q[i]).path) /\ ValidOrigin(Normal(q[i]), TRUE)
    <2>1. /\ Normal(q[i]).path = NormalPath(q[i].path)
          /\ Normal(q[i]).origin = q[i].origin /\ Normal(q[i]).strip = q[i].strip
      BY <1>1 DEF Normal, Route
    <2>2. ValidOrigin(q[i], FALSE)
      BY <1>1 DEF Accepted
    <2>3. QED
      BY <1>1, <2>1, <2>2 DEF ValidOrigin
  <1>5. QED
    BY <1>1, <1>2, <1>3, <1>4 DEF Storable, Normalize

\* Another origin for "/" leaves the paths as they are.
LEMMA OriginStorable ==
  ASSUME NEW t, Storable(t), NEW o \in Origins, Accepted(SetToSeq(WithOrigin(t, o)), FALSE)
  PROVE  Storable(Normalize(SetToSeq(WithOrigin(t, o))))
  <1> DEFINE u == WithOrigin(t, o)
             q == SetToSeq(u)
  <1>1. t \in Table /\ u \in Table
    BY OriginTable DEF Storable, Sound
  <1>2. \A r \in u : Canonical(r.path)
    <2>1. \A r \in t : r \in Route /\ [r EXCEPT !.origin = o].path = r.path
      BY <1>1 DEF Table, Route
    <2>2. QED
      BY <2>1 DEF WithOrigin, Storable
  <1> HIDE DEF u
  <1>3. q \in Seq(Route)
    BY <1>1, SequenceOf
  <1>4. \A i \in DOMAIN q : q[i] \in u
    <2>1. ExistsBijection(1 .. Cardinality(u), u)
      BY <1>1, FS_CardinalityType DEF Table
    <2>2. \E f \in [1 .. Cardinality(u) -> u] : IsInjective(f)
      BY <2>1 DEF ExistsBijection, Bijection, Injection
    <2>3. q \in [1 .. Cardinality(u) -> u]
      BY <2>2 DEF SetToSeq
    <2>4. QED
      BY <2>3
  <1> HIDE DEF q
  <1>5. \A i \in DOMAIN q : Canonical(NormalPath(q[i].path))
    BY <1>2, <1>4 DEF Canonical
  <1>6. Accepted(q, FALSE)
    BY DEF q, u
  <1>7. QED
    BY <1>3, <1>5, <1>6, AcceptedStorable DEF q, u

LEMMA MigratedStorable == \A t \in Migrated : Storable(t)
  <1> SUFFICES ASSUME NEW o \in Origins
               PROVE  Storable({[path |-> Root, origin |-> o, strip |-> FALSE]})
    BY DEF Migrated
  <1> DEFINE r == [path |-> Root, origin |-> o, strip |-> FALSE]
  <1>1. Sound({r})
    BY MigratedSound DEF Migrated
  <1>2. r.path = Root /\ ~r.strip
    OBVIOUS
  <1> HIDE DEF r
  <1>3. Cardinality({r}) \in 1 .. MaxRoutes
    <2>1. Cardinality({r}) = 1
      BY FS_Singleton
    <2>2. QED
      BY <2>1, LimitsAssumption
  <1>4. Root \in Text /\ Len(Root) = 1 /\ Root[1] = "/" /\ Root # <<>> /\ DOMAIN Root = {1}
    BY RootText DEF Root
  <1>5. TrimSpace(Root) = Root
    <2>1. Root[1] # Space /\ Root[Len(Root)] # Space
      BY <1>4, SpaceIs
    <2>2. QED
      BY <1>4, <2>1, TrimSpaceKeeps
  <1>6. Canonical(Root)
    <2>1. IsPrefix(Root, Root)
      BY <1>4, PrefixIs
    <2>2. \A i \in DOMAIN Root : Root[i] # "?"
      BY <1>4
    <2>3. Len(Root) <= MaxPathLen
      BY <1>4, LimitsAssumption
    <2>4. QED
      BY <1>5, <2>1, <2>2, <2>3 DEF Canonical, ValidPath, NormalPath
  <1>7. QED
    BY <1>1, <1>2, <1>3, <1>6 DEF Storable, ValidOrigin, r

\* No accepted request has a path of slashes alone or with a blank before its last ones.
CleanRequests ==
  \A q \in Requests :
    Accepted(q, FALSE) =>
      \A i \in DOMAIN q :
        LET p == NormalPath(q[i].path) IN p # <<>> /\ p[Len(p)] # Space

LEMMA TablesStorable == CleanRequests => \A t \in Tables : Storable(t)
  <1> SUFFICES ASSUME CleanRequests, NEW q \in Requests, Accepted(q, FALSE)
               PROVE  Storable(Normalize(q))
    BY DEF Tables
  <1>1. q \in Seq(Route) /\ \A i \in DOMAIN q : q[i].path \in Text
    <2>1. q \in Seq(Route)
      BY RequestsAssumption
    <2>2. \A i \in DOMAIN q : q[i] \in Route
      BY <2>1, LenProperties, ElementOfSeq
    <2>3. QED
      BY <2>1, <2>2 DEF Route, Text
  <1>2. ASSUME NEW i \in DOMAIN q PROVE Canonical(NormalPath(q[i].path))
    <2> DEFINE p == NormalPath(q[i].path)
    <2>1. ValidPath(q[i].path)
      BY DEF Accepted
    <2>2. p # <<>> /\ p[Len(p)] # Space
      BY DEF CleanRequests
    <2>3. QED
      BY <1>1, <2>1, <2>2, NormalIsCanonical
  <1>3. QED
    BY <1>1, <1>2, AcceptedStorable

\* What is stored and what is about to be stored can be read back.
Restartable ==
  /\ up
  /\ db # NoTable => Storable(db)
  /\ \A c \in Callers : req[c].at \in Replacing => Storable(req[c].new)

LEMMA RestartableInit == CleanRequests /\ Init => Restartable
  <1>1. \A t \in Migrated : Storable(t)
    BY MigratedStorable
  <1>2. QED
    BY <1>1, TablesStorable DEF Init, Restartable, Idle, Replacing

LEMMA RestartableStep ==
  ASSUME CleanRequests, Inv, Restartable, [Next]_vars
  PROVE  Restartable'
  <1>0. /\ req \in [Callers -> [at  : {"idle"} \cup Replacing \cup Deleting,
                                old : (SUBSET Route) \cup {NoTable},
                                new : (SUBSET Route) \cup {NoTable}]]
        /\ NoTable \notin SUBSET Route
    BY NothingAssumption DEF Inv, Typed
  <1>1. ASSUME NEW c \in Callers, NEW place, NEW t, Enter(c, place, t), UNCHANGED up,
               place \in Replacing => Storable(t)
        PROVE  Restartable'
    BY <1>0, <1>1 DEF Enter, Restartable, Replacing
  <1>2. ASSUME NEW c \in Callers, Begin(c) PROVE Restartable'
    <2>1. CASE BeginReplace(c)
      BY <1>1, <1>2, <2>1, TablesStorable DEF Begin, BeginReplace
    <2>2. CASE BeginUpdateOrigin(c)
      BY <1>1, <1>2, <2>2, OriginStorable DEF Begin, BeginUpdateOrigin, Restartable
    <2>3. CASE BeginDelete(c)
      BY <1>1, <1>2, <2>3 DEF Begin, BeginDelete, Replacing
    <2>4. QED
      BY <1>2, <2>1, <2>2, <2>3 DEF Begin
  <1>3. ASSUME NEW c \in Callers, NEW from, NEW to, Goto(c, from, to), UNCHANGED <<db, up>>,
               from \in Replacing \/ to \notin Replacing
        PROVE  Restartable'
    BY <1>0, <1>3 DEF Goto, Restartable, Replacing
  <1>4. ASSUME NEW c \in Callers, NEW from, Return(c, from), UNCHANGED up,
               db' = db \/ db' = NoTable
        PROVE  Restartable'
    BY <1>0, <1>4 DEF Return, Restartable, Idle, Replacing
  <1>5. ASSUME NEW c \in Callers, Persist(c), UNCHANGED up PROVE Restartable'
    <2>1. req[c].at = "persist" /\ db' = req[c].new /\ req' = [req EXCEPT ![c].at = "commit"]
      BY <1>5 DEF Persist, Goto
    <2>2. Storable(db')
      BY <2>1 DEF Restartable, Replacing
    <2>3. \A c2 \in Callers : req'[c2].at \in Replacing
            => req[c2].at \in Replacing /\ req'[c2].new = req[c2].new
      BY <1>0, <2>1 DEF Replacing
    <2> HIDE DEF Storable
    <2>4. QED
      BY <1>5, <2>2, <2>3 DEF Restartable
  <1>6. ASSUME NEW c \in Callers, Step(c) PROVE Restartable'
    <2>1. UNCHANGED up
      BY <1>6 DEF Step
    <2>2. CASE Prepare(c) \/ Put(c) \/ PersistFails(c) \/ Cleanup(c) \/ RemoveDomain(c)
               \/ DeleteFails(c)
      BY <1>3, <2>1, <2>2
      DEF Prepare, Put, PersistFails, Cleanup, RemoveDomain, DeleteFails, Replacing
    <2>3. CASE PrepareFails(c) \/ PutFails(c) \/ Undo(c) \/ UndoFails(c) \/ Commit(c)
               \/ Delete(c) \/ Restore(c)
      BY <1>4, <2>1, <2>3
      DEF PrepareFails, PutFails, Undo, UndoFails, Commit, Delete, Restore
    <2>4. QED
      BY <1>5, <1>6, <2>1, <2>2, <2>3 DEF Step
  <1>7. CASE Crash
    <2>1. db # NoTable => Accepted(SetToSeq(db), TRUE)
      BY StorableAccepted DEF Restartable
    <2>2. up' = TRUE /\ db' = db /\ \A c \in Callers : req'[c].at = "idle"
      BY <1>7, <2>1 DEF Crash, Idle
    <2>3. QED
      BY <2>2 DEF Restartable, Replacing
  <1>8. CASE UNCHANGED vars
    BY <1>8 DEF vars, Restartable
  <1>9. QED
    BY <1>2, <1>6, <1>7, <1>8 DEF Next

\* The backend starts again after a crash at any step: what ReplaceRoutes and UpdateOrigin
\* store, normalizePersistedRoutes accepts (routes.go:79-117, service.go:221-224), unless a
\* path was one like "//" or "/a /": no other stored table is refused at startup.
THEOREM StartsAgainOnCleanPaths == CleanRequests /\ Spec => []StartsAgain
  <1>1. ASSUME CleanRequests PROVE Init => Restartable
    BY <1>1, RestartableInit
  <1>2. ASSUME CleanRequests PROVE Inv /\ Restartable /\ [Next]_vars => Restartable'
    BY <1>2, RestartableStep
  <1>3. Restartable => StartsAgain
    BY DEF Restartable, StartsAgain
  <1>4. CASE CleanRequests
    <2>1. Init => Restartable
      BY <1>1, <1>4
    <2>2. Inv /\ Restartable /\ [Next]_vars => Restartable'
      BY <1>2, <1>4
    <2>3. QED
      BY <1>3, <2>1, <2>2, Invariance, PTL DEF Spec
  <1>5. QED
    BY <1>4

=============================================================================
