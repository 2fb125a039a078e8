------------------------------ MODULE RouteTable ------------------------------
(***************************************************************************)
(* internal/services/domain/routes.go and internal/pkg/ingressproxy: how   *)
(* route inputs become a route table, and which route answers a URL path,  *)
(* first at cloudflared's edge and then in the stripping proxy.            *)
(*                                                                         *)
(* A path is a sequence of characters, because trimming and the segment    *)
(* boundary are about characters; "?" stands for every refused character   *)
(* and " " for white space.  A table is a set of routes; its order is      *)
(* computed when it is used.                                               *)
(***************************************************************************)
EXTENDS Integers, SequencesExt

CONSTANTS
  Chars,                   \* the characters of a path
  MaxRoutes, MaxPathLen,   \* maxDomainRoutes, maxRoutePathLen
  PathOrigins,             \* origin URLs that requests may not set: those with a path
  NoRoute                  \* no rule matches: 404

ASSUME CharsAssumption == "/" \in Chars
ASSUME LimitsAssumption == MaxRoutes \in Nat \ {0} /\ MaxPathLen \in Nat \ {0}

Root == <<"/">>

(***************************************************************************)
(* Normalisation                                                           *)
(***************************************************************************)
TrimRight(s, cut) ==
  LET keep == {i \in DOMAIN s : s[i] \notin cut}
  IN  IF keep = {} THEN <<>> ELSE SubSeq(s, 1, Max(keep))

TrimSpace(s) == Reverse(TrimRight(Reverse(TrimRight(s, {" "})), {" "}))

ValidPath(raw) ==
  LET p == TrimSpace(raw)
  IN  /\ IsPrefix(Root, p)
      /\ \A i \in DOMAIN p : p[i] # "?"
      /\ Len(p) <= MaxPathLen

\* normalizeRoutePath, of a valid path.
NormalPath(raw) ==
  LET p == TrimSpace(raw) IN IF p = Root THEN p ELSE TrimRight(p, {"/"})

Normal(in) == [in EXCEPT !.path = NormalPath(@)]

\* normalizeOriginURL.  Domains that are older than the routes may have an origin with a
\* path; nothing else is said of the syntax of origin URLs.
ValidOrigin(in, legacy) == in.origin \in PathOrigins => legacy /\ ~in.strip

\* normalizeRoutes, and with legacy normalizePersistedRoutes: from a sequence of inputs
\* to a set of routes.
Accepted(inputs, legacy) ==
  /\ Len(inputs) \in 1 .. MaxRoutes
  /\ \A i \in DOMAIN inputs : ValidPath(inputs[i].path) /\ ValidOrigin(inputs[i], legacy)
  /\ \A i, j \in DOMAIN inputs :
       Normal(inputs[i]).path = Normal(inputs[j]).path => i = j
  /\ \A i \in DOMAIN inputs : Normal(inputs[i]).path = Root => ~inputs[i].strip
  /\ \E i \in DOMAIN inputs : Normal(inputs[i]).path = Root

Normalize(inputs) == {Normal(inputs[i]) : i \in DOMAIN inputs}

(***************************************************************************)
(* Matching                                                                *)
(***************************************************************************)

\* Mutant: no segment boundary.
MatchesAnywhere(url, path) == IsPrefix(path, url)

\* matchesPrefix, and the expression ^path(/.*)?$ of a Cloudflare rule.
Matches(url, path) == url = path \/ IsPrefix(path \o <<"/">>, url)

\* Mutant: shortest path first.
BeforeReversed(r, s) == Len(r.path) < Len(s.path)

\* The order of normalizeRoutes, ListRoutes and rebuildLocked: longest path first.
\* Two paths of one length never match the same URL, so the lexical order among
\* them is left out.
Before(r, s) == Len(r.path) > Len(s.path)

FirstOf(routes) ==
  IF routes = {} THEN NoRoute ELSE CHOOSE r \in routes : \A s \in routes : ~Before(s, r)

\* cloudflared takes the first rule that matches; the rule of "/" has no path.
EdgeRule(table, url) == FirstOf({r \in table : r.path = Root \/ Matches(url, r.path)})

\* ServeHTTP takes the first route of the snapshot that matches.
ProxyRule(snapshot, url) == FirstOf({r \in snapshot : Matches(url, r.path)})

\* strings.TrimPrefix, and never an empty path.
Forwarded(url, path) ==
  IF url = path THEN Root ELSE SubSeq(url, Len(path) + 1, Len(url))

\* What a request gets: the origin that answers it and the path sent there.
Direct(r, url)   == [origin |-> r.origin, path |-> url]
Stripping(r, url) == [origin |-> r.origin, path |-> Forwarded(url, r.path)]

Answer(table, snapshot, url) ==
  LET edge == EdgeRule(table, url)
      here == ProxyRule(snapshot, url)
  IN  CASE edge = NoRoute -> NoRoute
        [] edge # NoRoute /\ ~edge.strip -> Direct(edge, url)
        [] edge # NoRoute /\ edge.strip /\ here = NoRoute -> NoRoute
        [] OTHER -> Stripping(here, url)

(***************************************************************************)
(* The promise: "literal path prefixes", the longest one wins, cut off if  *)
(* the route says so.  Stated over segments, without order.                *)
(***************************************************************************)
Segments(path) ==
  {SubSeq(path, 1, n) : n \in {m \in 1 .. Len(path) : m = Len(path) \/ path[m + 1] = "/"}}

Covers(r, url) == r.path = Root \/ r.path \in Segments(url)

Longest(table, url) ==
  CHOOSE r \in table : /\ Covers(r, url)
                       /\ \A s \in table : Covers(s, url) => Len(s.path) <= Len(r.path)

AnswerOf(r, url) == IF r.strip THEN Stripping(r, url) ELSE Direct(r, url)

Promised(table, url) == AnswerOf(Longest(table, url), url)

=============================================================================
