----------------------------- MODULE MCRouteUpdate -----------------------------
(* Instances of RouteUpdate for TLC: routes below "/", "/a" and "/a/b", and the *)
(* inputs that normalisation treats in a way of its own.                        *)
EXTENDS RouteUpdate

CONSTANTS o1, o2, self, deep

MCOrigins     == {o1, o2, self, deep}
MCPathOrigins == {deep}

PathA   == <<"/", "a">>
PathAB  == <<"/", "a", "/", "b">>
PathAA  == <<"/", "a", "a">>

In(p, o, s) == <<[path |-> p, origin |-> o, strip |-> s]>>
Default     == In(Root, o1, FALSE)

\* No route, a direct one or a stripped one; "/a" with two origins.
ChoicesA  == {<<>>, In(PathA, o1, FALSE), In(PathA, o1, TRUE), In(PathA, o2, TRUE)}
ChoicesAB == {<<>>, In(PathAB, o1, FALSE), In(PathAB, o2, TRUE)}

Regular == {Default \o a \o b : a \in ChoicesA, b \in ChoicesAB}

Special == {
  In(<<" ", "/">>, o2, FALSE) \o In(<<"/", "a", "/", "/">>, o1, TRUE),  \* trimmed
  Default \o In(PathAA, o1, TRUE) \o In(PathA, o2, TRUE),              \* no segment
  Default \o In(PathA, self, TRUE),                                     \* the proxy itself
  Default \o In(PathA, o1, TRUE) \o In(PathA \o <<"/">>, o2, TRUE),    \* the same path
  In(Root, o1, TRUE), In(PathA, o1, FALSE),                             \* root
  Default \o In(<<"?">>, o1, FALSE),                                    \* not absolute
  Default \o In(PathA, deep, FALSE) }                                   \* origin with a path

\* Accepted, and stored as the empty path, or as two paths that differ by a space.
Slashes == Default \o In(<<"/", "/">>, o1, TRUE)
Blank   == Default \o In(PathA, o1, TRUE) \o In(PathA \o <<" ", "/">>, o2, TRUE)

MCRequests   == Regular \cup Special
SomeRequests == {Default, Slashes, Blank}

\* No table of routes.
MCNoTable == {NoRoute}

MCUrls == {Root, PathA, PathA \o <<"/">>, PathAB, PathAB \o PathA, PathAA, <<"/", "b">>}

MCFaultSets   == {{"put", "tunnel", "db"}, AllFaults}
DriftFaults   == {{"undo", "db"}}
CrashFaults   == {{"crash"}}
=============================================================================
