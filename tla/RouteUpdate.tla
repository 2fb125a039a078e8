------------------------------ MODULE RouteUpdate ------------------------------
(***************************************************************************)
(* The routes of one domain live in three places: the ingress              *)
(* configuration of its tunnel at Cloudflare, the SQLite tables, and the   *)
(* snapshot of the local stripping proxy.  UpdateOrigin, ReplaceRoutes and *)
(* DeleteDomain change them one after the other under the domain's lock    *)
(* (a KeyedMutex), and compensate when a step fails; a crash of the        *)
(* backend loses the snapshot, which Reconcile rebuilds from SQLite.       *)
(***************************************************************************)
EXTENDS RouteTable

CONSTANTS
  Callers,    \* request handlers
  Origins,    \* origin URLs
  SelfOrigin, \* an origin that is the proxy itself; the proxy rejects it
  Requests,   \* the route inputs that requests carry
  Urls,       \* the URL paths that clients ask for
  NoTable, NoCaller,
  FaultSets   \* what may go wrong in a behaviour: sets of AllFaults

AllFaults == {"put",      \* a configuration update fails
              "timeout",  \* ... is applied, but reported as failed
              "undo",     \* the update back to the old routes fails
              "tunnel",   \* the tunnel is not deleted
              "db",       \* a transaction fails
              "crash"}    \* the backend stops and starts again

\* What normalizeRoutes makes of the requests that it accepts.
Tables == {Normalize(q) : q \in {x \in Requests : Accepted(x, FALSE)}}

Route == [path : Seq(Chars), origin : Origins, strip : BOOLEAN]

ASSUME RequestsAssumption == \A q \in Requests : q \in Seq(Route)
ASSUME FaultsAssumption   == FaultSets \subseteq SUBSET AllFaults
ASSUME UrlsAssumption     == \A url \in Urls : url \in Seq(Chars) /\ url # <<>> /\ url[1] = "/"
ASSUME NothingAssumption  ==
  /\ NoTable \notin SUBSET Route /\ NoCaller \notin Callers
  /\ NoRoute \notin Route \cup [origin : Origins, path : Seq(Chars)]

VARIABLES
  edge,     \* the tunnel's ingress rules at Cloudflare; NoTable: no tunnel
  db,       \* the routes in SQLite; NoTable: the domain is deleted
  proxy,    \* byDomain: the stripped routes served here; NoTable: no entry
  holder,   \* lockDomain: the request inside
  req,      \* the requests: where they are, the tables they read and set
  up,       \* the backend runs: Reconcile accepted what is stored
  faults    \* what may go wrong in this behaviour; never changes

vars == <<edge, db, proxy, holder, req, up, faults>>

Idle == [at |-> "idle", old |-> NoTable, new |-> NoTable]

IsTable(t) == t = NoTable \/ t \in SUBSET Route

TypeOK ==
  /\ IsTable(edge) /\ IsTable(db) /\ IsTable(proxy)
  /\ proxy # NoTable => \A r \in proxy : r.strip
  /\ holder \in Callers \cup {NoCaller}
  /\ \A c \in Callers :
       /\ req[c].at \in {"idle", "prepare", "put", "persist", "undo", "commit",
                         "cleanup", "remove", "delete", "restore"}
       /\ IsTable(req[c].old) /\ IsTable(req[c].new)
  /\ up \in BOOLEAN
  /\ faults \in FaultSets

\* replaceDomain keeps the routes with strip_prefix only ...
Stripped(t) == {r \in t : r.strip}

\* ... and refuses its own endpoint as an origin.
Acceptable(t) == \A r \in Stripped(t) : r.origin # SelfOrigin

\* Mutant: the new routes only.
TransitionNew(old, new) == Stripped(new)

\* PrepareDomain: the new stripped routes, and the old ones of other paths.
Transition(old, new) ==
  Stripped(new) \cup
  {r \in Stripped(old) : \A n \in Stripped(new) : n.path # r.path}

\* migrations/00005: the one origin of a domain that is older than the routes.
Migrated == {{[path |-> Root, origin |-> o, strip |-> FALSE]} : o \in Origins}

\* A domain as CreateDomain leaves it, or as the migration and the first start do.
Init ==
  /\ \E t \in Tables \cup Migrated :
       /\ Acceptable(t)
       /\ edge = t /\ db = t /\ proxy = Stripped(t)
  /\ holder = NoCaller
  /\ req = [c \in Callers |-> Idle]
  /\ up = TRUE
  /\ faults \in FaultSets

Goto(c, from, to) ==
  /\ req[c].at = from
  /\ req' = [req EXCEPT ![c].at = to]

\* Mutant: an early return before the unlock is deferred.
ReturnLocked(c, from) ==
  /\ req[c].at = from
  /\ req' = [req EXCEPT ![c] = Idle]
  /\ UNCHANGED holder

\* The deferred unlock.
Return(c, from) ==
  /\ req[c].at = from
  /\ req' = [req EXCEPT ![c] = Idle]
  /\ holder' = NoCaller

\* Mutant: no lock around the request.
EnterUnlocked(c, place, new) ==
  /\ up /\ req[c].at = "idle" /\ db # NoTable
  /\ holder' = c
  /\ req' = [req EXCEPT ![c] = [at |-> place, old |-> db, new |-> new]]
  /\ UNCHANGED <<edge, db, proxy>>

\* lockDomain, then Get and ListRoutes; an unknown domain returns at once.
Enter(c, place, new) ==
  /\ up /\ holder = NoCaller
  /\ req[c].at = "idle" /\ db # NoTable
  /\ holder' = c
  /\ req' = [req EXCEPT ![c] = [at |-> place, old |-> db, new |-> new]]
  /\ UNCHANGED <<edge, db, proxy>>

(***************************************************************************)
(* replaceRoutesLocked                                                     *)
(***************************************************************************)

\* ReplaceRoutes: inputs that are not accepted change nothing.
BeginReplace(c) == \E t \in Tables : Enter(c, "prepare", t)

\* UpdateOrigin: the stored routes are inputs again, with another origin for "/".
WithOrigin(t, o) ==
  {IF r.path = Root THEN [r EXCEPT !.origin = o] ELSE r : r \in t}

BeginUpdateOrigin(c) ==
  \E o \in Origins :
    LET inputs == SetToSeq(WithOrigin(db, o)) IN
    /\ db # NoTable /\ Accepted(inputs, FALSE)
    /\ Enter(c, "prepare", Normalize(inputs))

Prepare(c) ==
  /\ Goto(c, "prepare", "put")
  /\ Acceptable(req[c].new)
  /\ proxy' = Transition(req[c].old, req[c].new)
  /\ UNCHANGED <<edge, db, holder>>

PrepareFails(c) ==
  /\ Return(c, "prepare")
  /\ ~Acceptable(req[c].new)
  /\ UNCHANGED <<edge, db, proxy>>

\* PutIngressConfig replaces the whole configuration of an existing tunnel.
PutEffect(t) == edge # NoTable /\ edge' = t

\* Mutant: the order of SQLite and Cloudflare is swapped.
PutLate(c) ==
  /\ Goto(c, "put", "persist")
  /\ edge # NoTable /\ db' = req[c].new
  /\ UNCHANGED <<edge, proxy, holder>>

Put(c) ==
  /\ Goto(c, "put", "persist")
  /\ PutEffect(req[c].new)
  /\ UNCHANGED <<db, proxy, holder>>

\* Any error rolls the proxy back, whether Cloudflare applied the update or not.
PutFails(c) ==
  /\ Return(c, "put")
  /\ \/ ("put" \in faults \/ edge = NoTable) /\ UNCHANGED edge
     \/ "timeout" \in faults /\ PutEffect(req[c].new)
  /\ proxy' = Stripped(req[c].old)
  /\ UNCHANGED db

Persist(c) ==
  /\ Goto(c, "persist", "commit")
  /\ db' = req[c].new
  /\ UNCHANGED <<edge, proxy, holder>>

PersistFails(c) ==
  /\ "db" \in faults
  /\ Goto(c, "persist", "undo")
  /\ UNCHANGED <<edge, db, proxy, holder>>

\* Mutant: the snapshot is rolled back, the configuration at Cloudflare is not.
UndoProxyOnly(c) ==
  /\ Return(c, "undo")
  /\ proxy' = Stripped(req[c].old)
  /\ UNCHANGED <<edge, db>>

\* The old configuration is put back; the snapshot follows only if that worked.
Undo(c) ==
  /\ Return(c, "undo")
  /\ PutEffect(req[c].old)
  /\ proxy' = Stripped(req[c].old)
  /\ UNCHANGED db

UndoFails(c) ==
  /\ Return(c, "undo")
  /\ "undo" \in faults \/ edge = NoTable
  /\ UNCHANGED <<edge, db, proxy>>

Commit(c) ==
  /\ Return(c, "commit")
  /\ proxy' = Stripped(req[c].new)
  /\ UNCHANGED <<edge, db>>

(***************************************************************************)
(* DeleteDomain, as far as routes are concerned (see DomainControl)        *)
(***************************************************************************)
BeginDelete(c) == Enter(c, "cleanup", NoTable)

\* Best effort: an error is logged and the deletion goes on.
Cleanup(c) ==
  /\ Goto(c, "cleanup", "remove")
  /\ \/ edge' = NoTable
     \/ "tunnel" \in faults /\ UNCHANGED edge
  /\ UNCHANGED <<db, proxy, holder>>

RemoveDomain(c) ==
  /\ Goto(c, "remove", "delete")
  /\ proxy' = NoTable
  /\ UNCHANGED <<edge, db, holder>>

Delete(c) ==
  /\ Return(c, "delete")
  /\ db' = NoTable
  /\ UNCHANGED <<edge, proxy>>

DeleteFails(c) ==
  /\ "db" \in faults
  /\ Goto(c, "delete", "restore")
  /\ UNCHANGED <<edge, db, proxy, holder>>

\* Mutant: the routes are restored as they are, those without prefix included.
RestoreUnfiltered(c) ==
  /\ Return(c, "restore")
  /\ proxy' = req[c].old
  /\ UNCHANGED <<edge, db>>

\* RollbackDomain with the routes read at the beginning.
Restore(c) ==
  /\ Return(c, "restore")
  /\ proxy' = Stripped(req[c].old)
  /\ UNCHANGED <<edge, db>>

(***************************************************************************)
(* A crash at any step.  Reconcile normalises the stored routes and        *)
(* hydrates the proxy before requests run; an error ends the start.        *)
(***************************************************************************)
Crash ==
  LET stored == SetToSeq(db)
      valid  == db # NoTable => Accepted(stored, TRUE)
  IN
  /\ "crash" \in faults
  /\ req'    = [c \in Callers |-> Idle]
  /\ holder' = NoCaller
  /\ up'     = valid
  /\ proxy'  = IF db = NoTable \/ ~valid THEN NoTable ELSE Stripped(Normalize(stored))
  /\ UNCHANGED <<edge, db>>

-----------------------------------------------------------------------------
Step(c) ==
  /\ \/ Prepare(c) \/ PrepareFails(c) \/ Put(c) \/ PutFails(c)
     \/ Persist(c) \/ PersistFails(c) \/ Undo(c) \/ UndoFails(c) \/ Commit(c)
     \/ Cleanup(c) \/ RemoveDomain(c) \/ Delete(c) \/ DeleteFails(c) \/ Restore(c)
  /\ UNCHANGED <<up, faults>>

Begin(c) ==
  /\ BeginReplace(c) \/ BeginUpdateOrigin(c) \/ BeginDelete(c)
  /\ UNCHANGED <<up, faults>>

Next ==
  \/ \E c \in Callers : Begin(c) \/ Step(c)
  \/ Crash /\ UNCHANGED faults

Spec == Init /\ [][Next]_vars

FairSpec == Spec /\ \A c \in Callers : WF_vars(Step(c))

-----------------------------------------------------------------------------
(***************************************************************************)
(* Properties                                                              *)
(***************************************************************************)

\* What a client gets for a URL path.
Served(url) == Answer(edge, IF proxy = NoTable THEN {} ELSE proxy, url)

\* The domain exists, the backend runs, no deletion is dismantling the domain.
InService ==
  /\ up /\ edge # NoTable /\ db # NoTable
  /\ \A c \in Callers : req[c].at \notin {"cleanup", "remove", "delete", "restore"}

\* Nothing goes wrong that the code cannot compensate.
Compensable == faults \subseteq {"put", "tunnel", "db"}

\* A client never gets a local 404: every URL that Cloudflare sends to the
\* stripping proxy has a route there, all through a replacement and after its
\* compensation (update.go:59-75).
Routable ==
  InService /\ Compensable => \A url \in Urls : Served(url) # NoRoute

\* While routes are replaced a URL is answered by a route of the old or the new
\* table that covers it, with the prefix that this route says, never by a mixture.
OldOrNew ==
  InService /\ Compensable =>
    \A url \in Urls :
      \E t \in {db} \cup {req[c].new : c \in Callers} \cup {req[c].old : c \in Callers} :
        t # NoTable /\ \E r \in t : Covers(r, url) /\ Served(url) = AnswerOf(r, url)

\* With no request under way every URL is answered by the longest prefix stored in
\* SQLite, whichever steps failed before and were compensated: three places and
\* two matching algorithms come to the same result.
AgreeAtRest ==
  InService /\ Compensable /\ holder = NoCaller =>
    \A url \in Urls : Served(url) = Promised(db, url)

\* SQLite never gets ahead of Cloudflare: new routes are written only after the
\* very same routes were accepted there ("Cloudflare failure: do not mutate
\* SQLite"), also when another request, a timeout or a crash came before.
SQLiteFollowsCloudflare ==
  [][db' # db /\ db' # NoTable => edge = db']_vars

\* No snapshot of a deleted domain stays in the proxy or comes back to it.
DeletedIsUnrouted == db = NoTable /\ holder = NoCaller => proxy = NoTable

\* A request gives the lock back, on every error path (no request is left waiting).
LockComesFree == holder # NoCaller ~> holder = NoCaller

\* Design document: "If remote rollback fails, retain the transition snapshot so
\* either observed remote configuration remains routable".  The next replacement
\* prepares its snapshot from SQLite and drops the routes Cloudflare still has.
RoutableAfterDrift ==
  InService => \A url \in Urls : Served(url) # NoRoute

\* Design document: "Reconcile loads all persisted routes into one proxy snapshot".
\* Reconcile validates them again, and the path of "//", accepted and stored as
\* the empty path, is not accepted the second time: the backend does not start.
StartsAgain == up

=============================================================================
