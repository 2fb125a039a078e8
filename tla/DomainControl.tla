----------------------------- MODULE DomainControl -----------------------------
(***************************************************************************)
(* internal/services/domain on top of the supervisor: the requests that    *)
(* stop, restart, delete and re-route a domain, the end of its creation,   *)
(* and the supervisor's event handler, all of them reading a row of the    *)
(* domains table and later writing it back whole.                          *)
(*                                                                         *)
(* Each request is one thread (a Caller of the supervisor).  Each step is  *)
(* one SQL statement or transaction, one section of a mutex, or one step   *)
(* of the supervisor.  The database does not fail in this module.          *)
(***************************************************************************)
EXTENDS Supervisor, FiniteSets

CONSTANTS
  Creator,    \* the caller that creates the domain, and does nothing else
  Ops,        \* what the other callers may ask for
  Origins,    \* origin URLs of the route "/"
  Timers,     \* bound: whether a stable timer may fire
  NoRow, NoCaller

ASSUME CreatorAssumption == Creator \in Callers
ASSUME OpsAssumption == Ops \subseteq {"stop", "restart", "delete", "routes"}
ASSUME NoCallerAssumption == NoCaller \notin Callers

VARIABLES
  rows,     \* domains table: id -> row or NoRow
  routes,   \* domain_routes table, reduced to the origin of the route "/"
  logs,     \* the ids in domainService.logs
  locked,   \* lockDomain: id -> the request inside (see DomainLock)
  req,      \* the requests: operation, place, id, the row read, the run started
  ev        \* the row HandleSupervisorEvent has read for a run's event

control  == <<rows, routes, logs, locked, req, ev>>
allVars  == <<vars, control>>

Statuses == {"pending", "active", "stopped", "error"}
Row      == [status : Statuses, pid : Runs \cup {NoRun}, origin : Origins]
ASSUME NoRowAssumption == NoRow \notin Row

Places   == {"idle", "got", "stopping", "spawn", "start", "starting", "failed",
             "remove", "logs", "done"}

\* The callers of spawn that act on its result: CreateDomain, and Reconcile (Lifecycle).
Spawners == {"create", "boot"}

Idle(d) == [op |-> "none", at |-> "idle", dom |-> d, row |-> NoRow, run |-> NoRun]

ControlTypeOK ==
  /\ TypeOK
  /\ rows   \in [Domains -> Row \cup {NoRow}]
  /\ routes \in [Domains -> Origins \cup {NoRow}]
  /\ logs   \subseteq Domains
  /\ locked \in [Domains -> Callers \cup {NoCaller}]
  /\ req    \in [Callers -> [op : {"none"} \cup Spawners \cup Ops, at : Places,
                             dom : Domains, row : Row \cup {NoRow},
                             run : Runs \cup {NoRun}]]
  /\ ev     \in [Runs -> Row \cup {NoRow}]

ControlInit ==
  /\ Init
  /\ rows   = [d \in Domains |-> NoRow]
  /\ routes = [d \in Domains |-> NoRow]
  /\ logs   = {}
  /\ locked = [d \in Domains |-> NoCaller]
  /\ req    \in {[c \in Callers |-> Idle(d)] : d \in Domains}
  /\ ev     = [r \in Runs |-> NoRow]

At(c, op, place) == req[c].op = op /\ req[c].at = place
Goto2(c, place)  == req' = [req EXCEPT ![c].at = place]
Return(c)        == req' = [req EXCEPT ![c] = Idle(req[c].dom)]

\* Mutant: UPDATE as an upsert, a row that is gone comes back.
Upsert(d, row) == rows' = [rows EXCEPT ![d] = row]

\* repo.Update writes every column of the row; no row, no effect (ErrNotFound).
UpdateRow(d, row) ==
  rows' = IF rows[d] = NoRow THEN rows ELSE [rows EXCEPT ![d] = row]

(***************************************************************************)
(* CreateDomain, from the insert on                                        *)
(***************************************************************************)
CreateInsert(d, o) ==
  /\ req[Creator].op = "none"
  /\ rows'   = [rows EXCEPT ![d] = [status |-> "pending", pid |-> NoRun, origin |-> o]]
  /\ routes' = [routes EXCEPT ![d] = o]
  /\ req'    = [req EXCEPT ![Creator] = [op |-> "create", at |-> "spawn", dom |-> d,
                                         row |-> rows'[d], run |-> NoRun]]
  /\ UNCHANGED <<vars, logs, locked, ev>>

\* Only CreateDomain looks at a failed spawn again: the row becomes "error".
CreateFailed(c) ==
  /\ At(c, "create", "failed")
  /\ UpdateRow(req[c].dom, [req[c].row EXCEPT !.status = "error"])
  /\ Goto2(c, "done")
  /\ UNCHANGED <<vars, routes, logs, locked, ev>>

(***************************************************************************)
(* spawn: get or create the log buffer, then Supervisor.Start              *)
(***************************************************************************)
OpenLog(c) ==
  /\ req[c].at = "spawn"
  /\ logs' = logs \cup {req[c].dom}
  /\ Goto2(c, "start")
  /\ UNCHANGED <<vars, rows, routes, locked, ev>>

\* Start claims the entry; what is left of it is the run's thread.
StartClaims(c, r) ==
  /\ req[c].at = "start"
  /\ \A c2 \in Callers : req[c2].run # r
  /\ Claim(r, req[c].dom)
  /\ IF req[c].op \in Spawners
     THEN req' = [req EXCEPT ![c].at = "starting", ![c].run = r]
     ELSE Return(c)
  /\ UNCHANGED <<rows, routes, logs, locked, ev>>

StartRefused(c) ==
  /\ req[c].at = "start"
  /\ procs[req[c].dom] # NoRun
  /\ IF req[c].op \in Spawners THEN Goto2(c, "failed") ELSE Return(c)
  /\ UNCHANGED <<vars, rows, routes, logs, locked, ev>>

\* A spawner waits in Start for cmd.Start to succeed or fail.
StartReturns(r, place) ==
  req' = [c \in Callers |-> IF req[c].run = r
            THEN [req[c] EXCEPT !.at = place, !.run = NoRun] ELSE req[c]]

StartSpawns(r) ==
  Spawn(r) /\ StartReturns(r, "done") /\ UNCHANGED <<rows, routes, logs, locked, ev>>
StartFails(r) ==
  UndoClaim(r) /\ StartReturns(r, "failed") /\ UNCHANGED <<rows, routes, logs, locked, ev>>

(***************************************************************************)
(* HandleSupervisorEvent, called synchronously by the run's thread         *)
(***************************************************************************)
EventStatus(r) ==
  CASE pc[r] = "active" -> "active" [] pc[r] = "stopped" -> "stopped"
    [] pc[r] = "error" -> "error"
EventPid(r) == IF pc[r] = "active" THEN r ELSE NoRun

\* Get; a domain that is gone is ignored.
EventGet(r) ==
  /\ pc[r] \in {"active", "stopped", "error"} /\ ev[r] = NoRow
  /\ IF rows[dom[r]] = NoRow THEN Emitted(r) /\ UNCHANGED ev
     ELSE ev' = [ev EXCEPT ![r] = rows[dom[r]]] /\ UNCHANGED vars
  /\ UNCHANGED <<rows, routes, logs, locked, req>>

EventPut(r) ==
  /\ ev[r] # NoRow
  /\ UpdateRow(dom[r], [ev[r] EXCEPT !.status = EventStatus(r), !.pid = EventPid(r)])
  /\ ev' = [ev EXCEPT ![r] = NoRow]
  /\ Emitted(r)
  /\ UNCHANGED <<routes, logs, locked, req>>

(***************************************************************************)
(* StopDomain, RestartDomain: no lock                                      *)
(***************************************************************************)
Get(c, op, d) ==
  /\ c # Creator /\ op \in Ops /\ req[c].at = "idle"
  /\ rows[d] # NoRow
  /\ req' = [req EXCEPT ![c] = [op |-> op, at |-> "got", dom |-> d,
                                row |-> rows[d], run |-> NoRun]]

BeginUnlocked(c, op, d) ==
  /\ op \in {"stop", "restart"}
  /\ Get(c, op, d)
  /\ UNCHANGED <<vars, rows, routes, logs, locked, ev>>

\* sup.Stop: "no running process" is an error, os.ErrProcessDone is not.
StopProcess(c) ==
  /\ At(c, "stop", "got")
  /\ IF procs[req[c].dom] = NoRun
     THEN Return(c) /\ UNCHANGED vars
     ELSE StopLookup(c, req[c].dom) /\ Goto2(c, "stopping")
  /\ UNCHANGED <<rows, routes, logs, locked, ev>>

\* Mutant: the row is written back as it was read.
StopPutStale(c) ==
  /\ At(c, "stop", "stopping") /\ call[c] = Returned
  /\ UpdateRow(req[c].dom, req[c].row)
  /\ Return(c)
  /\ UNCHANGED <<vars, routes, logs, locked, ev>>

StopPut(c) ==
  /\ At(c, "stop", "stopping") /\ call[c] = Returned
  /\ UpdateRow(req[c].dom, [req[c].row EXCEPT !.status = "stopped"])
  /\ Return(c)
  /\ UNCHANGED <<vars, routes, logs, locked, ev>>

\* Writes RestartCount and LastError, and every other column as it was read.
RestartPut(c) ==
  /\ At(c, "restart", "got")
  /\ UpdateRow(req[c].dom, req[c].row)
  /\ IF rows[req[c].dom] = NoRow THEN Return(c) ELSE Goto2(c, "spawn")
  /\ UNCHANGED <<vars, routes, logs, locked, ev>>

(***************************************************************************)
(* DeleteDomain, UpdateOrigin, ReplaceRoutes: under lockDomain             *)
(***************************************************************************)
BeginLocked(c, op, d) ==
  /\ op \in {"delete", "routes"}
  /\ locked[d] = NoCaller
  /\ locked' = [locked EXCEPT ![d] = c]
  /\ Get(c, op, d)
  /\ UNCHANGED <<vars, rows, routes, logs, ev>>

ReturnUnlocking(c) ==
  /\ locked' = [locked EXCEPT ![req[c].dom] = NoCaller]
  /\ Return(c)

\* IsRunning, then (a section of s.mu later) Stop.
DeleteIsRunning(c) ==
  /\ At(c, "delete", "got")
  /\ Goto2(c, IF procs[req[c].dom] # NoRun THEN "stopping" ELSE "remove")
  /\ UNCHANGED <<vars, rows, routes, logs, locked, ev>>

\* Mutant: the error return of DeleteDomain keeps the lock.
DeleteStopLeaky(c) ==
  /\ At(c, "delete", "stopping")
  /\ IF procs[req[c].dom] = NoRun
     THEN Return(c) /\ UNCHANGED vars
     ELSE StopLookup(c, req[c].dom) /\ Goto2(c, "remove")
  /\ UNCHANGED <<rows, routes, logs, locked, ev>>

\* The entry went away in between: Stop fails, and the deletion with it.
DeleteStop(c) ==
  /\ At(c, "delete", "stopping")
  /\ IF procs[req[c].dom] = NoRun
     THEN ReturnUnlocking(c) /\ UNCHANGED vars
     ELSE StopLookup(c, req[c].dom) /\ Goto2(c, "remove") /\ UNCHANGED locked
  /\ UNCHANGED <<rows, routes, logs, ev>>

\* repo.Delete; the routes go with the row (ON DELETE CASCADE).
DeleteRow(c) ==
  LET d == req[c].dom IN
  /\ At(c, "delete", "remove") /\ call[c] = Returned
  /\ rows'   = [rows EXCEPT ![d] = NoRow]
  /\ routes' = [routes EXCEPT ![d] = NoRow]
  /\ Goto2(c, "logs")
  /\ UNCHANGED <<vars, logs, locked, ev>>

DeleteLog(c) ==
  /\ At(c, "delete", "logs")
  /\ logs' = logs \ {req[c].dom}
  /\ ReturnUnlocking(c)
  /\ UNCHANGED <<vars, rows, routes, ev>>

\* repo.ReplaceRoutes: one transaction over both tables, and only origin_url of
\* the row.  (RouteUpdate models the proxy and Cloudflare around it.)
ReplaceRoutes(c, o) ==
  LET d == req[c].dom IN
  /\ At(c, "routes", "got")
  /\ rows'   = [rows EXCEPT ![d].origin = o]
  /\ routes' = [routes EXCEPT ![d] = o]
  /\ ReturnUnlocking(c)
  /\ UNCHANGED <<vars, logs, ev>>

-----------------------------------------------------------------------------
RequestStep(c) ==
  \/ CreateFailed(c) \/ OpenLog(c) \/ StartRefused(c)
  \/ \E r \in Runs : StartClaims(c, r)
  \/ StopProcess(c) \/ StopPut(c) \/ RestartPut(c)
  \/ DeleteIsRunning(c) \/ DeleteStop(c) \/ DeleteRow(c) \/ DeleteLog(c)
  \/ \E o \in Origins : ReplaceRoutes(c, o)
  \/ StopStep(c) /\ UNCHANGED control

\* The steps of a run's thread: those of the supervisor, with the event handler
\* in the place of Emitted.
RunStep(r) ==
  \/ StartSpawns(r) \/ StartFails(r) \/ EventGet(r) \/ EventPut(r)
  \/ /\ \/ SpawnFails(r) \/ Publish(r) \/ KillAndWait(r) \/ Arm(r) \/ SuperviseStep(r)
     /\ UNCHANGED control

\* A request comes in.
Arrival ==
  \/ \E d \in Domains, o \in Origins : CreateInsert(d, o)
  \/ \E c \in Callers, d \in Domains, op \in Ops :
       BeginUnlocked(c, op, d) \/ BeginLocked(c, op, d)

\* What is under way goes on.
Work ==
  \/ \E c \in Callers : RequestStep(c)
  \/ \E r \in Runs : RunStep(r)
  \/ \E r \in Runs : ((Timers /\ TimerStep(r)) \/ Exit(r)) /\ UNCHANGED control

ControlNext == Arrival \/ Work

ControlSpec == ControlInit /\ [][ControlNext]_allVars

\* Every thread goes on, cloudflared obeys SIGTERM; nobody has to send requests
\* and processes need not crash.
ControlFairSpec ==
  /\ ControlSpec
  /\ \A c \in Callers : WF_allVars(RequestStep(c))
  /\ \A r \in Runs : WF_allVars(RunStep(r))
  /\ \A r \in Runs : WF_allVars(os[r] = "signalled" /\ Exit(r) /\ UNCHANGED control)

-----------------------------------------------------------------------------
(***************************************************************************)
(* Properties                                                              *)
(***************************************************************************)

\* No request and no event of domain d is under way.
Quiet(d) ==
  /\ \A c \in Callers : req[c].dom = d => req[c].at \in {"idle", "done"}
  /\ \A r \in Runs : dom[r] = d => pc[r] \notin {"active", "stopped", "error"}

Present(d) == rows[d] # NoRow

\* A row appears once, when its domain is created: the rows that handlers, stops
\* and restarts read before a deletion and write after it do not bring it back.
DeletedStaysDeleted ==
  [][\A d \in Domains :
       rows[d] = NoRow /\ rows'[d] # NoRow => req[Creator].op = "none"]_allVars

\* Without restarts, a row that says "active" at rest belongs to a run that is
\* still supervised, and carries its pid: the last write about a process that is
\* given up or stopped is not overtaken by an older one (service.go:263-276,
\* stop.go:10-20).
ActiveIsTracked ==
  \A d \in Domains :
    Quiet(d) /\ Present(d) /\ rows[d].status = "active"
    => procs[d] # NoRun /\ rows[d].pid = procs[d]

\* A stop requested before the first crash was noticed ends the process for good,
\* and, without restarts, the row leaves "active" for good, whichever of StopDomain and the event
\* handler writes last.  (A stop during the backoff may be lost: StopNotLost.)
StopTakesEffect ==
  \A r \in Runs :
    stop[r] /\ attempt[r] = 0 /\ pc[r] \notin {"idle", "count", "giveup"}
    ~> [](/\ os[r] = "none"
          /\ Present(dom[r]) => rows[dom[r]].status \in {"stopped", "error"})

\* A handler that holds a domain's lock gives it back on every return, also when
\* Stop fails because the process ended in between (delete.go:23-26).
LocksReleased == \A d \in Domains : locked[d] # NoCaller ~> locked[d] = NoCaller

\* Design document: "pid: nullable; current OS process ID when running".  A stop
\* writes back the pid it read before the process ended.
PidIsCurrent ==
  \A d \in Domains :
    Quiet(d) /\ Present(d) /\ rows[d].pid # NoRun => procs[d] = rows[d].pid

\* Design document: "On successful start, update status=active and pid".  The
\* entry is deleted before Stopped is emitted, so a restart in between starts a
\* process whose row ends as "stopped".
RunningIsActive ==
  \A r \in Runs :
    LET d == dom[r] IN
    /\ pc[r] = "wait" /\ os[r] = "running" /\ ~stop[r]
    /\ Quiet(d) /\ Present(d)
    => rows[d].status = "active"

\* Design document: "mirror the / route into domains.origin_url".  Update writes
\* every column, so an event handler that read the row before a replacement of
\* the routes writes the old origin back.
OriginMirrored == \A d \in Domains : Present(d) => rows[d].origin = routes[d]

\* Design document, Delete: "Kill the subprocess ... delete the SQLite row".
\* CreateDomain and RestartDomain start a process without the domain's lock, so
\* the process of a deleted domain can be left running.
DeletedHasNoProcess ==
  \A r \in Runs :
    pc[r] = "wait" /\ os[r] = "running" /\ Quiet(dom[r]) => Present(dom[r])

\* README: "restart: Restart the managed cloudflared process".  A restart of a
\* domain whose process runs is refused and leaves the old process in place.
RestartStarts ==
  [][\A c \in Callers :
       At(c, "restart", "start") /\ req'[c].at = "idle"
       => procs'[req[c].dom] # procs[req[c].dom]]_allVars

=============================================================================
