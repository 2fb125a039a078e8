------------------------------- MODULE Lifecycle -------------------------------
(***************************************************************************)
(* The lives of the backend: internal/pkg/lifecycle starts it, Reconcile   *)
(* of the domain service brings the active domains back, then requests     *)
(* come in, until the process ends at some step.  SQLite is all that       *)
(* remains; whether the cloudflared children end too depends on the        *)
(* deployment (they do in the container, whose first process this is).     *)
(*                                                                         *)
(* The requests, the event handler and the supervisor are those of         *)
(* DomainControl.  A goroutine of Reconcile's pool is a caller whose       *)
(* operation is "boot".  An error of Reconcile ends the process, and so is *)
(* one of the crashes.  The hydration of the proxy is in RouteUpdate.      *)
(***************************************************************************)
EXTENDS DomainControl

CONSTANT MaxStarts   \* bound: how often the backend is started

ASSUME MaxStartsAssumption == MaxStarts \in Nat

VARIABLES
  phase,   \* "off", "boot": in Reconcile, "up": the server listens
  starts,  \* how often it was started
  todo,    \* the active rows that Reconcile has read and not handed out
  failed,  \* the rows that the pool returned, for updateBulk
  strays   \* domains with a process left over from an earlier life

life     == <<phase, starts, todo, failed, strays>>
lifeVars == <<allVars, life>>

Nothing == [d \in Domains |-> NoRow]

LifeTypeOK ==
  /\ ControlTypeOK
  /\ phase \in {"off", "boot", "up"}
  /\ starts \in 0 .. MaxStarts
  /\ todo   \in [Domains -> Row \cup {NoRow}]
  /\ failed \in [Domains -> Row \cup {NoRow}]
  /\ strays \subseteq Domains

\* The rows that earlier lives left: any status and pid.
Stored ==
  /\ rows \in [Domains -> Row]
  /\ routes = [d \in Domains |-> rows[d].origin]
  /\ req \in {[c \in Callers |-> IF c = Creator THEN [Idle(d) EXCEPT !.op = "create"]
                                 ELSE Idle(d)] : d \in Domains}

\* The first start of this version finds an empty table, or domains that exist already.
LifeInit ==
  /\ \/ ControlInit
     \/ /\ Init /\ Stored
        /\ logs = {} /\ locked = [d \in Domains |-> NoCaller] /\ ev = [r \in Runs |-> NoRow]
  /\ phase = "off" /\ starts = 0
  /\ todo = Nothing /\ failed = Nothing /\ strays = {}

(***************************************************************************)
(* Start-up                                                                *)
(***************************************************************************)

\* The domains that Reconcile starts and that the Prometheus discovery lists.
ActiveDomains == {d \in Domains : rows[d] # NoRow /\ rows[d].status = "active"}

\* ListAll, before anything else runs.
Boot ==
  /\ phase = "off" /\ starts < MaxStarts
  /\ phase'  = "boot"
  /\ starts' = starts + 1
  /\ todo'   = [d \in Domains |-> IF d \in ActiveDomains THEN rows[d] ELSE NoRow]
  /\ UNCHANGED <<allVars, failed, strays>>

Fail(d, row) == failed' = [failed EXCEPT ![d] = [row EXCEPT !.status = "error"]]

\* A goroutine of the pool decrypts the token and goes to spawn; or the token cannot
\* be decrypted, or the log not be opened.
Take(c, d) ==
  /\ phase = "boot" /\ todo[d] # NoRow
  /\ c # Creator /\ req[c].at = "idle"
  /\ todo' = [todo EXCEPT ![d] = NoRow]
  /\ \/ /\ req' = [req EXCEPT ![c] = [op |-> "boot", at |-> "spawn", dom |-> d,
                                      row |-> todo[d], run |-> NoRun]]
        /\ UNCHANGED failed
     \/ Fail(d, todo[d]) /\ UNCHANGED req
  /\ UNCHANGED <<vars, rows, routes, logs, locked, ev, phase, starts, strays>>

\* Start emits its event before it returns.
StartUnderWay(d) ==
  \E r \in Runs : dom[r] = d /\ attempt[r] = 0 /\ pc[r] \in {"started", "arm", "active"}

\* Mutants: the goroutine of a failed start never ends; its error is dropped.
CollectStarted(c) ==
  /\ At(c, "boot", "done") /\ ~StartUnderWay(req[c].dom)
  /\ Return(c)
  /\ UNCHANGED <<vars, rows, routes, logs, locked, ev, life>>

CollectNothing(c) ==
  /\ At(c, "boot", "done") \/ At(c, "boot", "failed")
  /\ ~StartUnderWay(req[c].dom)
  /\ Return(c)
  /\ UNCHANGED <<vars, rows, routes, logs, locked, ev, life>>

\* The goroutine ends: with the row of a domain that was not started, or without.
Collect(c) ==
  /\ \/ At(c, "boot", "done") /\ ~StartUnderWay(req[c].dom) /\ UNCHANGED failed
     \/ At(c, "boot", "failed") /\ Fail(req[c].dom, req[c].row)
  /\ Return(c)
  /\ UNCHANGED <<vars, rows, routes, logs, locked, ev, phase, starts, todo, strays>>

\* p.Wait, updateBulk (whole rows again), and the server listens.
Save ==
  /\ phase = "boot" /\ todo = Nothing
  /\ \A c \in Callers : req[c].op # "boot"
  /\ rows'   = [d \in Domains |-> IF rows[d] = NoRow \/ failed[d] = NoRow
                                  THEN rows[d] ELSE failed[d]]
  /\ phase'  = "up"
  /\ failed' = Nothing
  /\ UNCHANGED <<vars, routes, logs, locked, req, ev, starts, todo, strays>>

(***************************************************************************)
(* The end of the process: a failed start, a shutdown or a crash.  OnStop  *)
(* waits for requests for ten seconds at most, and stops no child.         *)
(***************************************************************************)

\* Everything in memory is gone.  The creator does not create a second domain.
Forget ==
  /\ procs'   = [d \in Domains |-> NoRun]
  /\ pc'      = [r \in Runs |-> "idle"]
  /\ os'      = [r \in Runs |-> "none"]
  /\ cmd'     = [r \in Runs |-> "nil"]
  /\ stop'    = [r \in Runs |-> FALSE]
  /\ count'   = [r \in Runs |-> 0]
  /\ attempt' = [r \in Runs |-> 0]
  /\ timer'   = [r \in Runs |-> {}]
  /\ call'    = [c \in Callers |-> Returned]
  /\ logs'    = {}
  /\ locked'  = [d \in Domains |-> NoCaller]
  /\ req'     = [c \in Callers |-> IF c = Creator /\ req[c].op = "create"
                   THEN [Idle(req[c].dom) EXCEPT !.op = "create"] ELSE Idle(req[c].dom)]
  /\ ev'      = [r \in Runs |-> NoRow]
  /\ UNCHANGED dom

\* All children of the backend outlive it, or none.
Crash ==
  /\ phase # "off" /\ starts < MaxStarts
  /\ Forget
  /\ phase' = "off" /\ todo' = Nothing /\ failed' = Nothing
  /\ strays' \in {{}, strays \cup {dom[r] : r \in {x \in Runs : Alive(x)}}}
  /\ UNCHANGED <<rows, routes, starts>>

\* A process that was left over ends.
StrayExits(d) ==
  /\ d \in strays
  /\ strays' = strays \ {d}
  /\ UNCHANGED <<allVars, phase, starts, todo, failed>>

-----------------------------------------------------------------------------
BootStep ==
  \/ Boot \/ Save
  \/ \E c \in Callers : Collect(c) \/ \E d \in Domains : Take(c, d)

LifeNext ==
  \/ BootStep \/ Crash
  \/ \E d \in Domains : StrayExits(d)
  \/ phase = "up" /\ Arrival /\ UNCHANGED life
  \/ Work /\ UNCHANGED life

LifeSpec == LifeInit /\ [][LifeNext]_lifeVars

\* The container is started again when it ends (restart: unless-stopped); the rest
\* as in DomainControl.
LifeFairSpec ==
  /\ LifeSpec
  /\ WF_lifeVars(BootStep)
  /\ \A c \in Callers : WF_lifeVars(RequestStep(c) /\ UNCHANGED life)
  /\ \A r \in Runs : WF_lifeVars(RunStep(r) /\ UNCHANGED life)

-----------------------------------------------------------------------------
(***************************************************************************)
(* Properties                                                              *)
(***************************************************************************)

\* Run r has released its entry and its last event has yet to reach the table.
LastEvent(r, d) == dom[r] = d /\ pc[r] \in {"stopped", "error"}

\* Design document: "active domains come back on their own".  When the server begins
\* to listen every row that says active has its process supervised, or is about to
\* be told that it was given up: whatever the backend was doing when it ended, which
\* of the spawns failed, and what the events of the others wrote meanwhile.
ActiveComesBack ==
  [][phase = "boot" /\ phase' = "up" =>
       \A d \in ActiveDomains' : procs[d] # NoRun \/ \E r \in Runs : LastEvent(r, d)]_lifeVars

\* Every start-up ends with a listening server, however its spawns fail: nothing
\* that the pool waits for waits for the server.
BootCompletes == phase # "up" ~> phase = "up"

\* Design document, manual stop: "supervisor will not auto-restart".  A stop that was
\* answered may be overwritten by the Active event that overlapped it, and the next
\* start-up starts the domain again.  Meant for instances without restart requests.
StopOutlivesCrash ==
  \A d \in Domains :
    [](phase = "up" /\ Present(d) /\ rows[d].status = "stopped" => [](todo[d] = NoRow))

\* Design document: "Deleting one domain never affects another" and Delete: "Kill the
\* subprocess".  OnStop stops no child, and nobody looks for the processes of an
\* earlier life: a domain can have two, or one that no row tells of.
NoStrays == \A d \in strays : phase = "up" => procs[d] = NoRun /\ Present(d)

=============================================================================
