------------------------------ MODULE Supervisor ------------------------------
(***************************************************************************)
(* internal/pkg/process: the supervisor of the cloudflared processes.      *)
(*                                                                         *)
(* A "run" is one call of Supervisor.Start: the managedProcess record it   *)
(* allocates, the thread that executes Start and then supervise, and the   *)
(* OS process that thread starts and restarts.  A "caller" is a thread     *)
(* that calls Supervisor.Stop.  Every action is one critical section of    *)
(* s.mu or mp.mu, or one system call; the threads interleave between them. *)
(* The synchronous call of the event handler is the step Emitted.          *)
(***************************************************************************)
EXTENDS Integers

CONSTANTS
  Domains,      \* keys of Supervisor.procs
  Runs,         \* pool of managedProcess records, reused when unreferenced
  Callers,      \* threads that call Stop
  NoRun,        \* "not in the map"
  MaxRestarts   \* maxRestartAttempts

ASSUME NoRunAssumption == NoRun \notin Runs
ASSUME MaxRestartsAssumption == MaxRestarts \in Nat

VARIABLES
  procs,    \* Supervisor.procs: domain -> run
  pc,       \* where the thread of a run is
  dom,      \* the run's domainID
  os,       \* its process; "exited" is not yet waited for, "signalled" got SIGTERM
  cmd,      \* mp.cmd: nil, current (the process of os), reaped (an older one)
  stop,     \* mp.stopRequested
  count,    \* mp.restartCount
  attempt,  \* supervise's local: the value count had when it was incremented
  timer,    \* mp.stableTimer: "armed"; "late": a fired callback has yet to run
  call      \* a caller of Stop: where it is, the record and *os.Process it read

vars == <<procs, pc, dom, os, cmd, stop, count, attempt, timer, call>>

PCs == {"idle", "claimed", "undo", "started", "kill", "drop", "arm", "active",
        "wait", "reaped", "count", "giveup", "backoff", "adopt", "stopped",
        "error"}

Returned == [at |-> "idle", run |-> NoRun, proc |-> "none"]

TypeOK ==
  /\ procs   \in [Domains -> Runs \cup {NoRun}]
  /\ pc      \in [Runs -> PCs]
  /\ dom     \in [Runs -> Domains]
  /\ os      \in [Runs -> {"none", "running", "signalled", "exited"}]
  /\ cmd     \in [Runs -> {"nil", "current", "reaped"}]
  /\ stop    \in [Runs -> BOOLEAN]
  /\ count   \in [Runs -> 0 .. MaxRestarts + 1]
  /\ attempt \in [Runs -> 0 .. MaxRestarts + 1]
  /\ timer   \in [Runs -> SUBSET {"armed", "late"}]
  /\ call    \in [Callers -> {Returned} \cup
                    [at : {"found"}, run : Runs, proc : {"none"}] \cup
                    [at : {"marked"}, run : Runs, proc : {"live", "done"}]]

Init ==
  /\ procs   = [d \in Domains |-> NoRun]
  /\ pc      = [r \in Runs |-> "idle"]
  /\ dom     \in {[r \in Runs |-> d] : d \in Domains}
  /\ os      = [r \in Runs |-> "none"]
  /\ cmd     = [r \in Runs |-> "nil"]
  /\ stop    = [r \in Runs |-> FALSE]
  /\ count   = [r \in Runs |-> 0]
  /\ attempt = [r \in Runs |-> 0]
  /\ timer   = [r \in Runs |-> {}]
  /\ call    = [c \in Callers |-> Returned]

Goto(r, from, to) ==
  /\ pc[r] = from
  /\ pc' = [pc EXCEPT ![r] = to]

\* delete(s.procs, domainID): by key, whoever's record is stored under it.
DeleteEntry(r) == procs' = [procs EXCEPT ![dom[r]] = NoRun]

(***************************************************************************)
(* Start                                                                   *)
(***************************************************************************)

\* A new managedProcess: one no thread, timer callback or caller refers to.
Insert(r, d) ==
  /\ timer[r] = {}
  /\ \A c \in Callers : call[c].run # r
  /\ Goto(r, "idle", "claimed")
  /\ procs'   = [procs EXCEPT ![d] = r]
  /\ dom'     = [dom EXCEPT ![r] = d]
  /\ cmd'     = [cmd EXCEPT ![r] = "nil"]
  /\ stop'    = [stop EXCEPT ![r] = FALSE]
  /\ count'   = [count EXCEPT ![r] = 0]
  /\ attempt' = [attempt EXCEPT ![r] = 0]
  /\ UNCHANGED <<os, timer, call>>

\* Mutant: Start without the "already running" check.
ClaimUnchecked(r, d) == Insert(r, d)

\* Start is refused ("process already running") when the key is present.
Claim(r, d) == procs[d] = NoRun /\ Insert(r, d)

\* cmd.Start() of Start succeeds, or fails and the entry is removed again.
Spawn(r) ==
  /\ Goto(r, "claimed", "started")
  /\ os' = [os EXCEPT ![r] = "running"]
  /\ UNCHANGED <<procs, dom, cmd, stop, count, attempt, timer, call>>

SpawnFails(r) ==
  /\ Goto(r, "claimed", "undo")
  /\ UNCHANGED <<procs, dom, os, cmd, stop, count, attempt, timer, call>>

UndoClaim(r) ==
  /\ Goto(r, "undo", "idle")
  /\ DeleteEntry(r)
  /\ UNCHANGED <<dom, os, cmd, stop, count, attempt, timer, call>>

\* Mutant: mp.cmd is published without looking at stopRequested.
PublishBlindly(r) ==
  /\ Goto(r, "started", "arm")
  /\ cmd' = [cmd EXCEPT ![r] = "current"]
  /\ UNCHANGED <<procs, dom, os, stop, count, attempt, timer, call>>

\* Under mp.mu: a Stop that came before mp.cmd was set is honoured here.
Publish(r) ==
  /\ Goto(r, "started", IF stop[r] THEN "kill" ELSE "arm")
  /\ cmd' = IF stop[r] THEN cmd ELSE [cmd EXCEPT ![r] = "current"]
  /\ UNCHANGED <<procs, dom, os, stop, count, attempt, timer, call>>

KillAndWait(r) ==
  /\ Goto(r, "kill", "drop")
  /\ os' = [os EXCEPT ![r] = "none"]
  /\ UNCHANGED <<procs, dom, cmd, stop, count, attempt, timer, call>>

Arm(r) ==
  /\ Goto(r, "arm", "active")
  /\ timer' = [timer EXCEPT ![r] = @ \cup {"armed"}]
  /\ UNCHANGED <<procs, dom, os, cmd, stop, count, attempt, call>>

\* The event handler has returned: emit is called synchronously.
Emitted(r) ==
  /\ \/ Goto(r, "active", "wait")
     \/ Goto(r, "stopped", "idle")
     \/ Goto(r, "error", "idle")
  /\ UNCHANGED <<procs, dom, os, cmd, stop, count, attempt, timer, call>>

(***************************************************************************)
(* supervise                                                               *)
(***************************************************************************)

\* cmd.Wait returns: from here every holder of the *os.Process gets
\* os.ErrProcessDone from Signal.
Wait(r) ==
  /\ Goto(r, "wait", "reaped")
  /\ os[r] = "exited"
  /\ os'   = [os EXCEPT ![r] = "none"]
  /\ cmd'  = [cmd EXCEPT ![r] = "reaped"]
  /\ call' = [c \in Callers |-> IF call[c].at = "marked" /\ call[c].run = r
                                THEN [call[c] EXCEPT !.proc = "done"] ELSE call[c]]
  /\ UNCHANGED <<procs, dom, stop, count, attempt, timer>>

\* Mutant: supervise forgets to look at stopRequested.
ObserveExitOnly(r) ==
  /\ Goto(r, "reaped", "count")
  /\ timer' = [timer EXCEPT ![r] = @ \ {"armed"}]
  /\ UNCHANGED <<procs, dom, os, cmd, stop, count, attempt, call>>

\* Under mp.mu: stop the stable timer, read stopRequested.
ObserveExit(r) ==
  /\ Goto(r, "reaped", IF stop[r] THEN "drop" ELSE "count")
  /\ timer' = [timer EXCEPT ![r] = @ \ {"armed"}]
  /\ UNCHANGED <<procs, dom, os, cmd, stop, count, attempt, call>>

Count(r, n, budget) ==
  /\ Goto(r, "count", IF n > budget THEN "giveup" ELSE "backoff")
  /\ count'   = [count EXCEPT ![r] = n]
  /\ attempt' = [attempt EXCEPT ![r] = n]
  /\ UNCHANGED <<procs, dom, os, cmd, stop, timer, call>>

\* Mutants: the attempt is not counted; the budget is one too large.
CountNothing(r) == Count(r, count[r], MaxRestarts)
CountOneMore(r) == Count(r, count[r] + 1, MaxRestarts + 1)

\* Under mp.mu again, a second critical section.
CountFailure(r) == Count(r, count[r] + 1, MaxRestarts)

\* The entry is deleted first, the event emitted afterwards.
Release(r) ==
  /\ \/ Goto(r, "drop", "stopped")
     \/ Goto(r, "giveup", "error")
  /\ DeleteEntry(r)
  /\ UNCHANGED <<dom, os, cmd, stop, count, attempt, timer, call>>

\* Mutant: supervise gives its entry up when the backoff ends.
RespawnUntracked(r) ==
  /\ Goto(r, "backoff", "adopt")
  /\ os' = [os EXCEPT ![r] = "running"]
  /\ DeleteEntry(r)
  /\ UNCHANGED <<dom, cmd, stop, count, attempt, timer, call>>

\* The backoff is over: a new process is started. stopRequested is not read.
Respawn(r) ==
  /\ Goto(r, "backoff", "adopt")
  /\ os' = [os EXCEPT ![r] = "running"]
  /\ UNCHANGED <<procs, dom, cmd, stop, count, attempt, timer, call>>

\* Or cmd.Start fails; "continue" calls Wait on the old cmd, which returns an
\* error at once.
RespawnFails(r) ==
  /\ Goto(r, "backoff", "reaped")
  /\ UNCHANGED <<procs, dom, os, cmd, stop, count, attempt, timer, call>>

Adopt(r) ==
  /\ Goto(r, "adopt", "arm")
  /\ cmd' = [cmd EXCEPT ![r] = "current"]
  /\ UNCHANGED <<procs, dom, os, stop, count, attempt, timer, call>>

\* The stable timer fires; its callback waits for mp.mu in a thread of its own,
\* which timer.Stop does not wait for.  Bound: one late callback per record.
TimerFires(r) ==
  /\ timer[r] = {"armed"}
  /\ timer' = [timer EXCEPT ![r] = {"late"}]
  /\ UNCHANGED <<procs, pc, dom, os, cmd, stop, count, attempt, call>>

ResetCount(r) ==
  /\ "late" \in timer[r]
  /\ timer' = [timer EXCEPT ![r] = @ \ {"late"}]
  /\ count' = [count EXCEPT ![r] = 0]
  /\ UNCHANGED <<procs, pc, dom, os, cmd, stop, attempt, call>>

Alive(r) == os[r] \in {"running", "signalled"}

\* cloudflared exits: a crash, a normal end, or the answer to SIGTERM.
Exit(r) ==
  /\ Alive(r)
  /\ os' = [os EXCEPT ![r] = "exited"]
  /\ UNCHANGED <<procs, pc, dom, cmd, stop, count, attempt, timer, call>>

(***************************************************************************)
(* Stop                                                                    *)
(***************************************************************************)

\* With no entry, Stop returns "no running process" and changes nothing.
StopLookup(c, d) ==
  /\ call[c].at = "idle" /\ procs[d] # NoRun
  /\ call' = [call EXCEPT ![c] = [at |-> "found", run |-> procs[d], proc |-> "none"]]
  /\ UNCHANGED <<procs, pc, dom, os, cmd, stop, count, attempt, timer>>

\* Under mp.mu: set stopRequested and read mp.cmd; nil means Start is not
\* there yet and will see the flag.
StopMark(c) ==
  LET r == call[c].run IN
  /\ call[c].at = "found"
  /\ stop' = [stop EXCEPT ![r] = TRUE]
  /\ call' = [call EXCEPT ![c] =
       IF cmd[r] = "nil" THEN Returned
       ELSE [at |-> "marked", run |-> r,
             proc |-> IF cmd[r] = "current" THEN "live" ELSE "done"]]
  /\ UNCHANGED <<procs, pc, dom, os, cmd, count, attempt, timer>>

\* proc.Signal(SIGTERM): nothing happens to a process that is gone.
StopSignal(c) ==
  LET r == call[c].run IN
  /\ call[c].at = "marked"
  /\ os' = IF call[c].proc = "live" /\ os[r] = "running"
           THEN [os EXCEPT ![r] = "signalled"] ELSE os
  /\ call' = [call EXCEPT ![c] = Returned]
  /\ UNCHANGED <<procs, pc, dom, cmd, stop, count, attempt, timer>>

-----------------------------------------------------------------------------
StartStep(r) ==
  \/ Spawn(r) \/ SpawnFails(r) \/ UndoClaim(r) \/ Publish(r) \/ KillAndWait(r)
  \/ Arm(r) \/ Emitted(r)

SuperviseStep(r) ==
  \/ Wait(r) \/ ObserveExit(r) \/ CountFailure(r) \/ Release(r)
  \/ Respawn(r) \/ RespawnFails(r) \/ Adopt(r)

TimerStep(r) == TimerFires(r) \/ ResetCount(r)

StopStep(c) == StopMark(c) \/ StopSignal(c)

Next ==
  \/ \E r \in Runs, d \in Domains : Claim(r, d)
  \/ \E r \in Runs : StartStep(r) \/ SuperviseStep(r) \/ TimerStep(r) \/ Exit(r)
  \/ \E c \in Callers, d \in Domains : StopLookup(c, d)
  \/ \E c \in Callers : StopStep(c)

Spec == Init /\ [][Next]_vars

\* The Go scheduler runs every runnable thread; cloudflared obeys SIGTERM.
Fairness ==
  /\ \A r \in Runs : WF_vars(StartStep(r) \/ SuperviseStep(r))
  /\ \A r \in Runs : WF_vars(os[r] = "signalled" /\ Exit(r))
  /\ \A c \in Callers : WF_vars(StopStep(c))

FairSpec == Spec /\ Fairness

-----------------------------------------------------------------------------
(***************************************************************************)
(* Properties                                                              *)
(***************************************************************************)

\* A domain never has two cloudflared processes, whatever Start, Stop, crash and
\* backoff interleave (supervisor.go:33-39 against helper.go:57-91).
AtMostOneProcess ==
  \A r1, r2 \in Runs :
    r1 # r2 /\ os[r1] # "none" /\ os[r2] # "none" => dom[r1] # dom[r2]

\* Every process that exists is the one its domain's entry leads to, so Stop can
\* reach it: deleting the entry by key never hides another run's process.
ProcessIsTracked ==
  \A r \in Runs : os[r] # "none" => procs[dom[r]] = r

\* A caller of Stop that is about to signal the process of run r.
AboutToSignal(c, r) == call[c] = [at |-> "marked", run |-> r, proc |-> "live"]

\* A stop was requested of run r, yet its process goes on and nobody will tell it.
StopForgotten(r) ==
  /\ stop[r]
  /\ pc[r] = "wait" /\ os[r] = "running"
  /\ \A c \in Callers : ~AboutToSignal(c, r)

\* Stop sends SIGTERM or leaves the flag to Start, never neither: a stop of a run
\* that was not restarted yet is not forgotten (supervisor.go:49-64, 81-93).
FirstStopNotLost ==
  \A r \in Runs : attempt[r] = 0 => ~StopForgotten(r)

\* Design document: stop is "intentional stop; supervisor will not auto-restart",
\* the flag makes it treat "the exit as expected, not a crash".  A stop that falls
\* into the backoff is forgotten: the new process runs on (helper.go:76-89).
StopNotLost == \A r \in Runs : ~StopForgotten(r)

EntriesLeave ==
  \A d \in Domains :
    procs[d] # NoRun /\ procs'[d] # procs[d]
    => /\ procs'[d] = NoRun
       /\ pc'[procs[d]] # pc[procs[d]]
       /\ os[procs[d]] = "none"

\* An entry disappears only by a step of the run it belongs to, and only when
\* that run has no process: delete(s.procs, domainID) names the key, not the run.
ReleasedByOwner == [][EntriesLeave]_vars

\* A process that got SIGTERM ends its run: supervise sees the flag after Wait
\* and emits Stopped instead of restarting (helper.go:57-62).
TerminatedIsReleased ==
  \A r \in Runs : os[r] = "signalled" ~> pc[r] \in {"stopped", "idle"}

\* The retry loop ends: after an exit there is a new process or the entry is
\* released, also when the binary cannot be started any more (helper.go:64-84).
RetryEnds ==
  \A r \in Runs :
    os[r] = "exited" /\ pc[r] = "wait" ~> os[r] = "running" \/ pc[r] = "idle"

\* The slots the supervisor promises, each held by the run in procs.
Slot(d) ==
  IF procs[d] = NoRun THEN "free" ELSE IF Alive(procs[d]) THEN "up" ELSE "down"

Slots == INSTANCE TunnelSlots WITH slot <- [d \in Domains |-> Slot(d)]

\* A slot is claimed before a process is launched in it, and released only when
\* the process is gone: Supervisor implements TunnelSlots.
ImplementsSlots == Slots!Spec

=============================================================================
