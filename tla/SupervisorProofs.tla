--------------------------- MODULE SupervisorProofs ---------------------------
(* Theorems about Supervisor, for any domains, runs, callers and budget.       *)
EXTENDS Supervisor, TLAPS

\* Between the insertion of its entry and the deletion a run owns the entry.
Owning == PCs \ {"idle", "stopped", "error"}

\* The map and the threads agree on who owns an entry.
Entries ==
  /\ \A r \in Runs : pc[r] \in Owning => procs[dom[r]] = r
  /\ \A d \in Domains :
       procs[d] # NoRun => pc[procs[d]] \in Owning /\ dom[procs[d]] = d

\* A process exists only while its thread is between a cmd.Start and a Wait.
Processes ==
  \A r \in Runs :
    os[r] # "none" => pc[r] \in {"started", "kill", "arm", "active", "wait", "adopt"}

\* What mp.cmd can be at each place of the thread, and that a restarted run has
\* counted at least one attempt.
Commands ==
  \A r \in Runs :
    /\ pc[r] \in {"claimed", "started", "undo", "kill"} => cmd[r] = "nil"
    /\ pc[r] \in {"arm", "active", "wait"} => cmd[r] = "current"
    /\ pc[r] \in {"reaped", "count", "backoff", "adopt", "giveup"} => cmd[r] = "reaped"
    /\ pc[r] \in {"backoff", "adopt", "giveup"} => attempt[r] > 0

\* Only a run that gives up has counted past the budget.
Budget ==
  \A r \in Runs :
    count[r] > MaxRestarts => pc[r] \in {"giveup", "error", "idle"}

\* The handshake of Start and Stop through mp.cmd and mp.stopRequested.
StopsPending ==
  \A r \in Runs :
    attempt[r] = 0 /\ stop[r] /\ cmd[r] = "current" /\ os[r] = "running"
    => \E c \in Callers : AboutToSignal(c, r)

Inv == TypeOK /\ Entries /\ Processes /\ Commands /\ Budget /\ StopsPending

LEMMA InitInv == Init => Inv
  <1> SUFFICES ASSUME Init PROVE Inv
    OBVIOUS
  <1>1. TypeOK
    BY NoRunAssumption, MaxRestartsAssumption DEF Init, TypeOK, PCs, Returned
  <1>2. Entries /\ Processes /\ Commands /\ Budget /\ StopsPending
    BY NoRunAssumption, MaxRestartsAssumption
    DEF Init, Entries, Processes, Commands, Budget, StopsPending, Owning, PCs
  <1>3. QED
    BY <1>1, <1>2 DEF Inv

LEMMA StepInv == Inv /\ [Next]_vars => Inv'
  <1> SUFFICES ASSUME Inv, [Next]_vars PROVE Inv'
    OBVIOUS
  <1> USE NoRunAssumption, MaxRestartsAssumption
      DEF Inv, TypeOK, Entries, Processes, Commands, Budget, StopsPending, Owning, PCs,
          Returned, AboutToSignal, Goto, DeleteEntry
  <1>1. ASSUME NEW r \in Runs, NEW d \in Domains, Claim(r, d) PROVE Inv'
    BY <1>1 DEF Claim, Insert
  <1>2. ASSUME NEW r \in Runs, Spawn(r) PROVE Inv'
    BY <1>2 DEF Spawn
  <1>3. ASSUME NEW r \in Runs, SpawnFails(r) PROVE Inv'
    BY <1>3 DEF SpawnFails
  <1>4. ASSUME NEW r \in Runs, UndoClaim(r) PROVE Inv'
    BY <1>4 DEF UndoClaim
  <1>5. ASSUME NEW r \in Runs, Publish(r) PROVE Inv'
    BY <1>5 DEF Publish
  <1>6. ASSUME NEW r \in Runs, KillAndWait(r) PROVE Inv'
    BY <1>6 DEF KillAndWait
  <1>7. ASSUME NEW r \in Runs, Arm(r) PROVE Inv'
    BY <1>7 DEF Arm
  <1>8. ASSUME NEW r \in Runs, Emitted(r) PROVE Inv'
    BY <1>8 DEF Emitted
  <1>9. ASSUME NEW r \in Runs, Wait(r) PROVE Inv'
    BY <1>9 DEF Wait
  <1>10. ASSUME NEW r \in Runs, ObserveExit(r) PROVE Inv'
    BY <1>10 DEF ObserveExit
  <1>11. ASSUME NEW r \in Runs, CountFailure(r) PROVE Inv'
    BY <1>11 DEF CountFailure, Count
  <1>12. ASSUME NEW r \in Runs, Release(r) PROVE Inv'
    BY <1>12 DEF Release
  <1>13. ASSUME NEW r \in Runs, Respawn(r) PROVE Inv'
    BY <1>13 DEF Respawn
  <1>14. ASSUME NEW r \in Runs, RespawnFails(r) PROVE Inv'
    BY <1>14 DEF RespawnFails
  <1>15. ASSUME NEW r \in Runs, Adopt(r) PROVE Inv'
    BY <1>15 DEF Adopt
  <1>16. ASSUME NEW r \in Runs, TimerFires(r) PROVE Inv'
    BY <1>16 DEF TimerFires
  <1>17. ASSUME NEW r \in Runs, ResetCount(r) PROVE Inv'
    BY <1>17 DEF ResetCount
  <1>18. ASSUME NEW r \in Runs, Exit(r) PROVE Inv'
    BY <1>18 DEF Exit, Alive
  <1>19. ASSUME NEW c \in Callers, NEW d \in Domains, StopLookup(c, d) PROVE Inv'
    BY <1>19 DEF StopLookup
  <1>20. ASSUME NEW c \in Callers, StopMark(c) PROVE Inv'
    BY <1>20 DEF StopMark
  <1>21. ASSUME NEW c \in Callers, StopSignal(c) PROVE Inv'
    BY <1>21 DEF StopSignal
  <1>22. CASE UNCHANGED vars
    BY <1>22 DEF vars
  <1>23. QED
    BY <1>1, <1>2, <1>3, <1>4, <1>5, <1>6, <1>7, <1>8, <1>9, <1>10, <1>11, <1>12,
       <1>13, <1>14, <1>15, <1>16, <1>17, <1>18, <1>19, <1>20, <1>21, <1>22
    DEF Next, StartStep, SuperviseStep, TimerStep, StopStep

-----------------------------------------------------------------------------
\* What the threads of Start, supervise, Stop and the timers preserve together.
THEOREM Invariance == Spec => []Inv
  <1>1. Init => Inv
    BY InitInv
  <1>2. Inv /\ [Next]_vars => Inv'
    BY StepInv
  <1>3. QED
    BY <1>1, <1>2, PTL DEF Spec

\* Every variable of the supervisor keeps its type; in particular restartCount
\* never exceeds maxRestartAttempts by more than one.
THEOREM TypeCorrect == Spec => []TypeOK
  <1>1. Inv => TypeOK
    BY DEF Inv
  <1>2. QED
    BY <1>1, Invariance, PTL

\* The entry of a domain leads to the domain's process whenever it has one.
THEOREM Tracked == Spec => []ProcessIsTracked
  <1>1. Inv => ProcessIsTracked
    BY DEF Inv, TypeOK, Entries, Processes, ProcessIsTracked, Owning, PCs
  <1>2. QED
    BY <1>1, Invariance, PTL

LEMMA OneProcess == Inv => AtMostOneProcess
  <1> SUFFICES ASSUME Inv,
                      NEW r1 \in Runs, NEW r2 \in Runs,
                      r1 # r2, os[r1] # "none", os[r2] # "none"
               PROVE  dom[r1] # dom[r2]
    BY DEF AtMostOneProcess
  <1>1. pc[r1] \in Owning /\ pc[r2] \in Owning
    BY DEF Inv, Processes, Owning, PCs
  <1>2. procs[dom[r1]] = r1 /\ procs[dom[r2]] = r2
    BY <1>1 DEF Inv, Entries
  <1>3. QED
    BY <1>2

\* No domain ever has two cloudflared processes in one life of the backend.
THEOREM MutualExclusion == Spec => []AtMostOneProcess
  BY OneProcess, Invariance, PTL

\* A stop requested before the first restart reaches the process.
THEOREM StopHandshake == Spec => []FirstStopNotLost
  <1>1. Inv => FirstStopNotLost
    <2> SUFFICES ASSUME Inv, NEW r \in Runs, attempt[r] = 0, StopForgotten(r)
                 PROVE  FALSE
      BY DEF FirstStopNotLost
    <2>1. cmd[r] = "current"
      BY DEF Inv, Commands, StopForgotten
    <2>2. QED
      BY <2>1 DEF Inv, StopsPending, StopForgotten
  <1>2. QED
    BY <1>1, Invariance, PTL

\* No step deletes another run's entry, or an entry whose process is alive.
THEOREM OwnerReleases == Spec => ReleasedByOwner
  <1>1. Inv /\ [Next]_vars => [EntriesLeave]_vars
    <2> SUFFICES ASSUME Inv, Next, NEW d \in Domains,
                        procs[d] # NoRun, procs'[d] # procs[d]
                 PROVE  /\ procs'[d] = NoRun
                        /\ pc'[procs[d]] # pc[procs[d]]
                        /\ os[procs[d]] = "none"
      BY DEF EntriesLeave
    <2> USE DEF Inv, TypeOK, Entries, Processes, Owning, PCs, Goto, DeleteEntry
    <2>1. PICK r \in Runs : UndoClaim(r) \/ Release(r)
      BY DEF Next, StartStep, SuperviseStep, TimerStep, StopStep, Claim, Insert,
             Spawn, SpawnFails, Publish, KillAndWait, Arm, Emitted, Wait,
             ObserveExit, CountFailure, Count, Respawn, RespawnFails, Adopt,
             TimerFires, ResetCount, Exit, StopLookup, StopMark, StopSignal
    <2>2. d = dom[r] /\ procs[d] = r
      BY <2>1 DEF UndoClaim, Release
    <2>3. QED
      BY <2>1, <2>2 DEF UndoClaim, Release
  <1>2. QED
    BY <1>1, Invariance, PTL DEF Spec, ReleasedByOwner

-----------------------------------------------------------------------------
(* What follows a stop.                                                        *)

\* A stop was requested of run r, which has not restarted and is not about to.
Stopping(r) == stop[r] /\ attempt[r] = 0 /\ pc[r] \notin {"idle", "count", "giveup"}

\* It goes on to its end, and launches nothing but the process that Start is at.
Ends(r) ==
  Stopping(r) => /\ Stopping(r)' \/ pc'[r] = "idle"
                 /\ os[r] = "none" /\ os'[r] # "none" => pc[r] = "claimed"

LEMMA EndsStep ==
  ASSUME Inv, [Next]_vars, NEW r \in Runs PROVE Ends(r)
  <1> USE DEF Inv, TypeOK, Commands, Ends, Stopping, Goto
  <1>1. ASSUME NEW s \in Runs, NEW d \in Domains, Claim(s, d) PROVE Ends(r)
    BY <1>1 DEF Claim, Insert
  <1>2. ASSUME NEW s \in Runs, StartStep(s) PROVE Ends(r)
    BY <1>2 DEF StartStep, Spawn, SpawnFails, UndoClaim, Publish, KillAndWait, Arm, Emitted
  <1>3. ASSUME NEW s \in Runs, Wait(s) \/ ObserveExit(s) \/ CountFailure(s) PROVE Ends(r)
    BY <1>3 DEF Wait, ObserveExit, CountFailure, Count
  <1>4. ASSUME NEW s \in Runs, Release(s) \/ Respawn(s) \/ RespawnFails(s) \/ Adopt(s)
        PROVE  Ends(r)
    BY <1>4 DEF Release, Respawn, RespawnFails, Adopt
  <1>5. ASSUME NEW s \in Runs, TimerStep(s) \/ Exit(s) PROVE Ends(r)
    BY <1>5 DEF TimerStep, TimerFires, ResetCount, Exit, Alive
  <1>6. ASSUME NEW c \in Callers, NEW d \in Domains, StopLookup(c, d) PROVE Ends(r)
    BY <1>6 DEF StopLookup
  <1>7. ASSUME NEW c \in Callers, StopMark(c) PROVE Ends(r)
    BY <1>7 DEF StopMark
  <1>8. ASSUME NEW c \in Callers, StopSignal(c) PROVE Ends(r)
    BY <1>8 DEF StopSignal
  <1>9. CASE UNCHANGED vars
    BY <1>9 DEF vars
  <1>10. QED
    BY <1>1, <1>2, <1>3, <1>4, <1>5, <1>6, <1>7, <1>8, <1>9
    DEF Next, SuperviseStep, StopStep

\* A stop that comes before the first crash was counted is final: the run never reaches
\* the retry, and a process that Start launches in spite of it is the last one
\* (supervisor.go:49-64, helper.go:53-62).  That the run does end is TerminatedIsReleased.
StopIsFinal == [][\A r \in Runs : Ends(r)]_vars

\* No stop that comes in time is followed by a restart, or by a process that Start had
\* not yet been about to launch (supervisor.go:49-64, helper.go:53-62).
THEOREM FirstStopIsFinal == Spec => StopIsFinal
  <1>1. Inv /\ [Next]_vars => [\A r \in Runs : Ends(r)]_vars
    BY EndsStep
  <1>2. QED
    BY <1>1, Invariance, PTL DEF Spec, StopIsFinal

-----------------------------------------------------------------------------
(* Refinement of TunnelSlots.                                                  *)

Abstract == [d \in Domains |-> Slot(d)]

\* A step that changes the process of one run moves only its own domain's slot.
LEMMA OneSlotMoves ==
  ASSUME Inv, NEW r \in Runs, procs[dom[r]] = r,
         procs' = procs, NEW v, os' = [os EXCEPT ![r] = v],
         v \in {"none", "running", "signalled", "exited"}
  PROVE  /\ Abstract' = [Abstract EXCEPT ![dom[r]] =
                           IF v \in {"running", "signalled"} THEN "up" ELSE "down"]
         /\ Abstract[dom[r]] = IF Alive(r) THEN "up" ELSE "down"
  BY NoRunAssumption DEF Inv, TypeOK, Entries, Abstract, Slot, Alive

\* A step that deletes the entry of a run without process frees its slot.
LEMMA OneSlotFreed ==
  ASSUME Inv, NEW r \in Runs, procs[dom[r]] = r, os[r] = "none",
         DeleteEntry(r), os' = os
  PROVE  /\ Abstract' = [Abstract EXCEPT ![dom[r]] = "free"]
         /\ Abstract[dom[r]] = "down"
  BY NoRunAssumption DEF Inv, TypeOK, Entries, Abstract, Slot, Alive, DeleteEntry

LEMMA SlotStep == Inv /\ [Next]_vars => [Slots!Next]_Abstract
  <1> SUFFICES ASSUME Inv, [Next]_vars, Abstract' # Abstract PROVE Slots!Next
    OBVIOUS
  <1> USE DEF Slots!Next, Slots!Move, Slots!Claim, Slots!Launch, Slots!Die,
              Slots!Release, Goto
  <1>1. ASSUME NEW r \in Runs, NEW d \in Domains, Claim(r, d) PROVE Slots!Next
    <2>1. os[r] = "none"
      BY <1>1 DEF Inv, Processes, TypeOK, Claim, Insert
    <2>2. Abstract[d] = "free" /\ Abstract' = [Abstract EXCEPT ![d] = "down"]
      BY <1>1, <2>1, NoRunAssumption
      DEF Claim, Insert, Inv, TypeOK, Abstract, Slot, Alive
    <2>3. QED
      BY <2>2 DEF Abstract
  <1>2. ASSUME NEW r \in Runs, Spawn(r) \/ Respawn(r) PROVE Slots!Next
    <2>1. procs[dom[r]] = r /\ os[r] = "none"
      BY <1>2 DEF Inv, Entries, Processes, TypeOK, Spawn, Respawn, Owning, PCs
    <2>2. Abstract[dom[r]] = "down"
          /\ Abstract' = [Abstract EXCEPT ![dom[r]] = "up"]
      BY <1>2, <2>1, OneSlotMoves DEF Spawn, Respawn, Alive
    <2>3. QED
      BY <2>2 DEF Abstract, Inv, TypeOK
  <1>3. ASSUME NEW r \in Runs, KillAndWait(r) \/ Wait(r) \/ Exit(r)
        PROVE Slots!Next
    <2>1. procs[dom[r]] = r
      BY <1>3 DEF Inv, Entries, Processes, TypeOK, KillAndWait, Wait, Exit,
                  Alive, Owning, PCs
    <2>2. PICK v \in {"none", "exited"} :
            procs' = procs /\ os' = [os EXCEPT ![r] = v]
      BY <1>3 DEF KillAndWait, Wait, Exit
    <2>3. Abstract' = [Abstract EXCEPT ![dom[r]] = "down"]
          /\ Abstract[dom[r]] \in {"up", "down"}
      BY <2>1, <2>2, OneSlotMoves
    <2>4. Abstract[dom[r]] = "up"
      BY <2>3 DEF Abstract, Inv, TypeOK
    <2>5. QED
      BY <2>3, <2>4 DEF Abstract, Inv, TypeOK
  <1>4. ASSUME NEW r \in Runs, UndoClaim(r) \/ Release(r) PROVE Slots!Next
    <2>1. procs[dom[r]] = r /\ os[r] = "none"
      BY <1>4 DEF Inv, Entries, Processes, TypeOK, UndoClaim, Release, Owning, PCs
    <2>2. Abstract[dom[r]] = "down"
          /\ Abstract' = [Abstract EXCEPT ![dom[r]] = "free"]
      BY <1>4, <2>1, OneSlotFreed DEF UndoClaim, Release
    <2>3. QED
      BY <2>2 DEF Abstract, Inv, TypeOK
  <1>5. ASSUME NEW c \in Callers, StopSignal(c) PROVE FALSE
    <2>1. \A r \in Runs : Alive(r)' = Alive(r)
      BY <1>5 DEF StopSignal, Alive, Inv, TypeOK, Returned
    <2>2. procs' = procs
      BY <1>5 DEF StopSignal
    <2>3. QED
      BY <2>1, <2>2 DEF Abstract, Slot, Inv, TypeOK
  <1>6. ASSUME os' = os, procs' = procs PROVE FALSE
    BY <1>6 DEF Abstract, Slot, Alive
  <1>7. QED
    BY <1>1, <1>2, <1>3, <1>4, <1>5, <1>6
    DEF Next, StartStep, SuperviseStep, TimerStep, StopStep, vars, SpawnFails,
        Publish, Arm, Emitted, ObserveExit, CountFailure, Count, RespawnFails,
        Adopt, TimerFires, ResetCount, StopLookup, StopMark

\* Supervisor implements TunnelSlots: claim before launch, at most one process
\* in a slot, release only when it is gone.
THEOREM Refinement == Spec => ImplementsSlots
  <1>1. Init => Slots!Init
    BY NoRunAssumption DEF Init, Slots!Init, Slot
  <1>2. Inv /\ [Next]_vars => [Slots!Next]_Abstract
    BY SlotStep
  <1>3. QED
    BY <1>1, <1>2, Invariance, PTL
    DEF Spec, ImplementsSlots, Slots!Spec, Abstract

=============================================================================
