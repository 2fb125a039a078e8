-------------------------- MODULE DomainControlProofs --------------------------
(* Theorems about DomainControl, for any domains, runs, requests and origins.  *)
EXTENDS DomainControl, SupervisorProofs

\* A request that is under way, or waits in Start for its run, has read a row.
RowRead ==
  \A c \in Callers :
    req[c].at # "idle" \/ req[c].run # NoRun => req[c].row \in Row

\* A request that needs the lock has it.
LockHeld ==
  \A c \in Callers :
    req[c].op \in {"delete", "routes"} => locked[req[c].dom] = c

\* Until a deletion removes it, the row stays while the lock is held.
RowKept ==
  \A c \in Callers :
    req[c].op \in {"delete", "routes"} /\ req[c].at \in {"got", "stopping", "remove"}
    => rows[req[c].dom] # NoRow

ControlInv == Inv /\ ControlTypeOK /\ RowRead /\ LockHeld /\ RowKept

-----------------------------------------------------------------------------
(* Every step of the service is a step of the supervisor, or none.             *)

LEMMA ControlStep ==
  ASSUME ControlTypeOK, [ControlNext]_allVars PROVE [Next]_vars
  <1> USE DEF vars, control, allVars
  <1>1. CASE \E d \in Domains, o \in Origins : CreateInsert(d, o)
    BY <1>1 DEF CreateInsert
  <1>2. CASE \E c \in Callers, d \in Domains, op \in Ops :
               BeginUnlocked(c, op, d) \/ BeginLocked(c, op, d)
    BY <1>2 DEF BeginUnlocked, BeginLocked
  <1>3. ASSUME NEW c \in Callers, RequestStep(c) PROVE [Next]_vars
    <2>0. req[c].dom \in Domains
      BY DEF ControlTypeOK
    <2>1. CASE CreateFailed(c) \/ OpenLog(c) \/ StartRefused(c) \/ StopPut(c) \/ RestartPut(c)
               \/ DeleteIsRunning(c) \/ DeleteRow(c) \/ DeleteLog(c)
      BY <2>1 DEF CreateFailed, OpenLog, StartRefused, StopPut, RestartPut,
                  DeleteIsRunning, DeleteRow, DeleteLog
    <2>2. ASSUME NEW r \in Runs, StartClaims(c, r) PROVE [Next]_vars
      BY <2>0, <2>2 DEF StartClaims, Next
    <2>3. CASE StopProcess(c) \/ DeleteStop(c)
      BY <2>0, <2>3 DEF StopProcess, DeleteStop, Next
    <2>4. CASE \E o \in Origins : ReplaceRoutes(c, o)
      BY <2>4 DEF ReplaceRoutes
    <2>5. CASE StopStep(c)
      BY <2>5 DEF Next
    <2>6. QED
      BY <1>3, <2>1, <2>2, <2>3, <2>4, <2>5 DEF RequestStep
  <1>4. ASSUME NEW r \in Runs, RunStep(r) PROVE [Next]_vars
    <2>1. CASE StartSpawns(r) \/ StartFails(r)
      BY <2>1 DEF StartSpawns, StartFails, Next, StartStep
    <2>2. CASE EventGet(r) \/ EventPut(r)
      BY <2>2 DEF EventGet, EventPut, Next, StartStep
    <2>3. CASE SpawnFails(r) \/ Publish(r) \/ KillAndWait(r) \/ Arm(r) \/ SuperviseStep(r)
      BY <2>3 DEF Next, StartStep
    <2>4. QED
      BY <1>4, <2>1, <2>2, <2>3 DEF RunStep
  <1>5. ASSUME NEW r \in Runs, (Timers /\ TimerStep(r)) \/ Exit(r) PROVE [Next]_vars
    BY <1>5 DEF Next
  <1>6. CASE UNCHANGED allVars
    BY <1>6
  <1>7. QED
    BY <1>1, <1>2, <1>3, <1>4, <1>5, <1>6 DEF ControlNext, Arrival, Work

-----------------------------------------------------------------------------
(* The inductive invariant, request by request and event by event.             *)

Service == RowRead /\ LockHeld /\ RowKept

LEMMA ControlInitInv == ControlInit => ControlInv
  <1> SUFFICES ASSUME ControlInit PROVE ControlInv
    OBVIOUS
  <1>1. Inv
    BY InitInv DEF ControlInit
  <1>2. ControlTypeOK
    BY <1>1 DEF ControlInit, ControlTypeOK, Inv, Idle, Places
  <1>3. RowRead /\ LockHeld /\ RowKept
    BY DEF ControlInit, RowRead, LockHeld, RowKept, Idle
  <1>4. QED
    BY <1>1, <1>2, <1>3 DEF ControlInv

\* The records of the requests.
Requests == [op : {"none"} \cup Spawners \cup Ops, at : Places, dom : Domains,
             row : Row \cup {NoRow}, run : Runs \cup {NoRun}]

Move(q, place, r) == [q EXCEPT !.at = place, !.run = r]

LEMMA Moved ==
  ASSUME NEW q \in Requests, NEW place \in Places, NEW r \in Runs \cup {NoRun}
  PROVE  /\ Move(q, place, r) \in Requests
         /\ Move(q, place, r).op = q.op
         /\ Move(q, place, r).at = place
         /\ Move(q, place, r).dom = q.dom
         /\ Move(q, place, r).row = q.row
         /\ Move(q, place, r).run = r
  BY DEF Requests, Move

LEMMA RequestKept ==
  ASSUME ControlInv, TypeOK', NEW c \in Callers, RequestStep(c)
  PROVE  ControlTypeOK' /\ Service'
  <1> DEFINE Goal == ControlTypeOK' /\ Service'
  <1> USE OpsAssumption, NoRowAssumption, NoCallerAssumption, NoRunAssumption
      DEF ControlInv, ControlTypeOK, Service, RowRead, LockHeld, RowKept, At, Places
  <1>1. CASE CreateFailed(c)
    <2>1. [req[c].row EXCEPT !.status = "error"] \in Row
      BY <1>1 DEF CreateFailed, Row, Statuses
    <2>2. QED
      BY <1>1, <2>1 DEF CreateFailed, UpdateRow, Goto2
  <1>2. CASE OpenLog(c)
    BY <1>2 DEF OpenLog, Goto2
  <1>3. CASE StartRefused(c)
    BY <1>3 DEF StartRefused, Goto2, Return, Idle
  <1>4. ASSUME NEW r \in Runs, StartClaims(c, r) PROVE Goal
    <2>1. req[c].row \in Row /\ UNCHANGED <<rows, routes, logs, locked, ev>>
      BY <1>4 DEF StartClaims
    <2>2. CASE Return(c)
      BY <2>1, <2>2 DEF Return, Idle
    <2>3. CASE req' = [req EXCEPT ![c].at = "starting", ![c].run = r]
      <3> DEFINE m == Move(req[c], "starting", r)
      <3>1. req[c] \in Requests /\ "starting" \in Places
        BY DEF Requests
      <3>2. /\ m \in Requests
            /\ m.op = req[c].op /\ m.at = "starting" /\ m.dom = req[c].dom
            /\ m.row = req[c].row /\ m.run = r
        BY <3>1, Moved
      <3>3. req' = [req EXCEPT ![c] = m]
        BY <2>3 DEF Move
      <3> HIDE DEF m
      <3>4. QED
        BY <2>1, <3>2, <3>3 DEF Requests
    <2>4. QED
      BY <1>4, <2>2, <2>3 DEF StartClaims
  <1>5. CASE StopProcess(c)
    BY <1>5 DEF StopProcess, Goto2, Return, Idle
  <1>6. CASE StopPut(c)
    <2>1. [req[c].row EXCEPT !.status = "stopped"] \in Row
      BY <1>6 DEF StopPut, Row, Statuses
    <2>2. req[c].op = "stop" /\ Return(c)
      BY <1>6 DEF StopPut
    <2>3. rows' \in [Domains -> Row \cup {NoRow}]
          /\ \A d \in Domains : rows[d] # NoRow => rows'[d] # NoRow
      BY <1>6, <2>1 DEF StopPut, UpdateRow
    <2>4. QED
      BY <1>6, <2>2, <2>3 DEF StopPut, Return, Idle
  <1>7. CASE RestartPut(c)
    <2>1. /\ rows' = [rows EXCEPT ![req[c].dom] = IF rows[req[c].dom] = NoRow
                                                  THEN NoRow ELSE req[c].row]
          /\ req[c].row \in Row
      BY <1>7 DEF RestartPut, UpdateRow
    <2>2. CASE Return(c)
      BY <1>7, <2>1, <2>2 DEF RestartPut, Return, Idle
    <2>3. CASE Goto2(c, "spawn")
      BY <1>7, <2>1, <2>3 DEF RestartPut, Goto2
    <2>4. QED
      BY <1>7, <2>2, <2>3 DEF RestartPut
  <1>8. CASE DeleteIsRunning(c)
    BY <1>8 DEF DeleteIsRunning, Goto2
  <1>9. CASE DeleteStop(c)
    <2>1. CASE procs[req[c].dom] = NoRun
      <3>1. ControlTypeOK'
        BY <1>9, <2>1 DEF DeleteStop, ReturnUnlocking, Return, Idle
      <3>2. RowRead' /\ RowKept'
        BY <1>9, <2>1 DEF DeleteStop, ReturnUnlocking, Return, Idle
      <3>3. LockHeld'
        BY <1>9, <2>1 DEF DeleteStop, ReturnUnlocking, Return, Idle
      <3>4. QED
        BY <3>1, <3>2, <3>3
    <2>2. CASE procs[req[c].dom] # NoRun
      BY <1>9, <2>2 DEF DeleteStop, Goto2
    <2>3. QED
      BY <2>1, <2>2
  <1>10. CASE DeleteRow(c)
    BY <1>10 DEF DeleteRow, Goto2
  <1>11. CASE DeleteLog(c)
    BY <1>11 DEF DeleteLog, ReturnUnlocking, Return, Idle
  <1>12. ASSUME NEW o \in Origins, ReplaceRoutes(c, o) PROVE Goal
    <2>1. [rows[req[c].dom] EXCEPT !.origin = o] \in Row
      <3>1. rows[req[c].dom] \in Row
        BY <1>12 DEF ReplaceRoutes
      <3>2. QED
        BY <3>1 DEF Row
    <2>2. QED
      BY <1>12, <2>1 DEF ReplaceRoutes, ReturnUnlocking, Return, Idle
  <1>13. CASE UNCHANGED control
    BY <1>13 DEF control
  <1>14. QED
    BY <1>1, <1>2, <1>3, <1>4, <1>5, <1>6, <1>7, <1>8, <1>9, <1>10, <1>11, <1>12, <1>13
    DEF RequestStep

LEMMA BeginKept ==
  ASSUME ControlInv, TypeOK', NEW c \in Callers, NEW d \in Domains, NEW op \in Ops,
         BeginUnlocked(c, op, d) \/ BeginLocked(c, op, d)
  PROVE  ControlTypeOK' /\ Service'
  <1> USE NoCallerAssumption
      DEF ControlInv, ControlTypeOK, Service, RowRead, LockHeld, RowKept, Places, Get
  <1>1. CASE BeginUnlocked(c, op, d)
    BY <1>1 DEF BeginUnlocked
  <1>2. CASE BeginLocked(c, op, d)
    BY <1>2 DEF BeginLocked
  <1>3. QED
    BY <1>1, <1>2

LEMMA CreateKept ==
  ASSUME ControlInv, TypeOK', NEW d \in Domains, NEW o \in Origins, CreateInsert(d, o)
  PROVE  ControlTypeOK' /\ Service'
  <1>1. [status |-> "pending", pid |-> NoRun, origin |-> o] \in Row
    BY DEF Row, Statuses
  <1>2. QED
    BY <1>1, CreatorAssumption, NoRowAssumption
    DEF CreateInsert, ControlInv, ControlTypeOK, Service, RowRead, LockHeld, RowKept, Places,
        Spawners

LEMMA RunKept ==
  ASSUME ControlInv, TypeOK', NEW r \in Runs, RunStep(r)
  PROVE  ControlTypeOK' /\ Service'
  <1> USE NoRowAssumption, NoRunAssumption
      DEF ControlInv, ControlTypeOK, Service, RowRead, LockHeld, RowKept, Places
  <1>1. CASE StartSpawns(r) \/ StartFails(r)
    <2>1. PICK place \in {"done", "failed"} : StartReturns(r, place)
      BY <1>1 DEF StartSpawns, StartFails
    <2>2. UNCHANGED <<rows, routes, logs, locked, ev>>
      BY <1>1 DEF StartSpawns, StartFails
    <2> DEFINE Back(c) == Move(req[c], place, NoRun)
    <2>3. req' = [c \in Callers |-> IF req[c].run = r THEN Back(c) ELSE req[c]]
      BY <2>1 DEF StartReturns, Move
    <2>4. ASSUME NEW c \in Callers
          PROVE  /\ Back(c) \in Requests
                 /\ Back(c).op = req[c].op /\ Back(c).at = place
                 /\ Back(c).dom = req[c].dom /\ Back(c).row = req[c].row
                 /\ Back(c).run = NoRun
      <3>1. req[c] \in Requests /\ place \in Places
        BY DEF Requests
      <3>2. NoRun \in Runs \cup {NoRun}
        OBVIOUS
      <3> HIDE DEF Places, ControlInv, ControlTypeOK
      <3>3. QED
        BY <3>1, <3>2, Moved
    <2> HIDE DEF Back
    <2>5. req' \in [Callers -> Requests]
      BY <2>3, <2>4 DEF Requests
    <2>6. RowRead' /\ LockHeld' /\ RowKept'
      BY <2>2, <2>3, <2>4
    <2>7. QED
      BY <2>2, <2>5, <2>6 DEF Requests
  <1>2. CASE EventGet(r)
    <2>1. dom[r] \in Domains
      BY DEF TypeOK
    <2>2. QED
      BY <1>2, <2>1 DEF EventGet
  <1>3. CASE EventPut(r)
    <2>1. dom[r] \in Domains /\ ev[r] \in Row
      BY <1>3 DEF TypeOK, EventPut
    <2>2. EventStatus(r) \in Statuses /\ EventPid(r) \in Runs \cup {NoRun}
      BY <1>3 DEF EventPut, Emitted, Goto, EventStatus, EventPid, Statuses
    <2>3. [ev[r] EXCEPT !.status = EventStatus(r), !.pid = EventPid(r)] \in Row
      BY <2>1, <2>2 DEF Row
    <2>4. QED
      BY <1>3, <2>1, <2>3 DEF EventPut, UpdateRow
  <1>4. CASE UNCHANGED control
    BY <1>4 DEF control
  <1>5. QED
    BY <1>1, <1>2, <1>3, <1>4 DEF RunStep

LEMMA ControlStepInv == ControlInv /\ [ControlNext]_allVars => ControlInv'
  <1> SUFFICES ASSUME ControlInv, [ControlNext]_allVars PROVE ControlInv'
    OBVIOUS
  <1>1. Inv'
    BY ControlStep, StepInv DEF ControlInv
  <1>2. TypeOK'
    BY <1>1 DEF Inv
  <1>3. ControlTypeOK' /\ Service'
    <2>1. CASE \E d \in Domains, o \in Origins : CreateInsert(d, o)
      BY <1>2, <2>1, CreateKept
    <2>2. CASE \E c \in Callers, d \in Domains, op \in Ops :
                 BeginUnlocked(c, op, d) \/ BeginLocked(c, op, d)
      BY <1>2, <2>2, BeginKept
    <2>3. CASE \E c \in Callers : RequestStep(c)
      BY <1>2, <2>3, RequestKept
    <2>4. CASE \E r \in Runs : RunStep(r)
      BY <1>2, <2>4, RunKept
    <2>5. CASE UNCHANGED control
      BY <1>2, <2>5
      DEF control, ControlInv, ControlTypeOK, Service, RowRead, LockHeld, RowKept
    <2>6. QED
      BY <2>1, <2>2, <2>3, <2>4, <2>5 DEF ControlNext, Arrival, Work, allVars
  <1>4. QED
    BY <1>1, <1>3 DEF ControlInv, Service

\* What the requests, the events and the supervisor preserve together.
THEOREM ControlInvariance == ControlSpec => []ControlInv
  <1>1. ControlInit => ControlInv
    BY ControlInitInv
  <1>2. ControlInv /\ [ControlNext]_allVars => ControlInv'
    BY ControlStepInv
  <1>3. QED
    BY <1>1, <1>2, PTL DEF ControlSpec

\* The tables, the locks and the requests keep their types.
THEOREM ControlTypeCorrect == ControlSpec => []ControlTypeOK
  <1>1. ControlInv => ControlTypeOK
    BY DEF ControlInv
  <1>2. QED
    BY <1>1, ControlInvariance, PTL

\* The service uses the supervisor as it is meant to be used: with the requests
\* and the event handler around it, its threads behave as Supervisor says.
THEOREM Composition == ControlSpec => Spec
  <1>1. ControlInit => Init
    BY DEF ControlInit
  <1>2. ControlInv /\ [ControlNext]_allVars => [Next]_vars
    BY ControlStep DEF ControlInv
  <1>3. QED
    BY <1>1, <1>2, ControlInvariance, PTL DEF ControlSpec, Spec

\* Whatever requests overlap, no domain has two cloudflared processes.
THEOREM ControlExclusion == ControlSpec => []AtMostOneProcess
  BY Composition, MutualExclusion, PTL

\* Rows that appear: the action of DeletedStaysDeleted.
Appears ==
  \A d \in Domains : rows[d] = NoRow /\ rows'[d] # NoRow => req[Creator].op = "none"

LEMMA RowsAppear == ControlInv /\ [ControlNext]_allVars => [Appears]_allVars
  <1> SUFFICES ASSUME ControlInv, ControlNext, NEW d \in Domains,
                      rows[d] = NoRow, rows'[d] # NoRow
               PROVE  req[Creator].op = "none"
    BY DEF Appears
  <1> USE DEF ControlInv, ControlTypeOK
  <1>1. ASSUME NEW e \in Domains, NEW row, UpdateRow(e, row) PROVE FALSE
    BY <1>1 DEF UpdateRow
  <1>2. rows' # rows
    OBVIOUS
  <1>3. ASSUME NEW c \in Callers, RequestStep(c) PROVE FALSE
    <2>1. CASE CreateFailed(c) \/ StopPut(c) \/ RestartPut(c)
      BY <1>1, <2>1 DEF CreateFailed, StopPut, RestartPut
    <2>2. CASE DeleteRow(c)
      BY <2>2 DEF DeleteRow
    <2>3. CASE \E o \in Origins : ReplaceRoutes(c, o)
      BY <2>3 DEF ReplaceRoutes, RowKept, At
    <2>4. QED
      BY <1>2, <1>3, <2>1, <2>2, <2>3
      DEF RequestStep, OpenLog, StartRefused, StartClaims, StopProcess,
          DeleteIsRunning, DeleteStop, DeleteLog, control
  <1>4. ASSUME NEW r \in Runs, RunStep(r) PROVE FALSE
    <2>1. CASE EventPut(r)
      <3>1. dom[r] \in Domains
        BY DEF TypeOK
      <3>2. QED
        BY <1>1, <2>1, <3>1 DEF EventPut
    <2>2. QED
      BY <1>2, <1>4, <2>1 DEF RunStep, StartSpawns, StartFails, EventGet, control
  <1>5. QED
    BY <1>2, <1>3, <1>4
    DEF ControlNext, Arrival, Work, CreateInsert, BeginUnlocked, BeginLocked, control

\* A handler, a stop or a restart that read a row before the deletion and writes
\* it afterwards does not bring the row back.
THEOREM NeverBack == ControlSpec => DeletedStaysDeleted
  <1>1. ControlInv /\ [ControlNext]_allVars => [Appears]_allVars
    BY RowsAppear
  <1>2. QED
    BY <1>1, ControlInvariance, PTL DEF ControlSpec, DeletedStaysDeleted, Appears

-----------------------------------------------------------------------------
(* The pids in the rows, as long as nobody asks for a restart: RestartPut      *)
(* writes an old row back.                                                     *)

NoRestarts == "restart" \notin Ops

\* Run r has started a process, and has not emitted its last event.
Begun(r) == pc[r] \in PCs \ {"idle", "claimed", "undo"}

\* Only StopDomain writes back a pid that it has read.
Excused(row) == row.status = "stopped" /\ "stop" \in Ops

\* The pid in a row is that of such a run of its domain, and an active row has one.
Backed(row, d) ==
  row # NoRow =>
    /\ row.status = "active" => row.pid # NoRun
    /\ row.pid # NoRun /\ ~Excused(row) => dom[row.pid] = d /\ Begun(row.pid)

\* CreateDomain writes its failure into the row as it was inserted.
FreshRow == \A c \in Callers : req[c].op = "create" => req[c].row.pid = NoRun

TableBacked == \A d \in Domains : Backed(rows[d], d)

RowsBacked == FreshRow /\ TableBacked

\* The steps of the supervisor that emit nothing.
Silent ==
  \/ \E r \in Runs, d \in Domains : Claim(r, d)
  \/ \E r \in Runs : \/ Spawn(r) \/ SpawnFails(r) \/ UndoClaim(r) \/ Publish(r)
                     \/ KillAndWait(r) \/ Arm(r) \/ SuperviseStep(r) \/ TimerStep(r) \/ Exit(r)
  \/ \E c \in Callers, d \in Domains : StopLookup(c, d)
  \/ \E c \in Callers : StopStep(c)
  \/ UNCHANGED vars

LEMMA SilentKeeps ==
  ASSUME TypeOK, Silent, NEW r \in Runs, Begun(r)
  PROVE  dom'[r] = dom[r] /\ Begun(r)'
  <1> USE DEF TypeOK, Begun, PCs, Goto
  <1>1. ASSUME NEW s \in Runs, NEW d \in Domains, Claim(s, d)
        PROVE  dom'[r] = dom[r] /\ Begun(r)'
    BY <1>1 DEF Claim, Insert
  <1>2. ASSUME NEW s \in Runs, Spawn(s) \/ SpawnFails(s) \/ UndoClaim(s)
        PROVE  dom'[r] = dom[r] /\ Begun(r)'
    BY <1>2 DEF Spawn, SpawnFails, UndoClaim
  <1>3. ASSUME NEW s \in Runs, Publish(s) \/ KillAndWait(s) \/ Arm(s)
        PROVE  dom'[r] = dom[r] /\ Begun(r)'
    BY <1>3 DEF Publish, KillAndWait, Arm
  <1>4. ASSUME NEW s \in Runs, SuperviseStep(s) PROVE dom'[r] = dom[r] /\ Begun(r)'
    <2>1. CASE Wait(s) \/ ObserveExit(s) \/ CountFailure(s)
      BY <2>1 DEF Wait, ObserveExit, CountFailure, Count
    <2>2. CASE Release(s) \/ Respawn(s) \/ RespawnFails(s) \/ Adopt(s)
      BY <2>2 DEF Release, Respawn, RespawnFails, Adopt
    <2>3. QED
      BY <1>4, <2>1, <2>2 DEF SuperviseStep
  <1>5. CASE UNCHANGED <<pc, dom>>
    BY <1>5
  <1>6. QED
    BY <1>1, <1>2, <1>3, <1>4, <1>5
    DEF Silent, TimerStep, TimerFires, ResetCount, Exit, StopLookup, StopStep, StopMark,
        StopSignal, vars

\* Rows that are not written.
LEMMA BackedKept ==
  ASSUME ControlTypeOK, RowsBacked, Silent, UNCHANGED rows
  PROVE  TableBacked'
  <1> SUFFICES ASSUME NEW d \in Domains, rows[d] # NoRow PROVE Backed(rows[d], d)'
    BY DEF Backed, TableBacked
  <1>1. rows[d].pid \in Runs \cup {NoRun}
    BY DEF ControlTypeOK, Row
  <1>2. Backed(rows[d], d)
    BY DEF RowsBacked, TableBacked
  <1>3. CASE rows[d].pid \in Runs /\ ~Excused(rows[d])
    <2>1. Begun(rows[d].pid) /\ TypeOK
      BY <1>2, <1>3, NoRunAssumption DEF Backed, ControlTypeOK
    <2>2. dom'[rows[d].pid] = dom[rows[d].pid] /\ Begun(rows[d].pid)'
      BY <1>3, <2>1, SilentKeeps
    <2>3. QED
      BY <1>2, <2>2 DEF Backed
  <1>4. CASE rows[d].pid = NoRun \/ Excused(rows[d])
    BY <1>2, <1>4 DEF Backed, Excused
  <1>5. QED
    BY <1>1, <1>3, <1>4

\* One row is written or removed.
LEMMA BackedWritten ==
  ASSUME ControlTypeOK, RowsBacked, UNCHANGED vars, NEW d \in Domains, NEW row,
         Backed(row, d), rows' = [rows EXCEPT ![d] = row]
  PROVE  TableBacked'
  BY DEF ControlTypeOK, RowsBacked, TableBacked, Backed, Excused, Begun, vars

\* Requests other than the creation keep their hands off its row.
LEMMA FreshKept ==
  ASSUME RowsBacked, ControlTypeOK,
         \A c \in Callers : req'[c].op = "create" =>
           req[c].op = "create" /\ req'[c].row = req[c].row
  PROVE  FreshRow'
  BY DEF RowsBacked, FreshRow

LEMMA RequestFresh ==
  ASSUME ControlInv, RowsBacked, NEW c \in Callers, RequestStep(c)
  PROVE  FreshRow'
  <1>1. ControlTypeOK /\ req \in [Callers -> Requests]
    BY DEF ControlInv, ControlTypeOK, Requests
  <1>2. ASSUME NEW place, Goto2(c, place) PROVE FreshRow'
    BY <1>1, <1>2, FreshKept DEF Goto2, Requests
  <1>3. CASE Return(c)
    BY <1>1, <1>3, FreshKept DEF Return, Idle
  <1>4. CASE UNCHANGED req
    BY <1>1, <1>4, FreshKept
  <1>5. ASSUME NEW r \in Runs, StartClaims(c, r) PROVE FreshRow'
    <2>1. CASE req' = [req EXCEPT ![c].at = "starting", ![c].run = r]
      BY <1>1, <2>1, FreshKept DEF Requests
    <2>2. QED
      BY <1>3, <1>5, <2>1 DEF StartClaims
  <1>6. CASE CreateFailed(c) \/ OpenLog(c) \/ StartRefused(c) \/ StopProcess(c) \/ StopPut(c)
             \/ RestartPut(c)
    BY <1>2, <1>3, <1>6
    DEF CreateFailed, OpenLog, StartRefused, StopProcess, StopPut, RestartPut
  <1>7. CASE DeleteIsRunning(c) \/ DeleteStop(c) \/ DeleteRow(c) \/ DeleteLog(c)
    BY <1>2, <1>3, <1>7 DEF DeleteIsRunning, DeleteStop, DeleteRow, DeleteLog, ReturnUnlocking
  <1>8. ASSUME NEW o \in Origins, ReplaceRoutes(c, o) PROVE FreshRow'
    BY <1>3, <1>8 DEF ReplaceRoutes, ReturnUnlocking
  <1>9. QED
    BY <1>4, <1>5, <1>6, <1>7, <1>8 DEF RequestStep, control

LEMMA RequestBacked ==
  ASSUME NoRestarts, ControlInv, RowsBacked, NEW c \in Callers, RequestStep(c)
  PROVE  TableBacked'
  <1>1. ControlTypeOK /\ TypeOK /\ req[c].dom \in Domains
    BY DEF ControlInv, ControlTypeOK
  <1>2. ASSUME NEW row, Backed(row, req[c].dom), UpdateRow(req[c].dom, row), UNCHANGED vars
        PROVE  TableBacked'
    <2>1. CASE rows[req[c].dom] = NoRow
      <3>1. UNCHANGED rows /\ Silent
        BY <1>2, <2>1 DEF UpdateRow, Silent
      <3>2. QED
        BY <1>1, <3>1, BackedKept
    <2>2. CASE rows[req[c].dom] # NoRow
      BY <1>1, <1>2, <2>2, BackedWritten DEF UpdateRow
    <2>3. QED
      BY <2>1, <2>2
  <1>3. CASE CreateFailed(c)
    <2> DEFINE row == [req[c].row EXCEPT !.status = "error"]
    <2>1. req[c].row \in Row /\ req[c].row.pid = NoRun
      BY <1>3 DEF ControlInv, RowRead, CreateFailed, At, RowsBacked, FreshRow
    <2>2. row.status = "error" /\ row.pid = NoRun
      BY <2>1 DEF Row
    <2>3. UpdateRow(req[c].dom, row) /\ UNCHANGED vars
      BY <1>3 DEF CreateFailed
    <2> HIDE DEF row
    <2>4. QED
      BY <1>2, <2>2, <2>3 DEF Backed
  <1>4. CASE StopPut(c)
    <2> DEFINE row == [req[c].row EXCEPT !.status = "stopped"]
    <2>1. req[c].row \in Row /\ "stop" \in Ops
      BY <1>4 DEF ControlInv, ControlTypeOK, RowRead, StopPut, At, Spawners
    <2>2. row.status = "stopped"
      BY <2>1 DEF Row
    <2>3. UpdateRow(req[c].dom, row) /\ UNCHANGED vars
      BY <1>4 DEF StopPut
    <2> HIDE DEF row
    <2>4. QED
      BY <1>2, <2>1, <2>2, <2>3 DEF Backed, Excused
  <1>5. CASE RestartPut(c)
    BY <1>5 DEF RestartPut, At, NoRestarts, ControlInv, ControlTypeOK, Spawners
  <1>6. CASE DeleteRow(c)
    BY <1>1, <1>6, BackedWritten DEF DeleteRow, Backed
  <1>7. ASSUME NEW o \in Origins, ReplaceRoutes(c, o) PROVE TableBacked'
    <2>1. rows[req[c].dom] \in Row /\ rows[req[c].dom] # NoRow
      BY <1>1, <1>7, NoRowAssumption DEF ControlInv, ControlTypeOK, RowKept, ReplaceRoutes, At
    <2> DEFINE row == [rows[req[c].dom] EXCEPT !.origin = o]
    <2>2. row.status = rows[req[c].dom].status /\ row.pid = rows[req[c].dom].pid
      BY <2>1 DEF Row
    <2>3. rows' = [rows EXCEPT ![req[c].dom] = row] /\ UNCHANGED vars
      BY <1>7 DEF ReplaceRoutes
    <2> HIDE DEF row
    <2>4. Backed(row, req[c].dom)
      BY <1>1, <2>1, <2>2 DEF RowsBacked, TableBacked, Backed, Excused
    <2>5. QED
      BY <1>1, <2>3, <2>4, BackedWritten
  <1>8. CASE OpenLog(c) \/ StartRefused(c) \/ DeleteIsRunning(c) \/ DeleteLog(c)
    BY <1>1, <1>8, BackedKept DEF OpenLog, StartRefused, DeleteIsRunning, DeleteLog, Silent
  <1>9. ASSUME NEW r \in Runs, StartClaims(c, r) PROVE TableBacked'
    BY <1>1, <1>9, BackedKept DEF StartClaims, Silent
  <1>10. CASE StopProcess(c) \/ DeleteStop(c)
    BY <1>1, <1>10, BackedKept DEF StopProcess, DeleteStop, Silent
  <1>11. CASE StopStep(c) /\ UNCHANGED control
    BY <1>1, <1>11, BackedKept DEF Silent, control
  <1>12. QED
    BY <1>3, <1>4, <1>5, <1>6, <1>7, <1>8, <1>9, <1>10, <1>11 DEF RequestStep

LEMMA RunFresh ==
  ASSUME ControlInv, RowsBacked, NEW r \in Runs, RunStep(r)
  PROVE  FreshRow'
  <1>1. ControlTypeOK /\ req \in [Callers -> Requests]
    BY DEF ControlInv, ControlTypeOK, Requests
  <1>2. ASSUME NEW place, StartReturns(r, place) PROVE FreshRow'
    <2>1. \A c \in Callers : req'[c].op = req[c].op /\ req'[c].row = req[c].row
      BY <1>1, <1>2 DEF StartReturns, Requests
    <2>2. QED
      BY <1>1, <2>1, FreshKept
  <1>3. CASE UNCHANGED req
    BY <1>1, <1>3, FreshKept
  <1>4. QED
    BY <1>2, <1>3 DEF RunStep, StartSpawns, StartFails, EventGet, EventPut, control

LEMMA RunBacked ==
  ASSUME ControlInv, RowsBacked, NEW r \in Runs, RunStep(r)
  PROVE  TableBacked'
  <1>1. ControlTypeOK /\ TypeOK /\ dom[r] \in Domains
    BY DEF ControlInv, ControlTypeOK, TypeOK
  <1>2. ASSUME Emitted(r)
        PROVE  /\ UNCHANGED dom
               /\ \A s \in Runs : Begun(s) /\ ~Begun(s)' => s = r /\ pc[r] # "active"
    BY <1>1, <1>2 DEF Emitted, Goto, Begun, TypeOK, PCs
  \* The rows of the other domains do not carry r.
  <1>3. ASSUME Emitted(r), NEW d \in Domains, d # dom[r] \/ rows[d] = NoRow, rows'[d] = rows[d]
        PROVE  Backed(rows[d], d)'
    <2>1. Backed(rows[d], d) /\ (rows[d] # NoRow => rows[d].pid \in Runs \cup {NoRun})
      BY <1>1 DEF RowsBacked, TableBacked, ControlTypeOK, Row
    <2>2. QED
      BY <1>2, <1>3, <2>1 DEF Backed, Excused
  <1>4. CASE EventGet(r)
    <2>1. CASE rows[dom[r]] = NoRow
      BY <1>1, <1>3, <1>4, <2>1 DEF EventGet, TableBacked
    <2>2. CASE rows[dom[r]] # NoRow
      BY <1>1, <1>4, <2>2, BackedKept DEF EventGet, Silent
    <2>3. QED
      BY <2>1, <2>2
  <1>5. CASE EventPut(r)
    <2> DEFINE row == [ev[r] EXCEPT !.status = EventStatus(r), !.pid = EventPid(r)]
    <2>1. UpdateRow(dom[r], row) /\ Emitted(r)
      BY <1>5 DEF EventPut
    <2>2. row.status = EventStatus(r) /\ row.pid = EventPid(r)
      BY <1>1, <1>5 DEF EventPut, ControlTypeOK, Row
    <2> HIDE DEF row
    <2>3. \A d \in Domains : d # dom[r] \/ rows[d] = NoRow => Backed(rows[d], d)'
      BY <1>1, <1>3, <2>1 DEF UpdateRow, ControlTypeOK
    <2>4. ASSUME rows[dom[r]] # NoRow PROVE Backed(rows[dom[r]], dom[r])'
      <3>1. rows'[dom[r]] = row /\ dom' = dom
        BY <1>1, <1>2, <2>1, <2>4 DEF UpdateRow, ControlTypeOK
      <3>2. CASE pc[r] = "active"
        <4>1. Begun(r)'
          BY <1>1, <2>1, <3>2 DEF Emitted, Goto, Begun, PCs, TypeOK
        <4>2. row.pid = r /\ row.status = "active"
          BY <2>2, <3>2 DEF EventPid, EventStatus
        <4>3. QED
          BY <3>1, <4>1, <4>2, NoRunAssumption DEF Backed
      <3>3. CASE pc[r] # "active"
        <4>1. row.pid = NoRun /\ row.status # "active"
          BY <2>1, <2>2, <3>3 DEF EventPid, EventStatus, Emitted, Goto
        <4>2. QED
          BY <3>1, <4>1 DEF Backed
      <3>4. QED
        BY <3>2, <3>3
    <2>5. QED
      BY <1>2, <2>1, <2>3, <2>4 DEF TableBacked
  <1>6. CASE StartSpawns(r) \/ StartFails(r)
    BY <1>1, <1>6, BackedKept DEF StartSpawns, StartFails, Silent
  <1>7. CASE (SpawnFails(r) \/ Publish(r) \/ KillAndWait(r) \/ Arm(r) \/ SuperviseStep(r))
             /\ UNCHANGED control
    BY <1>1, <1>7, BackedKept DEF Silent, control
  <1>8. QED
    BY <1>4, <1>5, <1>6, <1>7 DEF RunStep

LEMMA BackedStep ==
  ASSUME NoRestarts, ControlInv, RowsBacked, [ControlNext]_allVars
  PROVE  RowsBacked'
  <1>1. ControlTypeOK /\ TypeOK /\ req \in [Callers -> Requests]
    BY DEF ControlInv, ControlTypeOK, Requests
  <1>2. ASSUME NEW d \in Domains, NEW o \in Origins, CreateInsert(d, o) PROVE RowsBacked'
    <2> DEFINE row == [status |-> "pending", pid |-> NoRun, origin |-> o]
    <2>1. row.status # "active" /\ row.pid = NoRun
      OBVIOUS
    <2>2. rows' = [rows EXCEPT ![d] = row] /\ rows'[d] = row /\ UNCHANGED vars
      BY <1>1, <1>2 DEF CreateInsert, ControlTypeOK
    <2> HIDE DEF row
    <2>3. TableBacked'
      BY <1>1, <2>1, <2>2, BackedWritten DEF Backed
    <2>4. FreshRow'
      BY <1>1, <1>2, <2>1, <2>2 DEF CreateInsert, RowsBacked, FreshRow
    <2>5. QED
      BY <2>3, <2>4 DEF RowsBacked
  <1>3. ASSUME NEW c \in Callers, NEW d \in Domains, NEW op \in Ops,
               BeginUnlocked(c, op, d) \/ BeginLocked(c, op, d)
        PROVE  RowsBacked'
    <2>1. op # "create"
      BY OpsAssumption
    <2>2. FreshRow'
      BY <1>1, <1>3, <2>1, FreshKept DEF BeginUnlocked, BeginLocked, Get
    <2>3. QED
      BY <1>1, <1>3, <2>2, BackedKept DEF BeginUnlocked, BeginLocked, Silent, RowsBacked
  <1>4. ASSUME Silent, UNCHANGED control PROVE RowsBacked'
    BY <1>1, <1>4, BackedKept, FreshKept DEF control, RowsBacked
  <1>5. ASSUME NEW r \in Runs, (Timers /\ TimerStep(r)) \/ Exit(r), UNCHANGED control
        PROVE  RowsBacked'
    BY <1>4, <1>5 DEF Silent
  <1>6. CASE UNCHANGED allVars
    BY <1>4, <1>6 DEF allVars, Silent
  <1>7. QED
    BY <1>2, <1>3, <1>5, <1>6, RequestBacked, RequestFresh, RunBacked, RunFresh
    DEF ControlNext, Arrival, Work, RowsBacked

\* At rest, a run that has begun and has told its last is the supervised one.
LEMMA BackedAtRest ==
  ASSUME ControlInv, RowsBacked, NEW d \in Domains, Quiet(d), Present(d),
         rows[d].pid # NoRun, ~Excused(rows[d])
  PROVE  procs[d] = rows[d].pid
  <1>1. rows[d].pid \in Runs
    BY DEF ControlInv, ControlTypeOK, Row, Present
  <1>2. dom[rows[d].pid] = d /\ Begun(rows[d].pid)
    BY DEF RowsBacked, TableBacked, Backed, Present
  <1>3. pc[rows[d].pid] \in Owning
    BY <1>1, <1>2 DEF Begun, Owning, Quiet
  <1>4. QED
    BY <1>1, <1>2, <1>3 DEF ControlInv, Inv, Entries

LEMMA RowsAlwaysBacked == NoRestarts /\ ControlSpec => []RowsBacked
  <1>1. ControlInit => RowsBacked
    BY DEF ControlInit, RowsBacked, TableBacked, FreshRow, Backed, Idle
  <1>2. CASE NoRestarts
    <2>1. ControlInv /\ RowsBacked /\ [ControlNext]_allVars => RowsBacked'
      BY <1>2, BackedStep
    <2>2. QED
      BY <1>1, <2>1, ControlInvariance, PTL DEF ControlSpec
  <1>3. QED
    BY <1>2

\* Without restarts an active row at rest has the pid of the process supervised for it:
\* neither a stop nor a late event overtakes the last word on it (service.go:263-276,
\* stop.go:10-20), for any number of domains and requests.
THEOREM ActiveTracked == NoRestarts /\ ControlSpec => []ActiveIsTracked
  <1>1. ControlInv /\ RowsBacked => ActiveIsTracked
    <2> SUFFICES ASSUME ControlInv, RowsBacked, NEW d \in Domains,
                        Quiet(d), Present(d), rows[d].status = "active"
                 PROVE  procs[d] # NoRun /\ rows[d].pid = procs[d]
      BY DEF ActiveIsTracked
    <2>1. rows[d].pid # NoRun /\ ~Excused(rows[d])
      BY DEF RowsBacked, TableBacked, Backed, Present, Excused
    <2>2. QED
      BY <2>1, BackedAtRest
  <1>2. QED
    BY <1>1, ControlInvariance, RowsAlwaysBacked, PTL

\* Rows at rest that are not "stopped" carry no pid or the one of the supervised process.
PidIsCurrentUnlessStopped ==
  \A d \in Domains :
    Quiet(d) /\ Present(d) /\ rows[d].pid # NoRun /\ rows[d].status # "stopped"
    => procs[d] = rows[d].pid

\* Without restarts, the stale pid that StopDomain writes back (stop.go:19) is the only
\* one: rows that are pending, active or failed have the pid of the supervised process
\* or none, whatever the events and the creation write.
THEOREM OnlyStoppedIsStale == NoRestarts /\ ControlSpec => []PidIsCurrentUnlessStopped
  <1>1. ControlInv /\ RowsBacked => PidIsCurrentUnlessStopped
    BY BackedAtRest DEF PidIsCurrentUnlessStopped, Excused
  <1>2. QED
    BY <1>1, ControlInvariance, RowsAlwaysBacked, PTL

\* And with neither restarts nor stops every pid at rest is current: deletions, changes
\* of routes, crashes and retries of cloudflared leave none behind.
THEOREM CurrentWithoutStops ==
  NoRestarts /\ "stop" \notin Ops /\ ControlSpec => []PidIsCurrent
  <1>1. ASSUME "stop" \notin Ops PROVE ControlInv /\ RowsBacked => PidIsCurrent
    BY <1>1, BackedAtRest DEF PidIsCurrent, Excused
  <1>2. CASE "stop" \notin Ops
    <2>1. ControlInv /\ RowsBacked => PidIsCurrent
      BY <1>1, <1>2
    <2>2. QED
      BY <2>1, ControlInvariance, RowsAlwaysBacked, PTL
  <1>3. QED
    BY <1>2

-----------------------------------------------------------------------------
(* The locks: DomainControl uses lockDomain as KeyedMutex describes it, which  *)
(* DomainLock implements.                                                      *)

\* Who is inside the mutex of each domain.
Holders == [d \in Domains |-> IF locked[d] = NoCaller THEN {} ELSE {locked[d]}]

Mutex == INSTANCE KeyedMutex WITH Threads <- Callers, Keys <- Domains, inside <- Holders

\* A mutex is only ever held by a handler that runs, for the domain it works on.
HeldByHandler ==
  \A d \in Domains, c \in Callers :
    locked[d] = c => /\ req[c].op \in {"delete", "routes"} /\ req[c].dom = d
                     /\ req[c].at \in {"got", "stopping", "remove", "logs"}
                     /\ req[c].run = NoRun

LEMMA HolderIs ==
  ASSUME NEW d \in Domains
  PROVE  Holders[d] = IF locked[d] = NoCaller THEN {} ELSE {locked[d]}
  BY DEF Holders

\* What the deferred unlock of a handler does.
LEMMA UnlockStep ==
  ASSUME ControlInv, HeldByHandler, NEW c \in Callers, ReturnUnlocking(c),
         req[c].op \in {"delete", "routes"}
  PROVE  HeldByHandler' /\ Mutex!Unlock(c, req[c].dom)
  <1> USE DEF ControlInv, ControlTypeOK
  <1>1. locked[req[c].dom] = c /\ req[c].dom \in Domains /\ c # NoCaller
    BY NoCallerAssumption DEF LockHeld
  <1>2. locked' = [locked EXCEPT ![req[c].dom] = NoCaller]
    BY DEF ReturnUnlocking
  <1>3. HeldByHandler'
    BY <1>2, NoCallerAssumption DEF ReturnUnlocking, Return, HeldByHandler
  <1>4. Holders[req[c].dom] = {c}
    BY <1>1, HolderIs
  <1>5. Holders' = [Holders EXCEPT ![req[c].dom] = {}]
    BY <1>1, <1>2 DEF Holders
  <1>6. QED
    BY <1>3, <1>4, <1>5 DEF Mutex!Unlock

\* Steps that leave the locks alone.
LEMMA LocksKept ==
  ASSUME UNCHANGED locked, HeldByHandler,
         \A d \in Domains, c \in Callers : locked[d] = c =>
           /\ req'[c].op = req[c].op /\ req'[c].dom = req[c].dom
           /\ req'[c].at \in {"got", "stopping", "remove", "logs"}
           /\ req'[c].run = req[c].run
  PROVE  HeldByHandler' /\ UNCHANGED Holders
  BY DEF HeldByHandler, Holders

LEMMA RequestLocks ==
  ASSUME ControlInv, HeldByHandler, NEW c \in Callers, RequestStep(c)
  PROVE  HeldByHandler' /\ [Mutex!Next]_Holders
  <1> DEFINE Goal == HeldByHandler' /\ [Mutex!Next]_Holders
  <1>0. req[c].dom \in Domains /\ req \in [Callers -> Requests]
    BY DEF ControlInv, ControlTypeOK, Requests
  <1>1. ASSUME ReturnUnlocking(c), req[c].op \in {"delete", "routes"} PROVE Goal
    BY <1>0, <1>1, UnlockStep DEF Mutex!Next
  <1>2. ASSUME UNCHANGED locked, Return(c), req[c].op \notin {"delete", "routes"} PROVE Goal
    <2>1. \A d \in Domains, c2 \in Callers : locked[d] = c2 => c2 # c
      BY <1>2 DEF HeldByHandler
    <2>2. QED
      BY <1>0, <1>2, <2>1, LocksKept DEF Return, HeldByHandler
  <1>3. ASSUME NEW place \in {"stopping", "remove", "logs"}, UNCHANGED locked, Goto2(c, place)
        PROVE  Goal
    BY <1>0, <1>3, LocksKept DEF Goto2, HeldByHandler, Requests
  <1>4. ASSUME NEW place, UNCHANGED locked, Goto2(c, place),
               req[c].op \notin {"delete", "routes"} \/ req[c].at \in {"spawn", "start"}
        PROVE  Goal
    <2>1. \A d \in Domains, c2 \in Callers : locked[d] = c2 => c2 # c
      BY <1>4 DEF HeldByHandler
    <2>2. QED
      BY <1>0, <1>4, <2>1, LocksKept DEF Goto2, HeldByHandler
  <1>5. CASE CreateFailed(c) \/ StopPut(c) \/ StopProcess(c) \/ RestartPut(c)
    <2>1. UNCHANGED locked /\ req[c].op \notin {"delete", "routes"}
      BY <1>5 DEF CreateFailed, StopPut, StopProcess, RestartPut, At
    <2>2. Return(c) \/ \E place \in Places : Goto2(c, place)
      BY <1>5 DEF CreateFailed, StopPut, StopProcess, RestartPut, Places
    <2>3. QED
      BY <1>2, <1>4, <2>1, <2>2
  <1>6. ASSUME OpenLog(c) \/ StartRefused(c) \/ \E r \in Runs : StartClaims(c, r) PROVE Goal
    <2>1. UNCHANGED locked /\ req[c].at \in {"spawn", "start"}
      BY <1>6 DEF OpenLog, StartRefused, StartClaims
    <2>2. \A d \in Domains, c2 \in Callers : locked[d] = c2 => c2 # c
      BY <2>1 DEF HeldByHandler
    <2>3. \A c2 \in Callers : c2 # c => req'[c2] = req[c2]
      BY <1>0, <1>6 DEF OpenLog, StartRefused, StartClaims, Goto2, Return
    <2>4. QED
      BY <2>1, <2>2, <2>3, LocksKept DEF HeldByHandler
  <1>7. CASE DeleteIsRunning(c) \/ DeleteRow(c)
    BY <1>3, <1>7 DEF DeleteIsRunning, DeleteRow
  <1>8. CASE DeleteStop(c)
    BY <1>1, <1>3, <1>8 DEF DeleteStop, At
  <1>9. CASE DeleteLog(c) \/ \E o \in Origins : ReplaceRoutes(c, o)
    BY <1>1, <1>9 DEF DeleteLog, ReplaceRoutes, At
  <1>10. CASE UNCHANGED control
    BY <1>10, LocksKept DEF control, HeldByHandler
  <1>11. QED
    BY <1>5, <1>6, <1>7, <1>8, <1>9, <1>10 DEF RequestStep

LEMMA LockStep ==
  ASSUME ControlInv, HeldByHandler, [ControlNext]_allVars
  PROVE  HeldByHandler' /\ [Mutex!Next]_Holders
  <1> DEFINE Goal == HeldByHandler' /\ [Mutex!Next]_Holders
  <1>0. req \in [Callers -> Requests] /\ locked \in [Domains -> Callers \cup {NoCaller}]
    BY DEF ControlInv, ControlTypeOK, Requests
  <1>1. ASSUME NEW d \in Domains, NEW o \in Origins, CreateInsert(d, o) PROVE Goal
    <2>1. \A e \in Domains, c \in Callers : locked[e] = c => c # Creator
      BY <1>1 DEF CreateInsert, HeldByHandler
    <2>2. QED
      BY <1>0, <1>1, <2>1, LocksKept DEF CreateInsert, HeldByHandler
  <1>2. ASSUME NEW c \in Callers, NEW d \in Domains, NEW op \in Ops, BeginUnlocked(c, op, d)
        PROVE  Goal
    <2>1. \A e \in Domains, c2 \in Callers : locked[e] = c2 => c2 # c
      BY <1>2 DEF BeginUnlocked, Get, HeldByHandler
    <2>2. QED
      BY <1>0, <1>2, <2>1, LocksKept DEF BeginUnlocked, Get, HeldByHandler
  <1>3. ASSUME NEW c \in Callers, NEW d \in Domains, NEW op \in Ops, BeginLocked(c, op, d)
        PROVE  Goal
    <2>1. locked[d] = NoCaller /\ locked' = [locked EXCEPT ![d] = c]
      BY <1>3 DEF BeginLocked
    <2>2. \A e \in Domains, c2 \in Callers : locked[e] = c2 => c2 # c
      BY <1>3 DEF BeginLocked, Get, HeldByHandler
    <2>3. HeldByHandler'
      BY <1>0, <1>3, <2>1, <2>2 DEF BeginLocked, Get, HeldByHandler
    <2>4. Holders[d] = {}
      BY <2>1, HolderIs
    <2>5. Holders' = [Holders EXCEPT ![d] = {c}]
      BY <1>0, <2>1, NoCallerAssumption DEF Holders
    <2>6. QED
      BY <2>3, <2>4, <2>5 DEF Mutex!Next, Mutex!Lock
  <1>4. ASSUME NEW r \in Runs, StartSpawns(r) \/ StartFails(r) PROVE Goal
    <2>1. UNCHANGED locked
      BY <1>4 DEF StartSpawns, StartFails
    <2>2. \A c \in Callers : req[c].run # r => req'[c] = req[c]
      BY <1>4 DEF StartSpawns, StartFails, StartReturns
    <2>3. \A d \in Domains, c \in Callers : locked[d] = c => req[c].run # r
      BY NoRunAssumption DEF HeldByHandler
    <2>4. QED
      BY <2>1, <2>2, <2>3, LocksKept DEF HeldByHandler
  <1>5. ASSUME NEW r \in Runs, EventGet(r) \/ EventPut(r) PROVE Goal
    BY <1>5, LocksKept DEF EventGet, EventPut, HeldByHandler
  <1>6. CASE UNCHANGED control
    BY <1>6, LocksKept DEF control, HeldByHandler
  <1>7. QED
    BY <1>1, <1>2, <1>3, <1>4, <1>5, <1>6, RequestLocks
    DEF ControlNext, Arrival, Work, RunStep, allVars

\* No early return of DeleteDomain, UpdateOrigin or ReplaceRoutes keeps the lock
\* (delete.go:12-26, update.go:12-13, update.go:43-44): whoever holds it is still at work on
\* that domain.
THEOREM LocksInUse == ControlSpec => []HeldByHandler
  <1>1. ControlInit => HeldByHandler
    BY NoCallerAssumption DEF ControlInit, HeldByHandler
  <1>2. ControlInv /\ HeldByHandler /\ [ControlNext]_allVars => HeldByHandler'
    BY LockStep
  <1>3. QED
    BY <1>1, <1>2, ControlInvariance, PTL DEF ControlSpec

\* The requests take and release the locks one at a time and by their holder, as KeyedMutex
\* says; DomainLock shows that the reference-counted locks of service.go:111-131 give just that.
THEOREM UsesMutex == ControlSpec => Mutex!Spec
  <1>1. ControlInit => Mutex!Init
    BY DEF ControlInit, Mutex!Init, Holders
  <1>2. ControlInv /\ HeldByHandler /\ [ControlNext]_allVars => [Mutex!Next]_Holders
    BY LockStep
  <1>3. QED
    BY <1>1, <1>2, ControlInvariance, LocksInUse, PTL DEF ControlSpec, Mutex!Spec

-----------------------------------------------------------------------------
(* Deletions: which processes they leave.                                      *)

\* The supervisor promises one slot per domain whatever the requests do with it.
THEOREM ControlSlots == ControlSpec => ImplementsSlots
  BY Composition, Refinement, PTL

ToLaunch(c) == req[c].at \in {"spawn", "start", "starting"}

\* No domain is started by one request while another deletes it.
SpawnsApart ==
  \A c, e \in Callers :
    req[c].op = "delete" /\ req[e].dom = req[c].dom => ~ToLaunch(e)

\* Who spawns has a row.
SpawnsPresent == \A c \in Callers : ToLaunch(c) => rows[req[c].dom] # NoRow

\* The thread that calls Stop is the request that waits for it.
CallsOwned ==
  \A c \in Callers :
    call[c] # Returned => /\ At(c, "stop", "stopping") \/ At(c, "delete", "remove")
                          /\ dom[call[c].run] = req[c].dom

\* The run supervised for d was told to stop, or c is about to tell it.
Told(d, c) ==
  procs[d] # NoRun =>
    \/ stop[procs[d]]
    \/ call[c].at = "found" /\ call[c].run = procs[d]

\* When the row is gone the run was told; when it is about to be removed, too.
DeletedTold ==
  /\ \A d \in Domains : rows[d] = NoRow /\ procs[d] # NoRun => stop[procs[d]]
  /\ \A c \in Callers : At(c, "delete", "remove") => Told(req[c].dom, c)

\* Only a request that waits in Start waits for a run, and only idle ones have no operation.
RunAwaited ==
  \A c \in Callers : /\ req[c].run # NoRun => req[c].at = "starting"
                     /\ req[c].op = "none" => req[c].at = "idle"

DeletionInv == SpawnsPresent /\ CallsOwned /\ DeletedTold /\ RunAwaited

-----------------------------------------------------------------------------
(* What the steps of the supervisor do to runs that were told.                 *)

\* Runs keep their stop, and calls their run.
Faithful ==
  /\ \A d \in Domains : procs'[d] # NoRun =>
       procs'[d] = procs[d] /\ (stop[procs[d]] => stop'[procs[d]])
  /\ \A c \in Callers : call'[c] # Returned =>
       /\ call[c] # Returned /\ call'[c].run = call[c].run
       /\ dom'[call[c].run] = dom[call[c].run]
  /\ \A c \in Callers : call[c].at = "found" =>
       call'[c] = call[c] \/ stop'[call[c].run]

\* The steps that neither insert an entry nor begin a call of Stop.
Plain ==
  \/ \E r \in Runs : StartStep(r) \/ SuperviseStep(r) \/ TimerStep(r) \/ Exit(r)
  \/ \E c \in Callers : StopStep(c)
  \/ UNCHANGED vars

LEMMA PlainFaithful == ASSUME Inv, Plain PROVE Faithful
  <1> USE NoRunAssumption DEF Inv, TypeOK, Faithful, Returned, DeleteEntry
  <1>1. ASSUME NEW r \in Runs, StartStep(r) PROVE Faithful
    BY <1>1
    DEF StartStep, Spawn, SpawnFails, UndoClaim, Publish, KillAndWait, Arm, Emitted
  <1>2. ASSUME NEW r \in Runs, Wait(r) PROVE Faithful
    BY <1>2 DEF Wait
  <1>3. ASSUME NEW r \in Runs, SuperviseStep(r), ~Wait(r) PROVE Faithful
    BY <1>3
    DEF SuperviseStep, ObserveExit, CountFailure, Count, Release, Respawn, RespawnFails, Adopt
  <1>4. ASSUME NEW r \in Runs, TimerStep(r) \/ Exit(r) PROVE Faithful
    BY <1>4 DEF TimerStep, TimerFires, ResetCount, Exit
  <1>5. ASSUME NEW c \in Callers, StopMark(c) PROVE Faithful
    BY <1>5 DEF StopMark
  <1>6. ASSUME NEW c \in Callers, StopSignal(c) PROVE Faithful
    BY <1>6 DEF StopSignal
  <1>7. CASE UNCHANGED vars
    BY <1>7 DEF vars
  <1>8. QED
    BY <1>1, <1>2, <1>3, <1>4, <1>5, <1>6, <1>7 DEF Plain, StopStep

\* The request of c goes on without a new spawn, a call of Stop or the end of one.
Onward(c) ==
  /\ ToLaunch(c)' => ToLaunch(c) /\ req'[c].dom = req[c].dom
  /\ At(c, "delete", "remove")' => At(c, "delete", "remove") /\ req'[c].dom = req[c].dom
  /\ req'[c].run # NoRun => req'[c].at = "starting"
  /\ req'[c].op = "none" => req'[c].at = "idle"
  /\ call'[c] # Returned =>
       req'[c].op = req[c].op /\ req'[c].at = req[c].at /\ req'[c].dom = req[c].dom

LEMMA OnwardKept ==
  ASSUME ControlInv, DeletionInv, Faithful, \A c \in Callers : Onward(c),
         \A d \in Domains : rows'[d] = NoRow => rows[d] = NoRow
  PROVE  DeletionInv'
  <1> USE DEF DeletionInv, Onward
  <1>0. \A c \in Callers : req[c].dom \in Domains
    BY DEF ControlInv, ControlTypeOK
  <1>1. SpawnsPresent'
    BY <1>0 DEF SpawnsPresent
  <1>2. CallsOwned'
    BY DEF CallsOwned, Faithful, At
  <1>3. RunAwaited'
    BY DEF RunAwaited
  <1>4. ASSUME NEW d \in Domains, rows'[d] = NoRow, procs'[d] # NoRun PROVE stop'[procs'[d]]
    <2>1. procs'[d] = procs[d] /\ (stop[procs[d]] => stop'[procs[d]])
      BY <1>4 DEF Faithful
    <2>2. stop[procs[d]]
      BY <1>4, <2>1 DEF DeletedTold
    <2>3. QED
      BY <2>1, <2>2
  <1>5. ASSUME NEW c \in Callers, NEW d \in Domains, Told(d, c) PROVE Told(d, c)'
    <2>1. CASE procs'[d] = NoRun
      BY <2>1 DEF Told
    <2>2. CASE procs'[d] # NoRun
      <3>1. procs'[d] = procs[d] /\ (stop[procs[d]] => stop'[procs[d]])
        BY <2>2 DEF Faithful
      <3>2. CASE stop[procs[d]]
        BY <3>1, <3>2 DEF Told
      <3>3. CASE call[c].at = "found" /\ call[c].run = procs[d]
        <4>1. call'[c] = call[c] \/ stop'[call[c].run]
          BY <3>3 DEF Faithful
        <4>2. QED
          BY <3>1, <3>3, <4>1 DEF Told
      <3>4. QED
        BY <1>5, <2>2, <3>1, <3>2, <3>3 DEF Told
    <2>3. QED
      BY <2>1, <2>2
  <1>6. ASSUME NEW c \in Callers, At(c, "delete", "remove")' PROVE Told(req[c].dom, c)'
    <2>1. At(c, "delete", "remove") /\ req'[c].dom = req[c].dom
      BY <1>6
    <2>2. Told(req[c].dom, c) /\ req[c].dom \in Domains
      BY <1>0, <2>1 DEF DeletedTold
    <2> DEFINE d == req[c].dom
    <2>3. d \in Domains /\ Told(d, c) /\ req'[c].dom = d
      BY <2>1, <2>2
    <2> HIDE DEF d
    <2>4. QED
      BY <1>5, <2>3 DEF Told
  <1>7. DeletedTold'
    BY <1>4, <1>6 DEF DeletedTold
  <1>8. QED
    BY <1>1, <1>2, <1>3, <1>7

\* Requests whose Stop has not begun or has returned have no call under way.
LEMMA NoCall ==
  ASSUME DeletionInv, NEW c \in Callers,
         req[c].at \notin {"stopping", "remove"} \/ At(c, "delete", "stopping")
  PROVE  call[c] = Returned
  BY DEF DeletionInv, CallsOwned, At

\* The steps that begin something: a row, a spawn, a run, a call of Stop.
LEMMA CreateDeletion ==
  ASSUME ControlInv, DeletionInv, NEW d \in Domains, NEW o \in Origins, CreateInsert(d, o)
  PROVE  DeletionInv'
  <1> USE DEF DeletionInv
  <1>0. /\ req \in [Callers -> Requests] /\ Creator \in Callers /\ req[Creator].op = "none"
        /\ rows \in [Domains -> Row \cup {NoRow}] /\ UNCHANGED vars
    BY CreatorAssumption DEF ControlInv, ControlTypeOK, Requests, CreateInsert
  <1>1. /\ rows'[d] # NoRow /\ \A e \in Domains : e # d => rows'[e] = rows[e]
        /\ \A c \in Callers : c # Creator => req'[c] = req[c]
        /\ req'[Creator].op = "create" /\ req'[Creator].at = "spawn"
        /\ req'[Creator].dom = d /\ req'[Creator].run = NoRun
    <2>1. [status |-> "pending", pid |-> NoRun, origin |-> o] # NoRow
      BY NoRowAssumption DEF Row, Statuses
    <2>2. QED
      BY <1>0, <2>1 DEF CreateInsert
  <1>2. call[Creator] = Returned
    BY <1>0, NoCall DEF RunAwaited
  <1>3. SpawnsPresent' /\ RunAwaited'
    BY <1>0, <1>1 DEF SpawnsPresent, ToLaunch, RunAwaited, Requests
  <1>4. CallsOwned'
    BY <1>0, <1>1, <1>2 DEF CallsOwned, At, vars
  <1>5. DeletedTold'
    BY <1>0, <1>1 DEF DeletedTold, Told, At, vars
  <1>6. QED
    BY <1>3, <1>4, <1>5

LEMMA RestartDeletion ==
  ASSUME ControlInv, DeletionInv, NEW c \in Callers, RestartPut(c)
  PROVE  DeletionInv'
  <1>1. /\ req \in [Callers -> Requests] /\ rows \in [Domains -> Row \cup {NoRow}]
        /\ UNCHANGED vars /\ req[c].op = "restart" /\ req[c].at = "got" /\ req[c].row # NoRow
        /\ req[c].dom \in Domains
    BY NoRowAssumption
    DEF ControlInv, ControlTypeOK, Requests, RestartPut, At, RowRead
  <1>2. Faithful
    BY <1>1, PlainFaithful DEF Plain, ControlInv
  <1>3. \A d \in Domains : rows'[d] = NoRow <=> rows[d] = NoRow
    BY <1>1 DEF RestartPut, UpdateRow
  <1>4. call[c] = Returned
    BY <1>1, NoCall
  <1>5. CASE Return(c)
    <2>1. \A e \in Callers : Onward(e)
      BY <1>1, <1>4, <1>5
      DEF Return, Idle, Onward, ToLaunch, At, vars, DeletionInv, RunAwaited
    <2>2. QED
      BY <1>2, <1>3, <2>1, OnwardKept
  <1>6. CASE Goto2(c, "spawn") /\ rows[req[c].dom] # NoRow
    <2>1. /\ \A e \in Callers : e # c => req'[e] = req[e]
          /\ req'[c].op = "restart" /\ req'[c].at = "spawn" /\ req'[c].dom = req[c].dom
          /\ req'[c].run = req[c].run
      BY <1>1, <1>6 DEF Goto2, Requests
    <2>2. SpawnsPresent'
      BY <1>1, <1>3, <1>6, <2>1 DEF DeletionInv, SpawnsPresent, ToLaunch, Requests
    <2>3. RunAwaited'
      BY <1>1, <2>1 DEF DeletionInv, RunAwaited
    <2>4. CallsOwned'
      BY <1>1, <1>4, <2>1 DEF DeletionInv, CallsOwned, At, vars
    <2>5. DeletedTold'
      BY <1>1, <1>3, <2>1 DEF DeletionInv, DeletedTold, Told, At, vars
    <2>6. QED
      BY <2>2, <2>3, <2>4, <2>5 DEF DeletionInv
  <1>7. QED
    BY <1>5, <1>6 DEF RestartPut

LEMMA ClaimDeletion ==
  ASSUME ControlInv, DeletionInv, SpawnsApart,
         NEW c \in Callers, NEW r \in Runs, StartClaims(c, r)
  PROVE  DeletionInv'
  <1> DEFINE d == req[c].dom
  <1>1. /\ req \in [Callers -> Requests] /\ d \in Domains /\ TypeOK
        /\ req[c].at = "start" /\ UNCHANGED <<rows, call>> /\ procs[d] = NoRun
        /\ \A e \in Callers : call[e].run # r
    BY DEF ControlInv, ControlTypeOK, Requests, StartClaims, Claim, Insert
  <1>2. /\ procs' = [procs EXCEPT ![d] = r] /\ dom' = [dom EXCEPT ![r] = d]
        /\ stop' = [stop EXCEPT ![r] = FALSE]
    BY DEF StartClaims, Claim, Insert
  <1>3. \A e \in Domains : procs[e] # r
    BY NoRunAssumption DEF StartClaims, Claim, Insert, Goto, ControlInv, Inv, Entries, Owning
  <1>4. /\ \A e \in Callers : e # c => req'[e] = req[e]
        /\ \/ req'[c].at = "idle" /\ req'[c].run = NoRun
           \/ req'[c].at = "starting" /\ req'[c].dom = d /\ req'[c].op = req[c].op
    BY <1>1 DEF StartClaims, Return, Idle, Requests
  <1>5. rows[d] # NoRow
    BY <1>1 DEF DeletionInv, SpawnsPresent, ToLaunch
  <1>6. call[c] = Returned
    BY <1>1, NoCall
  <1>7. SpawnsPresent' /\ RunAwaited'
    BY <1>1, <1>4, <1>5 DEF DeletionInv, SpawnsPresent, ToLaunch, RunAwaited
  <1>8. CallsOwned'
    BY <1>1, <1>2, <1>4, <1>6 DEF DeletionInv, CallsOwned, At, TypeOK
  <1>9. ASSUME NEW e \in Domains, rows'[e] = NoRow, procs'[e] # NoRun PROVE stop'[procs'[e]]
    <2>1. e # d /\ procs'[e] = procs[e] /\ procs[e] \in Runs /\ procs[e] # r
      BY <1>1, <1>2, <1>3, <1>5, <1>9 DEF TypeOK
    <2>2. QED
      BY <1>1, <1>2, <1>9, <2>1 DEF DeletionInv, DeletedTold, TypeOK
  <1>10. ASSUME NEW e \in Callers, At(e, "delete", "remove")' PROVE Told(req[e].dom, e)'
    <2>1. e # c /\ req'[e] = req[e] /\ At(e, "delete", "remove")
      BY <1>4, <1>10 DEF At
    <2>2. req[e].dom # d /\ req[e].dom \in Domains
      BY <1>1, <2>1 DEF SpawnsApart, ToLaunch, At, Requests
    <2> HIDE DEF d
    <2>3. Told(req[e].dom, e) /\ procs'[req[e].dom] = procs[req[e].dom]
      BY <1>1, <1>2, <2>1, <2>2 DEF DeletionInv, DeletedTold, TypeOK
    <2>4. procs[req[e].dom] # NoRun => stop'[procs[req[e].dom]] = stop[procs[req[e].dom]]
      BY <1>1, <1>2, <1>3, <2>2 DEF TypeOK
    <2>5. QED
      BY <1>1, <2>1, <2>3, <2>4 DEF Told
  <1>11. QED
    BY <1>7, <1>8, <1>9, <1>10 DEF DeletionInv, DeletedTold

\* StopDomain and DeleteDomain look the entry up.
LEMMA LookupDeletion ==
  ASSUME ControlInv, DeletionInv, NEW c \in Callers, StopProcess(c) \/ DeleteStop(c),
         procs[req[c].dom] # NoRun
  PROVE  DeletionInv'
  <1> DEFINE d == req[c].dom
  <1>1. /\ req \in [Callers -> Requests] /\ d \in Domains /\ TypeOK
        /\ UNCHANGED rows /\ StopLookup(c, d) /\ req[c].at \in {"got", "stopping"}
    BY DEF ControlInv, ControlTypeOK, Requests, StopProcess, DeleteStop, At
  <1>2. /\ UNCHANGED <<procs, stop, dom>>
        /\ \A e \in Callers : e # c => call'[e] = call[e]
        /\ call'[c] = [at |-> "found", run |-> procs[d], proc |-> "none"]
    BY <1>1 DEF StopLookup, TypeOK
  <1>3. /\ \A e \in Callers : e # c => req'[e] = req[e]
        /\ req'[c].dom = d /\ req'[c].run = req[c].run
        /\ At(c, "stop", "stopping")' \/ At(c, "delete", "remove")'
    BY <1>1 DEF StopProcess, DeleteStop, Goto2, Requests, At
  <1>4. dom[procs[d]] = d
    BY <1>1 DEF ControlInv, Inv, Entries
  <1>5. SpawnsPresent' /\ RunAwaited'
    BY <1>1, <1>3 DEF DeletionInv, SpawnsPresent, ToLaunch, RunAwaited, Requests, At
  <1>6. CallsOwned'
    BY <1>2, <1>3, <1>4 DEF DeletionInv, CallsOwned, At
  <1>7. \A e \in Domains : rows'[e] = NoRow /\ procs'[e] # NoRun => stop'[procs'[e]]
    BY <1>1, <1>2 DEF DeletionInv, DeletedTold
  <1>8. ASSUME NEW e \in Callers, At(e, "delete", "remove")' PROVE Told(req[e].dom, e)'
    <2>1. CASE e = c
      BY <1>2, <1>3, <2>1 DEF Told
    <2>2. CASE e # c
      <3>1. At(e, "delete", "remove") /\ req'[e] = req[e] /\ call'[e] = call[e]
        BY <1>2, <1>3, <1>8, <2>2 DEF At
      <3>2. QED
        BY <1>2, <3>1 DEF DeletionInv, DeletedTold, Told
    <2>3. QED
      BY <2>1, <2>2
  <1>9. QED
    BY <1>5, <1>6, <1>7, <1>8 DEF DeletionInv, DeletedTold

\* The steps that end a deletion.
LEMMA RemoveDeletion ==
  ASSUME ControlInv, DeletionInv, SpawnsApart, NEW c \in Callers,
         DeleteIsRunning(c) \/ DeleteRow(c)
  PROVE  DeletionInv'
  <1> DEFINE d == req[c].dom
  <1>1. /\ req \in [Callers -> Requests] /\ d \in Domains
        /\ rows \in [Domains -> Row \cup {NoRow}]
        /\ UNCHANGED vars /\ req[c].op = "delete"
    BY DEF ControlInv, ControlTypeOK, Requests, DeleteIsRunning, DeleteRow, At
  <1>2. /\ \A e \in Callers : e # c => req'[e] = req[e]
        /\ req'[c].op = "delete" /\ req'[c].dom = d /\ req'[c].run = req[c].run
        /\ req'[c].at \in {"stopping", "remove", "logs"}
    BY <1>1 DEF DeleteIsRunning, DeleteRow, Goto2, Requests
  <1>3. call[c] = Returned
    BY NoCall DEF DeleteIsRunning, DeleteRow, At
  <1>4. CallsOwned'
    BY <1>1, <1>2, <1>3 DEF DeletionInv, CallsOwned, At, vars
  <1>5. RunAwaited'
    <2>1. req[c].run = NoRun
      BY DEF DeletionInv, RunAwaited, DeleteIsRunning, DeleteRow, At
    <2>2. QED
      BY <1>2, <2>1 DEF DeletionInv, RunAwaited
  <1>6. CASE DeleteIsRunning(c)
    <2>1. UNCHANGED rows /\ (req'[c].at = "remove" => procs[d] = NoRun)
      BY <1>1, <1>6 DEF DeleteIsRunning, Goto2, Requests
    <2>2. SpawnsPresent'
      BY <1>1, <1>2, <2>1 DEF DeletionInv, SpawnsPresent, ToLaunch
    <2>3. DeletedTold'
      BY <1>1, <1>2, <2>1 DEF DeletionInv, DeletedTold, Told, At, vars
    <2>4. QED
      BY <1>4, <1>5, <2>2, <2>3 DEF DeletionInv
  <1>7. CASE DeleteRow(c)
    <2>1. /\ req[c].at = "remove" /\ req'[c].at = "logs"
          /\ \A e \in Domains : e # d => rows'[e] = rows[e]
      BY <1>1, <1>7 DEF DeleteRow, At, Goto2, Requests
    <2>2. SpawnsPresent'
      <3>1. ASSUME NEW e \in Callers, ToLaunch(e)' PROVE rows'[req'[e].dom] # NoRow
        <4>1. e # c /\ req'[e] = req[e] /\ ToLaunch(e)
          BY <1>2, <2>1, <3>1 DEF ToLaunch
        <4>2. req[e].dom # d /\ req[e].dom \in Domains
          BY <1>1, <4>1 DEF SpawnsApart, Requests
        <4>3. QED
          BY <2>1, <4>1, <4>2 DEF DeletionInv, SpawnsPresent
      <3>2. QED
        BY <3>1 DEF SpawnsPresent
    <2>3. procs[d] # NoRun => stop[procs[d]]
      BY <1>1, <1>3, <2>1 DEF DeletionInv, DeletedTold, At, Told, Returned
    <2>4. DeletedTold'
      BY <1>1, <1>2, <2>1, <2>3 DEF DeletionInv, DeletedTold, Told, At, vars
    <2>5. QED
      BY <1>4, <1>5, <2>2, <2>4 DEF DeletionInv
  <1>8. QED
    BY <1>6, <1>7

LEMMA RequestDeletion ==
  ASSUME ControlInv, DeletionInv, SpawnsApart, NEW c \in Callers, RequestStep(c)
  PROVE  DeletionInv'
  <1>0. /\ req \in [Callers -> Requests] /\ rows \in [Domains -> Row \cup {NoRow}]
        /\ req[c].dom \in Domains /\ Inv
    BY DEF ControlInv, ControlTypeOK, Requests
  <1>1. ASSUME Plain, Onward(c), \A e \in Callers : e # c => req'[e] = req[e],
               \A d \in Domains : rows'[d] = NoRow => rows[d] = NoRow
        PROVE  DeletionInv'
    <2>1. \A e \in Callers : e # c => Onward(e)
      BY <1>1 DEF Onward, ToLaunch, At, DeletionInv, RunAwaited
    <2>2. QED
      BY <1>0, <1>1, <2>1, PlainFaithful, OnwardKept
  <1>2. ASSUME UNCHANGED vars PROVE Plain
    BY <1>2 DEF Plain
  <1>3. ASSUME UNCHANGED vars, Return(c),
               req[c].at \notin {"stopping", "remove"} \/ call[c] = Returned
        PROVE  Onward(c)
    <2>1. call'[c] = Returned
      BY <1>3, NoCall DEF vars
    <2>2. QED
      BY <1>0, <1>3, <2>1 DEF Return, Idle, Onward, ToLaunch, At
  <1>4. ASSUME NEW place \in {"start", "failed", "done", "logs"}, UNCHANGED vars,
               Goto2(c, place), req[c].at \notin {"idle", "stopping", "remove", "starting"},
               place = "start" => ToLaunch(c)
        PROVE  Onward(c)
    <2>1. call'[c] = Returned
      BY <1>4, NoCall DEF vars
    <2>2. req[c].op # "none" /\ req[c].run = NoRun
      BY <1>4 DEF DeletionInv, RunAwaited
    <2>3. QED
      BY <1>0, <1>4, <2>1, <2>2 DEF Goto2, Onward, ToLaunch, At, Requests
  <1>5. \A row \in Row, d \in Domains :
          UpdateRow(d, row) => \A e \in Domains : rows'[e] = NoRow => rows[e] = NoRow
    BY <1>0, NoRowAssumption DEF UpdateRow
  <1>6. CASE CreateFailed(c)
    <2>1. [req[c].row EXCEPT !.status = "error"] \in Row
      BY <1>6 DEF CreateFailed, Row, Statuses, ControlInv, RowRead, At
    <2>2. QED
      BY <1>0, <1>1, <1>2, <1>4, <1>5, <1>6, <2>1 DEF CreateFailed, At, Goto2
  <1>7. CASE StopPut(c)
    <2>1. [req[c].row EXCEPT !.status = "stopped"] \in Row
      BY <1>7 DEF StopPut, Row, Statuses, ControlInv, RowRead, At
    <2>2. QED
      BY <1>0, <1>1, <1>2, <1>3, <1>5, <1>7, <2>1 DEF StopPut, At, Return
  <1>8. CASE OpenLog(c)
    BY <1>0, <1>1, <1>2, <1>4, <1>8 DEF OpenLog, Goto2, ToLaunch
  <1>9. CASE StartRefused(c)
    BY <1>0, <1>1, <1>2, <1>3, <1>4, <1>9 DEF StartRefused, Goto2, Return
  <1>10. CASE DeleteLog(c)
    BY <1>0, <1>1, <1>2, <1>3, <1>10 DEF DeleteLog, ReturnUnlocking, Return, At
  <1>11. ASSUME NEW o \in Origins, ReplaceRoutes(c, o) PROVE DeletionInv'
    <2>1. [rows[req[c].dom] EXCEPT !.origin = o] \in Row
      BY <1>0, <1>11 DEF ReplaceRoutes, Row, At, ControlInv, RowKept
    <2>2. \A d \in Domains : rows'[d] = NoRow => rows[d] = NoRow
      BY <1>0, <1>11, <2>1, NoRowAssumption DEF ReplaceRoutes
    <2>3. QED
      BY <1>0, <1>1, <1>2, <1>3, <1>11, <2>2 DEF ReplaceRoutes, ReturnUnlocking, Return, At
  <1>12. CASE StopProcess(c) \/ DeleteStop(c)
    <2>1. CASE procs[req[c].dom] = NoRun
      <3>1. UNCHANGED <<vars, rows>> /\ Return(c)
        BY <1>12, <2>1 DEF StopProcess, DeleteStop, ReturnUnlocking
      <3>2. call[c] = Returned
        BY <1>12, NoCall DEF StopProcess, DeleteStop, At
      <3>3. QED
        BY <1>0, <1>1, <1>2, <1>3, <3>1, <3>2 DEF Return
    <2>2. QED
      BY <1>12, <2>1, LookupDeletion
  <1>13. CASE StopStep(c) /\ UNCHANGED control
    <2>1. Onward(c)
      BY <1>13 DEF control, Onward, ToLaunch, At, DeletionInv, RunAwaited
    <2>2. QED
      BY <1>1, <1>13, <2>1 DEF Plain, control
  <1>14. QED
    BY <1>6, <1>7, <1>8, <1>9, <1>10, <1>11, <1>12, <1>13, RestartDeletion, ClaimDeletion,
       RemoveDeletion
    DEF RequestStep

LEMMA RunDeletion ==
  ASSUME ControlInv, DeletionInv, NEW r \in Runs, RunStep(r)
  PROVE  DeletionInv'
  <1>0. /\ req \in [Callers -> Requests] /\ rows \in [Domains -> Row \cup {NoRow}] /\ Inv
        /\ dom[r] \in Domains
    BY DEF ControlInv, ControlTypeOK, Requests, TypeOK
  <1>1. Plain
    BY DEF RunStep, StartSpawns, StartFails, EventGet, EventPut, Plain, StartStep
  <1>2. ASSUME \A c \in Callers : Onward(c),
               \A d \in Domains : rows'[d] = NoRow => rows[d] = NoRow
        PROVE  DeletionInv'
    BY <1>0, <1>1, <1>2, PlainFaithful, OnwardKept
  <1>3. ASSUME UNCHANGED req PROVE \A c \in Callers : Onward(c)
    BY <1>3 DEF Onward, ToLaunch, At, DeletionInv, RunAwaited
  <1>4. ASSUME StartSpawns(r) \/ StartFails(r) PROVE DeletionInv'
    <2>1. /\ UNCHANGED <<rows, call>>
          /\ \A c \in Callers : req[c].run # r => req'[c] = req[c]
          /\ \A c \in Callers : req[c].run = r =>
               /\ req'[c].at \in {"done", "failed"} /\ req'[c].run = NoRun
               /\ req'[c].op = req[c].op
      BY <1>0, <1>4 DEF StartSpawns, StartFails, StartReturns, Spawn, UndoClaim, Requests
    <2>2. ASSUME NEW c \in Callers, req[c].run = r PROVE Onward(c)
      <3>1. req[c].at = "starting" /\ req[c].op # "none"
        BY <2>2, NoRunAssumption DEF DeletionInv, RunAwaited
      <3>2. call'[c] = Returned
        BY <2>1, <3>1, NoCall
      <3>3. QED
        BY <2>1, <2>2, <3>1, <3>2 DEF Onward, ToLaunch, At
    <2>3. ASSUME NEW c \in Callers, req[c].run # r PROVE Onward(c)
      BY <2>1, <2>3 DEF Onward, ToLaunch, At, DeletionInv, RunAwaited
    <2>4. QED
      BY <1>2, <2>1, <2>2, <2>3
  <1>5. CASE EventGet(r)
    BY <1>2, <1>3, <1>5 DEF EventGet
  <1>6. CASE EventPut(r)
    <2>1. ev[r] \in Row /\ EventStatus(r) \in Statuses /\ EventPid(r) \in Runs \cup {NoRun}
      BY <1>6 DEF ControlInv, ControlTypeOK, EventPut, Emitted, Goto, EventStatus, EventPid,
                  Statuses
    <2>2. [ev[r] EXCEPT !.status = EventStatus(r), !.pid = EventPid(r)] \in Row
      BY <2>1 DEF Row
    <2>3. \A d \in Domains : rows'[d] = NoRow => rows[d] = NoRow
      BY <1>0, <1>6, <2>2, NoRowAssumption DEF EventPut, UpdateRow
    <2>4. QED
      BY <1>2, <1>3, <1>6, <2>3 DEF EventPut
  <1>7. CASE UNCHANGED control
    BY <1>2, <1>3, <1>7 DEF control
  <1>8. QED
    BY <1>4, <1>5, <1>6, <1>7 DEF RunStep

LEMMA DeletionStep ==
  ASSUME ControlInv, DeletionInv, SpawnsApart, [ControlNext]_allVars
  PROVE  DeletionInv'
  <1>0. req \in [Callers -> Requests] /\ Inv
    BY DEF ControlInv, ControlTypeOK, Requests
  <1>1. ASSUME NEW c \in Callers, NEW d \in Domains, NEW op \in Ops,
               BeginUnlocked(c, op, d) \/ BeginLocked(c, op, d)
        PROVE  DeletionInv'
    <2>1. /\ UNCHANGED <<vars, rows>> /\ req[c].at = "idle" /\ op # "none"
          /\ \A e \in Callers : e # c => req'[e] = req[e]
          /\ req'[c].at = "got" /\ req'[c].run = NoRun /\ req'[c].op = op
      BY <1>0, <1>1, OpsAssumption DEF BeginUnlocked, BeginLocked, Get, Requests
    <2>2. call'[c] = Returned
      BY <2>1, NoCall DEF vars
    <2>3. \A e \in Callers : Onward(e)
      BY <2>1, <2>2 DEF Onward, ToLaunch, At, DeletionInv, RunAwaited, vars
    <2>4. QED
      BY <1>0, <2>1, <2>3, PlainFaithful, OnwardKept DEF Plain
  <1>2. ASSUME Plain, UNCHANGED control PROVE DeletionInv'
    <2>1. \A e \in Callers : Onward(e)
      BY <1>2 DEF control, Onward, ToLaunch, At, DeletionInv, RunAwaited
    <2>2. QED
      BY <1>0, <1>2, <2>1, PlainFaithful, OnwardKept DEF control
  <1>3. ASSUME NEW r \in Runs, (Timers /\ TimerStep(r)) \/ Exit(r), UNCHANGED control
        PROVE  DeletionInv'
    BY <1>2, <1>3 DEF Plain
  <1>4. CASE UNCHANGED allVars
    BY <1>2, <1>4 DEF allVars, Plain
  <1>5. QED
    BY <1>1, <1>3, <1>4, CreateDeletion, RequestDeletion, RunDeletion
    DEF ControlNext, Arrival, Work

LEMMA DeletionsTold == ControlSpec /\ []SpawnsApart => []DeletionInv
  <1>1. ControlInit => DeletionInv
    BY DEF ControlInit, Init, DeletionInv, SpawnsPresent, ToLaunch, CallsOwned, DeletedTold, At,
           RunAwaited, Idle
  <1>2. ControlInv /\ DeletionInv /\ SpawnsApart /\ [ControlNext]_allVars => DeletionInv'
    BY DeletionStep
  <1>3. QED
    BY <1>1, <1>2, ControlInvariance, PTL DEF ControlSpec

\* A process of a deleted domain that was not restarted since its Start.
FirstProcessDies ==
  \A r \in Runs :
    pc[r] = "wait" /\ os[r] = "running" /\ attempt[r] = 0 /\ Quiet(dom[r])
    => Present(dom[r])

LEMMA DeletedDies == ControlInv /\ DeletionInv => FirstProcessDies
  <1> SUFFICES ASSUME ControlInv, DeletionInv, NEW r \in Runs, pc[r] = "wait",
                      os[r] = "running", attempt[r] = 0, Quiet(dom[r]), rows[dom[r]] = NoRow
               PROVE  FALSE
    BY DEF FirstProcessDies, Present
  <1>1. Inv /\ dom[r] \in Domains /\ procs[dom[r]] = r
    BY DEF ControlInv, Inv, TypeOK, Entries, Owning, PCs
  <1>2. stop[r] /\ cmd[r] = "current"
    BY <1>1, NoRunAssumption DEF DeletionInv, DeletedTold, Inv, Commands
  <1>3. PICK c \in Callers : AboutToSignal(c, r)
    BY <1>1, <1>2 DEF Inv, StopsPending
  <1>4. req[c].at \in {"stopping", "remove"} /\ req[c].dom = dom[r]
    BY <1>3 DEF AboutToSignal, Returned, DeletionInv, CallsOwned, At
  <1>5. QED
    BY <1>4 DEF Quiet

\* What can leave the process of a deleted domain running: a spawn beside the deletion
\* (create.go:100-104, restart.go:28), or a stop that the retry forgot (helper.go:77-89).
\* Without the first, a process that outlives its row has been restarted; whatever stops,
\* restarts and deletions overlap otherwise (delete.go:23-38).
THEOREM OrphansWereRestarted == ControlSpec /\ []SpawnsApart => []FirstProcessDies
  BY DeletedDies, ControlInvariance, DeletionsTold, PTL

\* Without a budget for retries, whoever has counted an exit gives up.
NoRetry ==
  \A r \in Runs : attempt[r] > 0 => pc[r] \in {"giveup", "error", "idle"}

LEMMA NoRetryStep == ASSUME MaxRestarts = 0, Inv, NoRetry, [Next]_vars PROVE NoRetry'
  <1> USE DEF NoRetry, Inv, TypeOK, Goto
  <1>1. ASSUME NEW r \in Runs, NEW d \in Domains, Claim(r, d) PROVE NoRetry'
    BY <1>1 DEF Claim, Insert
  <1>2. ASSUME NEW r \in Runs, CountFailure(r) PROVE NoRetry'
    BY <1>2 DEF CountFailure, Count
  <1>3. ASSUME NEW r \in Runs, StartStep(r) PROVE NoRetry'
    BY <1>3 DEF StartStep, Spawn, SpawnFails, UndoClaim, Publish, KillAndWait, Arm, Emitted
  <1>4. ASSUME NEW r \in Runs, SuperviseStep(r), ~CountFailure(r) PROVE NoRetry'
    BY <1>4 DEF SuperviseStep, Wait, ObserveExit, Release, Respawn, RespawnFails, Adopt
  <1>5. CASE UNCHANGED <<pc, attempt>>
    BY <1>5
  <1>6. QED
    BY <1>1, <1>2, <1>3, <1>4, <1>5
    DEF Next, TimerStep, TimerFires, ResetCount, Exit, StopLookup, StopStep, StopMark,
        StopSignal, vars

\* And if cloudflared is never restarted either, a deletion ends the process it finds
\* (delete.go:23-27): those two are all that stands behind the orphans.
THEOREM DeletionsLeaveNothing ==
  MaxRestarts = 0 /\ ControlSpec /\ []SpawnsApart => []DeletedHasNoProcess
  <1>1. Init => NoRetry
    BY DEF Init, NoRetry
  <1>2. CASE MaxRestarts = 0
    <2>1. Inv /\ NoRetry /\ [Next]_vars => NoRetry'
      BY <1>2, NoRetryStep
    <2>2. Inv /\ NoRetry /\ FirstProcessDies => DeletedHasNoProcess
      BY DEF Inv, TypeOK, NoRetry, FirstProcessDies, DeletedHasNoProcess
    <2>3. QED
      BY <1>1, <2>1, <2>2, Composition, Invariance, OrphansWereRestarted, PTL DEF Spec
  <1>3. QED
    BY <1>2

=============================================================================
