---------------------------- MODULE LifecycleProofs ----------------------------
(* Theorems about Lifecycle, for any domains, runs, requests and starts: the   *)
(* invariants survive crashes, and a start-up brings the active domains back.  *)
EXTENDS Lifecycle, DomainControlProofs

\* A caller of spawn waits in Start for the run that Start claimed for its domain.
Waits ==
  \A c \in Callers :
    req[c].run # NoRun =>
      /\ req[c].at = "starting" /\ dom[req[c].run] = req[c].dom
      /\ pc[req[c].run] \in {"claimed", "undo"}

\* Before the server listens, only goroutines of the pool start domains.
PoolOnly ==
  phase # "up" =>
    /\ \A c \in Callers : req[c].at # "idle" => req[c].op = "boot"
    /\ \A r \in Runs : pc[r] \in {"claimed", "undo"} =>
         \E c \in Callers : req[c].op = "boot" /\ req[c].run = r

FailedRows == \A d \in Domains : failed[d] # NoRow => failed[d].status = "error"

\* A goroutine of the pool has yet to start domain d, or to report that it could not.
Spawning(d) ==
  \E c \in Callers :
    /\ req[c].op = "boot" /\ req[c].dom = d
    /\ req[c].at \in {"spawn", "start", "starting", "failed"}

Supervised(d) == procs[d] # NoRun \/ \E r \in Runs : LastEvent(r, d)

\* Reconcile forgets no active row.
Covered ==
  phase = "boot" =>
    \A d \in ActiveDomains :
      todo[d] # NoRow \/ failed[d] # NoRow \/ Spawning(d) \/ Supervised(d)

Reconciling == Waits /\ PoolOnly /\ FailedRows /\ Covered

LifeInv == ControlInv /\ LifeTypeOK /\ Reconciling

-----------------------------------------------------------------------------
(* The invariant of the requests and the supervisor, across crashes.           *)

LEMMA LifeInitControl == LifeInit => ControlInv
  <1> SUFFICES ASSUME LifeInit PROVE ControlInv
    OBVIOUS
  <1>1. CASE ControlInit
    BY <1>1, ControlInitInv
  <1>2. CASE Init /\ Stored /\ logs = {} /\ locked = [d \in Domains |-> NoCaller]
             /\ ev = [r \in Runs |-> NoRow]
    <2>1. Inv
      BY <1>2, InitInv
    <2>2. rows \in [Domains -> Row] /\ routes \in [Domains -> Origins]
      BY <1>2 DEF Stored, Row
    <2>3. PICK d \in Domains :
            req = [c \in Callers |-> IF c = Creator THEN [Idle(d) EXCEPT !.op = "create"]
                                     ELSE Idle(d)]
      BY <1>2 DEF Stored
    <2>4. \A c \in Callers :
            /\ req[c] \in Requests
            /\ req[c].at = "idle" /\ req[c].run = NoRun /\ req[c].op \in {"none", "create"}
      BY <2>3 DEF Idle, Requests, Places, Spawners
    <2>5. req \in [Callers -> Requests]
      BY <2>3, <2>4
    <2>6. ControlTypeOK
      BY <1>2, <2>1, <2>2, <2>5 DEF ControlTypeOK, Inv, Requests
    <2>7. RowRead /\ LockHeld /\ RowKept
      BY <2>4 DEF RowRead, LockHeld, RowKept
    <2>8. QED
      BY <2>1, <2>6, <2>7 DEF ControlInv
  <1>3. QED
    BY <1>1, <1>2 DEF LifeInit

\* What memory holds after a crash is what an empty supervisor holds.
LEMMA Forgotten ==
  ASSUME ControlInv, Forget, UNCHANGED <<rows, routes>> PROVE ControlInv'
  <1>1. TypeOK'
    BY NoRunAssumption, MaxRestartsAssumption DEF ControlInv, Inv, Forget, TypeOK, PCs, Returned
  <1>2. (Entries /\ Processes /\ Commands /\ Budget /\ StopsPending)'
    BY NoRunAssumption, MaxRestartsAssumption
    DEF Forget, Entries, Processes, Commands, Budget, StopsPending, Owning, PCs
  <1>3. \A c \in Callers :
          /\ req'[c] \in Requests
          /\ req'[c].at = "idle" /\ req'[c].run = NoRun
          /\ req'[c].op \in {"none", "create"}
    BY DEF Forget, ControlInv, ControlTypeOK, Idle, Requests, Places, Spawners
  <1>4. req' \in [Callers -> Requests]
    BY <1>3 DEF Forget
  <1>5. ControlTypeOK'
    BY <1>1, <1>4 DEF Forget, ControlInv, ControlTypeOK, Requests
  <1>6. (RowRead /\ LockHeld /\ RowKept)'
    BY <1>3 DEF RowRead, LockHeld, RowKept
  <1>7. QED
    BY <1>1, <1>2, <1>5, <1>6 DEF ControlInv, Inv

LEMMA FailedTyped ==
  ASSUME NEW d \in Domains, NEW row \in Row, Fail(d, row),
         failed \in [Domains -> Row \cup {NoRow}], FailedRows
  PROVE  /\ failed' \in [Domains -> Row \cup {NoRow}] /\ FailedRows'
         /\ failed'[d] # NoRow
         /\ \A e \in Domains : failed[e] # NoRow => failed'[e] # NoRow
  <1>1. [row EXCEPT !.status = "error"] \in Row
    BY DEF Row, Statuses
  <1>2. [row EXCEPT !.status = "error"].status = "error"
    BY DEF Row
  <1>3. QED
    BY <1>1, <1>2, NoRowAssumption DEF Fail, FailedRows

-----------------------------------------------------------------------------
(* Start-up and crash.                                                         *)

LEMMA LifeInitInv == LifeInit => LifeInv
  <1> SUFFICES ASSUME LifeInit PROVE LifeInv
    OBVIOUS
  <1>1. ControlInv
    BY LifeInitControl
  <1>2. /\ phase = "off" /\ starts = 0
        /\ todo = Nothing /\ failed = Nothing /\ strays = {}
    BY DEF LifeInit
  <1>3. LifeTypeOK
    BY <1>1, <1>2, MaxStartsAssumption DEF ControlInv, LifeTypeOK, Nothing
  <1>4. \A c \in Callers : req[c].at = "idle" /\ req[c].run = NoRun
    <2>1. CASE ControlInit
      BY <2>1 DEF ControlInit, Idle
    <2>2. CASE Stored
      <3>1. PICK d \in Domains :
              req = [c \in Callers |-> IF c = Creator THEN [Idle(d) EXCEPT !.op = "create"]
                                       ELSE Idle(d)]
        BY <2>2 DEF Stored
      <3>2. QED
        BY <3>1 DEF Idle
    <2>3. QED
      BY <2>1, <2>2 DEF LifeInit
  <1>5. \A r \in Runs : pc[r] = "idle"
    BY DEF LifeInit, ControlInit, Init
  <1>6. Reconciling
    BY <1>2, <1>4, <1>5 DEF Reconciling, Waits, PoolOnly, FailedRows, Covered, Nothing
  <1>7. QED
    BY <1>1, <1>3, <1>6 DEF LifeInv

LEMMA BootKept == LifeInv /\ Boot => LifeInv'
  <1> SUFFICES ASSUME LifeInv, Boot PROVE LifeInv'
    OBVIOUS
  <1>1. ControlInv'
    BY ControlStepInv DEF LifeInv, Boot
  <1>2. LifeTypeOK'
    <2>1. todo' \in [Domains -> Row \cup {NoRow}]
      BY DEF Boot, LifeInv, LifeTypeOK, ControlTypeOK
    <2>2. starts' \in 0 .. MaxStarts
      BY MaxStartsAssumption DEF Boot, LifeInv, LifeTypeOK
    <2>3. QED
      BY <1>1, <2>1, <2>2 DEF ControlInv, Boot, LifeInv, LifeTypeOK
  <1>3. Waits' /\ FailedRows' /\ PoolOnly'
    BY DEF Boot, LifeInv, Reconciling, Waits, FailedRows, PoolOnly, allVars, vars, control
  <1>4. Covered'
    <2>1. rows' = rows
      BY DEF Boot, allVars, control
    <2>2. ASSUME NEW d \in ActiveDomains' PROVE todo'[d] # NoRow
      BY <2>1, <2>2 DEF Boot, ActiveDomains
    <2>3. QED
      BY <2>2 DEF Covered
  <1>5. QED
    BY <1>1, <1>2, <1>3, <1>4 DEF LifeInv, Reconciling

LEMMA TakeKept ==
  ASSUME LifeInv, NEW c \in Callers, NEW d \in Domains, Take(c, d) PROVE LifeInv'
  <1> DEFINE q == [op |-> "boot", at |-> "spawn", dom |-> d, row |-> todo[d], run |-> NoRun]
  <1>1. /\ phase = "boot" /\ todo[d] \in Row /\ req[c].at = "idle" /\ req[c].run = NoRun
        /\ todo' = [todo EXCEPT ![d] = NoRow]
        /\ UNCHANGED <<vars, rows, routes, logs, locked, ev, phase, starts, strays>>
    BY DEF Take, LifeInv, LifeTypeOK, Reconciling, Waits
  <1>2. /\ q \in Requests
        /\ q.op = "boot" /\ q.at = "spawn" /\ q.dom = d /\ q.row \in Row /\ q.run = NoRun
    BY <1>1 DEF Requests, Spawners, Places
  <1> HIDE DEF q
  <1>3. CASE req' = [req EXCEPT ![c] = q] /\ UNCHANGED failed
    <2>1. req' \in [Callers -> Requests]
      BY <1>2, <1>3 DEF LifeInv, ControlInv, ControlTypeOK, Requests
    <2>2. ControlTypeOK' /\ Inv'
      BY <1>1, <2>1
      DEF LifeInv, ControlInv, ControlTypeOK, Requests, vars, Inv, TypeOK, Entries, Processes,
          Commands, Budget, StopsPending, AboutToSignal
    <2>3. (RowRead /\ LockHeld /\ RowKept)'
      BY <1>1, <1>2, <1>3
      DEF LifeInv, ControlInv, ControlTypeOK, RowRead, LockHeld, RowKept
    <2>4. LifeTypeOK'
      BY <1>1, <1>3, <2>2 DEF LifeInv, LifeTypeOK
    <2>5. Waits' /\ FailedRows'
      BY <1>1, <1>2, <1>3
      DEF LifeInv, ControlInv, ControlTypeOK, Reconciling, Waits, FailedRows, vars
    <2>6. PoolOnly'
      <3>1. \A c2 \in Callers : req'[c2].at # "idle" => req'[c2].op = "boot"
        BY <1>1, <1>2, <1>3 DEF LifeInv, ControlInv, ControlTypeOK, Reconciling, PoolOnly
      <3>2. ASSUME NEW r \in Runs, pc'[r] \in {"claimed", "undo"}
            PROVE  \E c2 \in Callers : req'[c2].op = "boot" /\ req'[c2].run = r
        <4>1. PICK c2 \in Callers : req[c2].op = "boot" /\ req[c2].run = r
          BY <1>1, <3>2 DEF LifeInv, Reconciling, PoolOnly, vars
        <4>2. c2 # c
          BY <1>1, <4>1, NoRunAssumption
        <4>3. QED
          BY <1>3, <4>1, <4>2 DEF LifeInv, ControlInv, ControlTypeOK
      <3>3. QED
        BY <3>1, <3>2 DEF PoolOnly
    <2>7. Covered'
      <3>1. \A e \in Domains : Spawning(e) => Spawning(e)'
        BY <1>1, <1>3 DEF LifeInv, ControlInv, ControlTypeOK, Spawning
      <3>2. Spawning(d)'
        BY <1>2, <1>3 DEF LifeInv, ControlInv, ControlTypeOK, Spawning
      <3>3. \A e \in Domains : Supervised(e) => Supervised(e)'
        BY <1>1 DEF Supervised, LastEvent, vars
      <3>4. \A e \in Domains \ {d} : todo[e] # NoRow => todo'[e] # NoRow
        BY <1>1 DEF LifeInv, LifeTypeOK
      <3>5. ActiveDomains' = ActiveDomains /\ ActiveDomains \subseteq Domains
        BY <1>1 DEF ActiveDomains
      <3>6. QED
        BY <1>1, <1>3, <3>1, <3>2, <3>3, <3>4, <3>5 DEF LifeInv, Reconciling, Covered
    <2>8. QED
      BY <2>2, <2>3, <2>4, <2>5, <2>6, <2>7 DEF LifeInv, ControlInv, Reconciling
  <1>4. CASE Fail(d, todo[d]) /\ UNCHANGED req
    <2>1. UNCHANGED allVars
      BY <1>1, <1>4 DEF allVars, control
    <2>2. ControlInv'
      BY <2>1, ControlStepInv DEF LifeInv
    <2>3. /\ failed' \in [Domains -> Row \cup {NoRow}] /\ FailedRows'
          /\ failed'[d] # NoRow
          /\ \A e \in Domains : failed[e] # NoRow => failed'[e] # NoRow
      BY <1>1, <1>4, FailedTyped DEF LifeInv, LifeTypeOK, Reconciling
    <2>4. LifeTypeOK'
      BY <1>1, <2>2, <2>3 DEF LifeInv, LifeTypeOK, ControlInv
    <2>5. Waits' /\ PoolOnly'
      BY <1>1, <2>1 DEF LifeInv, Reconciling, Waits, PoolOnly, allVars, vars, control
    <2>6. Covered'
      <3>1. \A e \in Domains : /\ Spawning(e) => Spawning(e)'
                               /\ Supervised(e) => Supervised(e)'
        BY <2>1 DEF Spawning, Supervised, LastEvent, allVars, vars, control
      <3>2. \A e \in Domains \ {d} : todo[e] # NoRow => todo'[e] # NoRow
        BY <1>1 DEF LifeInv, LifeTypeOK
      <3>3. ActiveDomains' = ActiveDomains /\ ActiveDomains \subseteq Domains
        BY <1>1 DEF ActiveDomains
      <3>4. QED
        BY <1>1, <2>3, <3>1, <3>2, <3>3 DEF LifeInv, Reconciling, Covered
    <2>7. QED
      BY <2>2, <2>3, <2>4, <2>5, <2>6 DEF LifeInv, Reconciling
  <1>5. QED
    BY <1>3, <1>4 DEF Take, q

LEMMA CollectKept ==
  ASSUME LifeInv, NEW c \in Callers, Collect(c) PROVE LifeInv'
  <1> DEFINE d == req[c].dom
  <1>1. /\ d \in Domains /\ Idle(d) \in Requests
        /\ Idle(d).op = "none" /\ Idle(d).at = "idle" /\ Idle(d).run = NoRun
    BY DEF LifeInv, ControlInv, ControlTypeOK, Idle, Requests, Places
  <1>2. /\ req' = [req EXCEPT ![c] = Idle(d)]
        /\ UNCHANGED <<vars, rows, routes, logs, locked, ev, phase, starts, todo, strays>>
        /\ req[c].op = "boot" /\ req[c].at \in {"done", "failed"} /\ req[c].row \in Row
    BY DEF Collect, Return, At, LifeInv, ControlInv, RowRead
  <1>3. /\ failed' \in [Domains -> Row \cup {NoRow}] /\ FailedRows'
        /\ \A e \in Domains : failed[e] # NoRow => failed'[e] # NoRow
        /\ req[c].at = "failed" => failed'[d] # NoRow
    <2>1. CASE Fail(d, req[c].row)
      BY <1>1, <1>2, <2>1, FailedTyped DEF LifeInv, LifeTypeOK, Reconciling
    <2>2. CASE At(c, "boot", "done") /\ UNCHANGED failed
      BY <2>2 DEF At, LifeInv, LifeTypeOK, Reconciling, FailedRows
    <2>3. QED
      BY <2>1, <2>2 DEF Collect
  <1> HIDE DEF d
  <1>4. req' \in [Callers -> Requests]
    BY <1>1, <1>2 DEF LifeInv, ControlInv, ControlTypeOK, Requests
  <1>5. ControlTypeOK' /\ Inv'
    BY <1>2, <1>4
    DEF LifeInv, ControlInv, ControlTypeOK, Requests, vars, Inv, TypeOK, Entries, Processes,
        Commands, Budget, StopsPending, AboutToSignal
  <1>6. (RowRead /\ LockHeld /\ RowKept)'
    BY <1>1, <1>2 DEF LifeInv, ControlInv, ControlTypeOK, RowRead, LockHeld, RowKept
  <1>7. LifeTypeOK'
    BY <1>2, <1>3, <1>5 DEF LifeInv, LifeTypeOK
  <1>8. Waits'
    BY <1>1, <1>2 DEF LifeInv, ControlInv, ControlTypeOK, Reconciling, Waits, vars
  <1>9. PoolOnly'
    <2>1. req[c].run = NoRun
      BY <1>2 DEF LifeInv, Reconciling, Waits
    <2>2. ASSUME NEW r \in Runs, NEW c2 \in Callers, req[c2].op = "boot", req[c2].run = r
          PROVE  req'[c2].op = "boot" /\ req'[c2].run = r
      BY <1>2, <2>1, <2>2, NoRunAssumption DEF LifeInv, ControlInv, ControlTypeOK
    <2>3. \A c2 \in Callers : req'[c2] = req[c2] \/ req'[c2].at = "idle"
      BY <1>1, <1>2 DEF LifeInv, ControlInv, ControlTypeOK
    <2>4. QED
      BY <1>2, <2>2, <2>3 DEF LifeInv, Reconciling, PoolOnly, vars
  <1>10. Covered'
    <2>1. \A e \in Domains : Spawning(e) => Spawning(e)' \/ failed'[e] # NoRow
      <3> SUFFICES ASSUME NEW e \in Domains, NEW c2 \in Callers,
                          req[c2].op = "boot", req[c2].dom = e,
                          req[c2].at \in {"spawn", "start", "starting", "failed"}
                   PROVE  Spawning(e)' \/ failed'[e] # NoRow
        BY DEF Spawning
      <3>1. CASE c2 = c
        BY <1>2, <1>3, <3>1 DEF d
      <3>2. CASE c2 # c
        BY <1>2, <3>2 DEF LifeInv, ControlInv, ControlTypeOK, Spawning
      <3>3. QED
        BY <3>1, <3>2
    <2>2. \A e \in Domains : Supervised(e) => Supervised(e)'
      BY <1>2 DEF Supervised, LastEvent, vars
    <2>3. ActiveDomains' = ActiveDomains /\ ActiveDomains \subseteq Domains
      BY <1>2 DEF ActiveDomains
    <2>4. QED
      BY <1>2, <1>3, <2>1, <2>2, <2>3 DEF LifeInv, Reconciling, Covered
  <1>11. QED
    BY <1>3, <1>5, <1>6, <1>7, <1>8, <1>9, <1>10 DEF LifeInv, ControlInv, Reconciling

LEMMA SaveKept == LifeInv /\ Save => LifeInv'
  <1> SUFFICES ASSUME LifeInv, Save PROVE LifeInv'
    OBVIOUS
  <1>1. /\ rows' \in [Domains -> Row \cup {NoRow}]
        /\ \A d \in Domains : rows[d] # NoRow => rows'[d] # NoRow
    BY DEF Save, LifeInv, LifeTypeOK, ControlTypeOK
  <1>2. UNCHANGED <<vars, routes, logs, locked, req, ev, starts, todo, strays>> /\ phase' = "up"
        /\ failed' = Nothing
    BY DEF Save
  <1>3. ControlTypeOK' /\ Inv'
    BY <1>1, <1>2
    DEF LifeInv, ControlInv, ControlTypeOK, vars, Inv, TypeOK, Entries, Processes,
        Commands, Budget, StopsPending, AboutToSignal
  <1>4. (RowRead /\ LockHeld /\ RowKept)'
    BY <1>1, <1>2 DEF LifeInv, ControlInv, ControlTypeOK, RowRead, LockHeld, RowKept
  <1>5. LifeTypeOK'
    BY <1>2, <1>3 DEF LifeInv, LifeTypeOK, Nothing
  <1>6. Reconciling'
    BY <1>2 DEF LifeInv, Reconciling, Waits, PoolOnly, FailedRows, Covered, Nothing, vars
  <1>7. QED
    BY <1>3, <1>4, <1>5, <1>6 DEF LifeInv, ControlInv

LEMMA CrashKept == LifeInv /\ Crash => LifeInv'
  <1> SUFFICES ASSUME LifeInv, Crash PROVE LifeInv'
    OBVIOUS
  <1>1. ControlInv'
    BY Forgotten DEF LifeInv, Crash
  <1>2. strays' \subseteq Domains
    BY DEF Crash, LifeInv, LifeTypeOK, ControlTypeOK, TypeOK
  <1>3. LifeTypeOK'
    BY <1>1, <1>2 DEF ControlInv, LifeInv, LifeTypeOK, Crash, Nothing
  <1>4. \A c \in Callers : req'[c].at = "idle" /\ req'[c].run = NoRun
    BY DEF Crash, Forget, Idle
  <1>5. Reconciling'
    BY <1>4 DEF Crash, Forget, Reconciling, Waits, PoolOnly, FailedRows, Covered, Nothing
  <1>6. QED
    BY <1>1, <1>3, <1>5 DEF LifeInv

LEMMA StrayKept == ASSUME LifeInv, NEW d \in Domains, StrayExits(d) PROVE LifeInv'
  <1>1. UNCHANGED allVars /\ UNCHANGED <<phase, starts, todo, failed>>
    BY DEF StrayExits
  <1>2. ControlInv'
    BY <1>1, ControlStepInv DEF LifeInv
  <1>3. LifeTypeOK'
    BY <1>1, <1>2 DEF LifeInv, LifeTypeOK, ControlInv, StrayExits
  <1>4. Reconciling'
    BY <1>1 DEF LifeInv, Reconciling, Waits, PoolOnly, FailedRows, Covered, ActiveDomains,
                Spawning, Supervised, LastEvent, allVars, vars, control
  <1>5. QED
    BY <1>2, <1>3, <1>4 DEF LifeInv

-----------------------------------------------------------------------------
(* Requests and runs, while the backend starts and when it is up.              *)

\* The part of Reconciling that a step of a request or a run can disturb.
Pool == Waits /\ PoolOnly /\ Covered

\* A step that changes no thread of a run.
LEMMA SupervisedSame ==
  ASSUME UNCHANGED <<procs, pc, dom>>, NEW d \in Domains, Supervised(d)
  PROVE  Supervised(d)'
  BY DEF Supervised, LastEvent

LEMMA RequestPool ==
  ASSUME LifeInv, NEW c \in Callers, RequestStep(c), phase' = phase,
         UNCHANGED <<todo, failed>>
  PROVE  Pool'
  <1> USE NoRunAssumption DEF LifeInv, ControlInv, ControlTypeOK, Reconciling
  <1>1. CASE StopStep(c) /\ UNCHANGED control
    <2>1. UNCHANGED <<procs, pc, dom>>
      BY <1>1 DEF StopStep, StopMark, StopSignal
    <2>2. QED
      BY <1>1, <2>1
      DEF Pool, Waits, PoolOnly, Covered, ActiveDomains, Spawning, Supervised, LastEvent, control
  <1>2. ASSUME NEW r \in Runs, StartClaims(c, r) PROVE Pool'
    <2>1. /\ pc[r] = "idle" /\ req[c].at = "start" /\ req[c].run = NoRun
          /\ \A c2 \in Callers : req[c2].run # r
          /\ procs' = [procs EXCEPT ![req[c].dom] = r]
          /\ pc' = [pc EXCEPT ![r] = "claimed"]
          /\ dom' = [dom EXCEPT ![r] = req[c].dom]
          /\ rows' = rows
      BY <1>2 DEF StartClaims, Claim, Insert, Goto, Waits
    <2>2. CASE req[c].op \in Spawners /\ req' = [req EXCEPT ![c].at = "starting", ![c].run = r]
      <3> DEFINE m == Move(req[c], "starting", r)
      <3>1. req[c] \in Requests /\ "starting" \in Places
        BY DEF Requests, Places
      <3>2. /\ m.op = req[c].op /\ m.at = "starting" /\ m.dom = req[c].dom /\ m.run = r
        BY <3>1, Moved
      <3>3. req' = [req EXCEPT ![c] = m]
        BY <2>2 DEF Move
      <3> HIDE DEF m
      <3>4. Waits'
        BY <2>1, <3>2, <3>3 DEF Waits, TypeOK
      <3>5. PoolOnly'
        BY <2>1, <3>2, <3>3 DEF PoolOnly, TypeOK
      <3>6. Covered'
        <4>1. \A d \in Domains : Spawning(d) => Spawning(d)'
          BY <2>1, <3>2, <3>3 DEF Spawning
        <4>2. \A d \in Domains : Supervised(d) => Supervised(d)'
          BY <2>1 DEF Supervised, LastEvent, TypeOK
        <4>3. ActiveDomains' = ActiveDomains /\ ActiveDomains \subseteq Domains
          BY <2>1 DEF ActiveDomains
        <4>4. QED
          BY <4>1, <4>2, <4>3 DEF Covered
      <3>7. QED
        BY <3>4, <3>5, <3>6 DEF Pool
    <2>3. CASE req[c].op \notin Spawners /\ Return(c)
      <3>1. phase = "up"
        BY <2>1, <2>3 DEF PoolOnly, Spawners
      <3>2. Waits'
        BY <2>1, <2>3 DEF Waits, Return, Idle, TypeOK
      <3>3. QED
        BY <3>1, <3>2 DEF Pool, PoolOnly, Covered
    <2>4. QED
      BY <1>2, <2>2, <2>3 DEF StartClaims
  <1>3. CASE /\ UNCHANGED <<procs, pc, dom>> /\ phase = "up"
             /\ \A c2 \in Callers : req'[c2].run = NoRun \/ req'[c2] = req[c2]
    BY <1>3 DEF Pool, Waits, PoolOnly, Covered
  <1>4. CASE OpenLog(c) \/ StartRefused(c)
    <2>1. /\ UNCHANGED <<procs, pc, dom, rows>>
          /\ req[c].at \in {"spawn", "start"} /\ req[c].run = NoRun
      BY <1>4 DEF OpenLog, StartRefused, vars, Waits
    <2>2. CASE \E place \in {"start", "failed"} : Goto2(c, place)
      <3>1. PICK place \in {"start", "failed"} : req' = [req EXCEPT ![c].at = place]
        BY <2>2 DEF Goto2
      <3>2. Waits' /\ PoolOnly'
        BY <2>1, <3>1 DEF Waits, PoolOnly
      <3>3. \A d \in Domains : Spawning(d) => Spawning(d)'
        BY <2>1, <3>1 DEF Spawning
      <3>4. QED
        BY <2>1, <3>2, <3>3, SupervisedSame DEF Pool, Covered, ActiveDomains
    <2>3. CASE req[c].op \notin Spawners /\ Return(c)
      <3>1. phase = "up"
        BY <2>1, <2>3 DEF PoolOnly, Spawners
      <3>2. Waits'
        BY <2>1, <2>3 DEF Waits, Return, Idle
      <3>3. QED
        BY <3>1, <3>2 DEF Pool, PoolOnly, Covered
    <2>4. QED
      BY <1>4, <2>2, <2>3 DEF OpenLog, StartRefused
  <1>5. CASE CreateFailed(c) \/ StopProcess(c) \/ StopPut(c) \/ RestartPut(c)
             \/ DeleteIsRunning(c) \/ DeleteStop(c) \/ DeleteRow(c) \/ DeleteLog(c)
             \/ \E o \in Origins : ReplaceRoutes(c, o)
    <2>1. req[c].at # "idle" /\ req[c].op # "boot" /\ req[c].run = NoRun
      BY <1>5
      DEF CreateFailed, StopProcess, StopPut, RestartPut, DeleteIsRunning, DeleteStop, DeleteRow,
          DeleteLog, ReplaceRoutes, At, Waits
    <2>2. phase = "up"
      BY <2>1 DEF PoolOnly
    <2>3. UNCHANGED <<procs, pc, dom>>
      BY <1>5
      DEF CreateFailed, StopProcess, StopLookup, StopPut, RestartPut, DeleteIsRunning, DeleteStop,
          DeleteRow, DeleteLog, ReplaceRoutes, vars
    <2>4. Return(c) \/ \E place \in Places : Goto2(c, place)
      BY <1>5
      DEF CreateFailed, StopProcess, StopPut, RestartPut, DeleteIsRunning, DeleteStop, DeleteRow,
          DeleteLog, ReplaceRoutes, ReturnUnlocking, Places
    <2>5. \A c2 \in Callers : req'[c2].run = NoRun \/ req'[c2] = req[c2]
      BY <2>1, <2>4 DEF Return, Idle, Goto2
    <2>6. QED
      BY <1>3, <2>2, <2>3, <2>5
  <1>6. QED
    BY <1>1, <1>2, <1>4, <1>5 DEF RequestStep

\* A step of run r that moves its thread between two places that are not claims, and
\* tells the table nothing.
LEMMA ThreadMoves ==
  ASSUME LifeInv, NEW r \in Runs, NEW to \in PCs, UNCHANGED <<procs, dom, rows, req>>,
         UNCHANGED <<phase, todo, failed>>,
         pc' = [pc EXCEPT ![r] = to],
         pc[r] \notin {"claimed", "undo", "stopped", "error"}, to \notin {"claimed", "undo"}
  PROVE  Pool'
  <1> USE DEF LifeInv, ControlInv, ControlTypeOK, Reconciling, TypeOK
  <1>1. Waits' /\ PoolOnly'
    BY NoRunAssumption DEF Waits, PoolOnly
  <1>2. \A d \in Domains : Supervised(d) => Supervised(d)'
    BY DEF Supervised, LastEvent
  <1>3. Covered'
    BY <1>2 DEF Covered, ActiveDomains, Spawning
  <1>4. QED
    BY <1>1, <1>3 DEF Pool

LEMMA Returning ==
  ASSUME ControlTypeOK, NEW r \in Runs, NEW place \in Places, StartReturns(r, place),
         NEW c \in Callers
  PROVE  /\ req[c].run # r => req'[c] = req[c]
         /\ req[c].run = r => /\ req'[c].run = NoRun /\ req'[c].op = req[c].op
                              /\ req'[c].at = place /\ req'[c].dom = req[c].dom
  <1> DEFINE m == Move(req[c], place, NoRun)
  <1>1. req[c] \in Requests /\ NoRun \in Runs \cup {NoRun}
    BY DEF ControlTypeOK, Requests
  <1>2. m.op = req[c].op /\ m.at = place /\ m.dom = req[c].dom /\ m.run = NoRun
    BY <1>1, Moved
  <1>3. req'[c] = IF req[c].run = r THEN m ELSE req[c]
    BY DEF StartReturns, Move
  <1> HIDE DEF m
  <1>4. QED
    BY <1>2, <1>3

LEMMA RunPool ==
  ASSUME LifeInv, NEW r \in Runs, RunStep(r), UNCHANGED <<phase, todo, failed>>
  PROVE  Pool'
  <1> USE NoRunAssumption DEF LifeInv, ControlInv, ControlTypeOK, Reconciling, Inv, TypeOK
  <1>0. dom[r] \in Domains
    OBVIOUS
  <1>1. CASE StartSpawns(r)
    <2>1. /\ pc[r] = "claimed" /\ pc' = [pc EXCEPT ![r] = "started"]
          /\ UNCHANGED <<procs, dom, rows>> /\ StartReturns(r, "done")
      BY <1>1 DEF StartSpawns, Spawn, Goto
    <2>2. procs[dom[r]] = r
      BY <2>1 DEF Entries, Owning, PCs
    <2>3. \A c \in Callers :
            /\ req[c].run # r => req'[c] = req[c]
            /\ req[c].run = r => /\ req'[c].run = NoRun /\ req'[c].op = req[c].op
                                 /\ req[c].dom = dom[r]
      <3>1. "done" \in Places
        BY DEF Places
      <3>2. QED
        BY <2>1, <3>1, Returning DEF Waits
    <2>4. Waits' /\ PoolOnly'
      <3>1. \A c \in Callers : req'[c].at # "idle" => req[c].at # "idle"
        BY <2>3 DEF Waits
      <3>2. \A x \in Runs \ {r} : pc'[x] = pc[x] /\ dom'[x] = dom[x]
        BY <2>1
      <3>3. pc'[r] \notin {"claimed", "undo"}
        BY <2>1
      <3> HIDE DEF Inv
      <3>4. Waits'
        BY <2>3, <3>2 DEF Waits
      <3>5. PoolOnly'
        <4>1. phase # "up" => \A c \in Callers : req'[c].at # "idle" => req'[c].op = "boot"
          BY <2>3, <3>1 DEF PoolOnly
        <4>2. ASSUME phase # "up", NEW x \in Runs, pc'[x] \in {"claimed", "undo"}
              PROVE  \E c \in Callers : req'[c].op = "boot" /\ req'[c].run = x
          <5>1. x # r /\ pc[x] \in {"claimed", "undo"}
            BY <3>2, <3>3, <4>2
          <5>2. PICK c \in Callers : req[c].op = "boot" /\ req[c].run = x
            BY <4>2, <5>1 DEF PoolOnly
          <5>3. QED
            BY <2>3, <5>1, <5>2
        <4>3. QED
          BY <4>1, <4>2 DEF PoolOnly
      <3>6. QED
        BY <3>4, <3>5
    <2>5. \A d \in Domains : Spawning(d) => Spawning(d)' \/ Supervised(d)'
      BY <1>0, <2>1, <2>2, <2>3 DEF Spawning, Supervised
    <2>6. \A d \in Domains : Supervised(d) => Supervised(d)'
      BY <2>1 DEF Supervised, LastEvent
    <2>7. QED
      BY <2>1, <2>4, <2>5, <2>6 DEF Pool, Covered, ActiveDomains
  <1>2. CASE StartFails(r)
    <2>1. /\ pc[r] = "undo" /\ pc' = [pc EXCEPT ![r] = "idle"]
          /\ procs' = [procs EXCEPT ![dom[r]] = NoRun]
          /\ UNCHANGED <<dom, rows>> /\ StartReturns(r, "failed")
      BY <1>2 DEF StartFails, UndoClaim, Goto, DeleteEntry
    <2>2. \A c \in Callers :
            /\ req[c].run # r => req'[c] = req[c]
            /\ req[c].run = r => /\ req'[c].run = NoRun /\ req'[c].op = req[c].op
                                 /\ req'[c].at = "failed" /\ req'[c].dom = dom[r]
      <3>1. "failed" \in Places
        BY DEF Places
      <3>2. QED
        BY <2>1, <3>1, Returning DEF Waits
    <2>3. Waits' /\ PoolOnly'
      <3>1. \A c \in Callers : req'[c].at # "idle" => req[c].at # "idle"
        BY <2>2 DEF Waits
      <3>2. QED
        BY <2>1, <2>2, <3>1 DEF Waits, PoolOnly
    <2>4. \A d \in Domains : Spawning(d) => Spawning(d)'
      BY <2>2 DEF Spawning, Waits
    <2>5. phase = "boot" => Spawning(dom[r])'
      BY <2>1, <2>2 DEF PoolOnly, Spawning
    <2>6. \A d \in Domains \ {dom[r]} : Supervised(d) => Supervised(d)'
      BY <2>1 DEF Supervised, LastEvent
    <2>7. QED
      BY <2>1, <2>3, <2>4, <2>5, <2>6 DEF Pool, Covered, ActiveDomains
  <1>3. CASE EventGet(r) /\ rows[dom[r]] # NoRow
    <2>1. UNCHANGED <<procs, pc, dom, rows, req>>
      BY <1>3 DEF EventGet, vars
    <2>2. QED
      BY <2>1 DEF Pool, Waits, PoolOnly, Covered, ActiveDomains, Spawning, Supervised, LastEvent
  <1>4. CASE (EventGet(r) /\ rows[dom[r]] = NoRow) \/ EventPut(r)
    <2>1. /\ pc[r] \in {"active", "stopped", "error"}
          /\ pc' = [pc EXCEPT ![r] = IF pc[r] = "active" THEN "wait" ELSE "idle"]
          /\ UNCHANGED <<procs, dom, req>>
      BY <1>4 DEF EventGet, EventPut, Emitted, Goto
    <2>2. Waits' /\ PoolOnly'
      BY <2>1 DEF Waits, PoolOnly
    <2>3. \A d \in Domains : Spawning(d) => Spawning(d)'
      BY <2>1 DEF Spawning
    <2>4. \A d \in Domains \ {dom[r]} : /\ Supervised(d) => Supervised(d)'
                                        /\ rows'[d] = rows[d]
      BY <1>4, <2>1 DEF Supervised, LastEvent, EventGet, EventPut, UpdateRow
    <2>5. CASE pc[r] = "active"
      <3>1. procs[dom[r]] = r
        BY <2>5 DEF Entries, Owning, PCs
      <3>2. Supervised(dom[r])'
        BY <1>0, <2>1, <3>1 DEF Supervised
      <3>3. QED
        BY <2>1, <2>2, <2>3, <2>4, <3>2 DEF Pool, Covered, ActiveDomains
    <2>6. CASE pc[r] # "active"
      <3>1. dom[r] \notin ActiveDomains'
        <4>1. CASE EventPut(r)
          <5>1. EventStatus(r) # "active"
            BY <2>1, <2>6 DEF EventStatus
          <5>2. rows'[dom[r]] = NoRow \/ rows'[dom[r]].status = EventStatus(r)
            BY <1>0, <4>1 DEF EventPut, UpdateRow, Row
          <5>3. QED
            BY <5>1, <5>2 DEF ActiveDomains
        <4>2. QED
          BY <1>4, <4>1 DEF EventGet, ActiveDomains
      <3>2. QED
        BY <2>1, <2>2, <2>3, <2>4, <3>1 DEF Pool, Covered, ActiveDomains
    <2>7. QED
      BY <2>5, <2>6
  <1>5. CASE SpawnFails(r) /\ UNCHANGED control
    <2>1. /\ pc[r] = "claimed" /\ pc' = [pc EXCEPT ![r] = "undo"]
          /\ UNCHANGED <<procs, dom, rows, req>>
      BY <1>5 DEF SpawnFails, Goto, control
    <2>2. \A d \in Domains : Supervised(d) => Supervised(d)'
      BY <2>1 DEF Supervised, LastEvent
    <2>3. QED
      BY <2>1, <2>2 DEF Pool, Waits, PoolOnly, Covered, ActiveDomains, Spawning
  <1>6. CASE (Publish(r) \/ KillAndWait(r) \/ Arm(r) \/ Wait(r) \/ ObserveExit(r)
              \/ CountFailure(r) \/ Respawn(r) \/ RespawnFails(r) \/ Adopt(r))
             /\ UNCHANGED control
    <2>1. /\ UNCHANGED <<procs, dom, rows, req>>
          /\ pc[r] \notin {"claimed", "undo", "stopped", "error"}
          /\ \E to \in PCs \ {"claimed", "undo"} : pc' = [pc EXCEPT ![r] = to]
      BY <1>6
      DEF Publish, KillAndWait, Arm, Wait, ObserveExit, CountFailure, Count, Respawn,
          RespawnFails, Adopt, Goto, PCs, control
    <2>2. QED
      BY <2>1, ThreadMoves
  <1>7. CASE Release(r) /\ UNCHANGED control
    <2>1. /\ pc[r] \in {"drop", "giveup"}
          /\ \E to \in {"stopped", "error"} : pc' = [pc EXCEPT ![r] = to]
          /\ procs' = [procs EXCEPT ![dom[r]] = NoRun]
          /\ UNCHANGED <<dom, rows, req>>
      BY <1>7 DEF Release, Goto, DeleteEntry, control
    <2>2. Waits' /\ PoolOnly'
      BY <2>1 DEF Waits, PoolOnly
    <2>3. \A d \in Domains : Supervised(d) => Supervised(d)'
      BY <2>1 DEF Supervised, LastEvent
    <2>4. QED
      BY <2>1, <2>2, <2>3 DEF Pool, Covered, ActiveDomains, Spawning
  <1>8. QED
    BY <1>1, <1>2, <1>3, <1>4, <1>5, <1>6, <1>7 DEF RunStep, SuperviseStep

LEMMA WorkKept == LifeInv /\ Work /\ UNCHANGED life => LifeInv'
  <1> SUFFICES ASSUME LifeInv, Work, UNCHANGED life PROVE LifeInv'
    OBVIOUS
  <1>1. ControlInv'
    BY ControlStepInv DEF LifeInv, ControlNext
  <1>2. LifeTypeOK' /\ FailedRows'
    BY <1>1 DEF ControlInv, LifeInv, LifeTypeOK, Reconciling, FailedRows, life
  <1>3. Pool'
    <2>1. UNCHANGED <<phase, todo, failed>>
      BY DEF life
    <2>2. CASE \E c \in Callers : RequestStep(c)
      BY <2>1, <2>2, RequestPool
    <2>3. CASE \E r \in Runs : RunStep(r)
      BY <2>1, <2>3, RunPool
    <2>4. ASSUME NEW r \in Runs, ((Timers /\ TimerStep(r)) \/ Exit(r)) /\ UNCHANGED control
          PROVE  Pool'
      <3>1. UNCHANGED <<procs, pc, dom, rows, req>>
        BY <2>4 DEF TimerStep, TimerFires, ResetCount, Exit, control
      <3>2. QED
        BY <2>1, <3>1 DEF LifeInv, Reconciling, Pool, Waits, PoolOnly, Covered, ActiveDomains,
                          Spawning, Supervised, LastEvent
    <2>5. QED
      BY <2>2, <2>3, <2>4 DEF Work
  <1>4. QED
    BY <1>1, <1>2, <1>3 DEF LifeInv, Reconciling, Pool

LEMMA ArrivalKept == LifeInv /\ phase = "up" /\ Arrival /\ UNCHANGED life => LifeInv'
  <1> SUFFICES ASSUME LifeInv, phase = "up", Arrival, UNCHANGED life PROVE LifeInv'
    OBVIOUS
  <1>1. ControlInv'
    BY ControlStepInv DEF LifeInv, ControlNext
  <1>2. LifeTypeOK' /\ FailedRows' /\ PoolOnly' /\ Covered'
    BY <1>1 DEF ControlInv, LifeInv, LifeTypeOK, Reconciling, FailedRows, PoolOnly, Covered, life
  <1>3. UNCHANGED <<pc, dom>>
    BY DEF Arrival, CreateInsert, BeginUnlocked, BeginLocked, vars
  <1>4. \A c \in Callers : req'[c] = req[c] \/ req'[c].run = NoRun
    BY CreatorAssumption
    DEF LifeInv, ControlInv, ControlTypeOK, Arrival, CreateInsert, BeginUnlocked, BeginLocked, Get
  <1>5. Waits'
    BY <1>3, <1>4 DEF LifeInv, Reconciling, Waits
  <1>6. QED
    BY <1>1, <1>2, <1>5 DEF LifeInv, Reconciling

LEMMA LifeStepInv == LifeInv /\ [LifeNext]_lifeVars => LifeInv'
  <1> SUFFICES ASSUME LifeInv, [LifeNext]_lifeVars PROVE LifeInv'
    OBVIOUS
  <1>1. CASE BootStep
    BY <1>1, BootKept, SaveKept, CollectKept, TakeKept DEF BootStep
  <1>2. CASE Crash
    BY <1>2, CrashKept
  <1>3. CASE \E d \in Domains : StrayExits(d)
    BY <1>3, StrayKept
  <1>4. CASE phase = "up" /\ Arrival /\ UNCHANGED life
    BY <1>4, ArrivalKept
  <1>5. CASE Work /\ UNCHANGED life
    BY <1>5, WorkKept
  <1>6. CASE UNCHANGED lifeVars
    <2>1. ControlInv'
      BY <1>6, ControlStepInv DEF LifeInv, lifeVars
    <2>2. QED
      BY <1>6, <2>1
      DEF lifeVars, life, allVars, vars, control, LifeInv, LifeTypeOK, ControlInv, Reconciling,
          Waits, PoolOnly, FailedRows, Covered, ActiveDomains, Spawning, Supervised, LastEvent
  <1>7. QED
    BY <1>1, <1>2, <1>3, <1>4, <1>5, <1>6 DEF LifeNext

-----------------------------------------------------------------------------

THEOREM LifeInvariance == LifeSpec => []LifeInv
  <1>1. LifeInit => LifeInv
    BY LifeInitInv
  <1>2. LifeInv /\ [LifeNext]_lifeVars => LifeInv'
    BY LifeStepInv
  <1>3. QED
    BY <1>1, <1>2, PTL DEF LifeSpec

\* Everything keeps its type through crashes and start-ups.
THEOREM LifeTypeCorrect == LifeSpec => []LifeTypeOK
  <1>1. LifeInv => LifeTypeOK
    BY DEF LifeInv
  <1>2. QED
    BY <1>1, LifeInvariance, PTL

\* In no life a domain has two processes of that life.
THEOREM LifeExclusion == LifeSpec => []AtMostOneProcess
  <1>1. LifeInv => AtMostOneProcess
    BY OneProcess DEF LifeInv, ControlInv
  <1>2. QED
    BY <1>1, LifeInvariance, PTL

\* When the server begins to listen every active row is supervised, for any number of
\* domains, whichever of their starts failed and whatever events came meanwhile.
THEOREM EveryoneComesBack == LifeSpec => ActiveComesBack
  <1> DEFINE Back == phase = "boot" /\ phase' = "up" =>
                       \A d \in ActiveDomains' : procs[d] # NoRun \/ \E r \in Runs : LastEvent(r, d)
  <1>1. LifeInv /\ [LifeNext]_lifeVars => [Back]_lifeVars
    <2> SUFFICES ASSUME LifeInv, LifeNext, phase = "boot", phase' = "up",
                        NEW d \in ActiveDomains'
                 PROVE  Supervised(d)
      BY DEF Supervised
    <2>1. Save
      BY DEF LifeNext, BootStep, Boot, Take, Collect, Crash, StrayExits, life
    <2>2. ASSUME Spawning(d) PROVE FALSE
      BY <2>1, <2>2 DEF Spawning, Save
    <2>3. d \in Domains /\ rows'[d] # NoRow /\ rows'[d].status = "active"
      BY DEF ActiveDomains
    <2>4. rows[d] # NoRow /\ (failed[d] = NoRow => rows'[d] = rows[d])
          /\ (failed[d] # NoRow => rows'[d] = failed[d])
      BY <2>1, <2>3 DEF Save
    <2>5. failed[d] = NoRow
      BY <2>3, <2>4 DEF LifeInv, Reconciling, FailedRows
    <2>6. d \in ActiveDomains /\ todo[d] = NoRow
      BY <2>1, <2>3, <2>4, <2>5 DEF ActiveDomains, Save, Nothing
    <2>7. QED
      BY <2>2, <2>5, <2>6 DEF LifeInv, Reconciling, Covered
  <1>2. QED
    BY <1>1, LifeInvariance, PTL DEF LifeSpec, ActiveComesBack

\* A deleted domain does not come back in a later life either.
THEOREM NeverBackInAnyLife == LifeSpec => DeletedStaysDeleted
  <1>1. LifeInv /\ [LifeNext]_lifeVars => [Appears]_allVars
    <2> SUFFICES ASSUME LifeInv, LifeNext, ~(UNCHANGED allVars) PROVE Appears
      BY DEF lifeVars
    <2>1. CASE ControlNext
      BY <2>1, RowsAppear DEF LifeInv
    <2>2. CASE BootStep \/ Crash \/ \E d \in Domains : StrayExits(d)
      <3>1. \A d \in Domains : rows[d] = NoRow => rows'[d] = NoRow
        BY <2>2 DEF BootStep, Boot, Take, Collect, Save, Crash, StrayExits, allVars, control
      <3>2. QED
        BY <3>1 DEF Appears
    <2>3. QED
      BY <2>1, <2>2 DEF LifeNext, ControlNext
  <1>2. QED
    BY <1>1, LifeInvariance, PTL DEF LifeSpec, DeletedStaysDeleted, Appears

-----------------------------------------------------------------------------
(* Active rows, across crashes.  A crash leaves rows with the pids of a life   *)
(* that is over; the start-up deals with each of them before the server        *)
(* listens.  As in DomainControl, nobody asks for a restart.                   *)

\* The pid in the row of domain d is that of a run of this life.
Real(d) == rows[d].pid # NoRun /\ dom[rows[d].pid] = d /\ Begun(rows[d].pid)

\* Reconcile has yet to bring domain d back, or to write that it could not.
Due(d) ==
  \/ todo[d] # NoRow \/ failed[d] # NoRow \/ Spawning(d)
  \/ /\ StartUnderWay(d)
     /\ \E c \in Callers : At(c, "boot", "done") /\ req[c].dom = d

ActiveReal ==
  phase # "off" => \A d \in ActiveDomains : Real(d) \/ (phase = "boot" /\ Due(d))

\* There is nobody to stop anything before the server listens.
Unstopped ==
  phase # "up" => /\ \A c \in Callers : call[c].at = "idle"
                  /\ \A r \in Runs : ~stop[r]

Unattempted == \A r \in Runs : pc[r] = "claimed" => attempt[r] = 0

Revived == ActiveReal /\ Unstopped /\ Unattempted

\* A row of domain d that was active before, with the same pid.
SameActive(d) == d \in ActiveDomains /\ rows'[d].pid = rows[d].pid /\ (Real(d) => Real(d)')

LEMMA SilentReal ==
  ASSUME ControlInv, Silent, UNCHANGED rows, NEW d \in ActiveDomains'
  PROVE  SameActive(d)
  <1>1. d \in ActiveDomains /\ d \in Domains /\ rows[d] \in Row
    BY DEF ActiveDomains, ControlInv, ControlTypeOK
  <1>2. rows[d].pid \in Runs \cup {NoRun}
    BY <1>1 DEF Row
  <1>3. ASSUME Real(d) PROVE Real(d)'
    <2>1. rows[d].pid \in Runs /\ Begun(rows[d].pid) /\ TypeOK
      BY <1>2, <1>3 DEF Real, ControlInv, ControlTypeOK
    <2>2. dom'[rows[d].pid] = dom[rows[d].pid] /\ Begun(rows[d].pid)'
      BY <2>1, SilentKeeps
    <2>3. QED
      BY <1>3, <2>2 DEF Real
  <1>4. QED
    BY <1>1, <1>3 DEF SameActive

\* A request writes no active row, except that of new routes, which keep the pid.
LEMMA RequestReal ==
  ASSUME NoRestarts, ControlInv, NEW c \in Callers, RequestStep(c), NEW d \in ActiveDomains'
  PROVE  SameActive(d)
  <1>1. /\ d \in Domains /\ rows'[d] # NoRow /\ rows'[d].status = "active"
        /\ ControlTypeOK /\ req[c].dom \in Domains
    BY DEF ActiveDomains, ControlInv, ControlTypeOK
  <1>2. ASSUME UNCHANGED vars, rows'[d] = rows[d] PROVE SameActive(d)
    BY <1>1, <1>2 DEF SameActive, ActiveDomains, Real, Begun, vars
  <1>3. ASSUME NEW row, UpdateRow(req[c].dom, row), UNCHANGED vars, row.status # "active"
        PROVE  SameActive(d)
    BY <1>1, <1>2, <1>3 DEF UpdateRow, ControlTypeOK
  <1>4. CASE CreateFailed(c)
    <2>1. req[c].row \in Row
      BY <1>4 DEF ControlInv, RowRead, CreateFailed, At
    <2>2. [req[c].row EXCEPT !.status = "error"].status # "active"
      BY <2>1 DEF Row
    <2>3. QED
      BY <1>3, <1>4, <2>2 DEF CreateFailed
  <1>5. CASE StopPut(c)
    <2>1. req[c].row \in Row
      BY <1>5 DEF ControlInv, ControlTypeOK, RowRead, StopPut, At, Spawners
    <2>2. [req[c].row EXCEPT !.status = "stopped"].status # "active"
      BY <2>1 DEF Row
    <2>3. QED
      BY <1>3, <1>5, <2>2 DEF StopPut
  <1>6. CASE RestartPut(c)
    BY <1>6 DEF RestartPut, At, NoRestarts, ControlInv, ControlTypeOK, Spawners
  <1>7. CASE DeleteRow(c)
    BY <1>1, <1>2, <1>7 DEF DeleteRow, ControlTypeOK
  <1>8. ASSUME NEW o \in Origins, ReplaceRoutes(c, o) PROVE SameActive(d)
    <2>1. rows[req[c].dom] \in Row /\ rows[req[c].dom] # NoRow
      BY <1>1, <1>8, NoRowAssumption DEF ControlInv, ControlTypeOK, RowKept, ReplaceRoutes, At
    <2> DEFINE row == [rows[req[c].dom] EXCEPT !.origin = o]
    <2>2. row.status = rows[req[c].dom].status /\ row.pid = rows[req[c].dom].pid
      BY <2>1 DEF Row
    <2>3. rows' = [rows EXCEPT ![req[c].dom] = row] /\ UNCHANGED vars
      BY <1>8 DEF ReplaceRoutes
    <2> HIDE DEF row
    <2>4. CASE d = req[c].dom
      BY <1>1, <2>1, <2>2, <2>3, <2>4
      DEF ControlTypeOK, SameActive, ActiveDomains, Real, Begun, vars
    <2>5. QED
      BY <1>1, <1>2, <2>3, <2>4 DEF ControlTypeOK
  <1>9. CASE OpenLog(c) \/ StartRefused(c) \/ DeleteIsRunning(c) \/ DeleteLog(c)
    BY <1>9, SilentReal DEF OpenLog, StartRefused, DeleteIsRunning, DeleteLog, Silent
  <1>10. ASSUME NEW r \in Runs, StartClaims(c, r) PROVE SameActive(d)
    BY <1>1, <1>10, SilentReal DEF StartClaims, Silent
  <1>11. CASE StopProcess(c) \/ DeleteStop(c)
    BY <1>1, <1>11, SilentReal DEF StopProcess, DeleteStop, Silent
  <1>12. CASE StopStep(c) /\ UNCHANGED control
    BY <1>12, SilentReal DEF Silent, control
  <1>13. QED
    BY <1>4, <1>5, <1>6, <1>7, <1>8, <1>9, <1>10, <1>11, <1>12 DEF RequestStep

\* An event makes the row of its domain real, or takes it from the active ones.
LEMMA RunReal ==
  ASSUME ControlInv, NEW r \in Runs, RunStep(r), NEW d \in ActiveDomains'
  PROVE  SameActive(d) \/ Real(d)'
  <1>1. /\ d \in Domains /\ rows'[d] # NoRow /\ rows'[d].status = "active"
        /\ ControlTypeOK /\ TypeOK /\ dom[r] \in Domains
    BY DEF ActiveDomains, ControlInv, ControlTypeOK, TypeOK
  <1>2. ASSUME Emitted(r), d # dom[r], rows'[d] = rows[d] PROVE SameActive(d)
    <2>1. rows[d].pid \in Runs \cup {NoRun} /\ d \in ActiveDomains
      BY <1>1, <1>2 DEF ControlTypeOK, Row, ActiveDomains
    <2>2. dom' = dom /\ \A s \in Runs \ {r} : pc'[s] = pc[s]
      BY <1>1, <1>2 DEF Emitted, Goto, TypeOK
    <2>3. Real(d) => Real(d)'
      BY <1>2, <2>1, <2>2 DEF Real, Begun
    <2>4. QED
      BY <1>2, <2>1, <2>3 DEF SameActive
  <1>3. CASE EventGet(r)
    <2>1. CASE rows[dom[r]] = NoRow
      BY <1>1, <1>2, <1>3, <2>1 DEF EventGet
    <2>2. CASE rows[dom[r]] # NoRow
      BY <1>3, <2>2, SilentReal DEF EventGet, Silent
    <2>3. QED
      BY <2>1, <2>2
  <1>4. CASE EventPut(r)
    <2> DEFINE row == [ev[r] EXCEPT !.status = EventStatus(r), !.pid = EventPid(r)]
    <2>1. UpdateRow(dom[r], row) /\ Emitted(r)
      BY <1>4 DEF EventPut
    <2>2. row.status = EventStatus(r) /\ row.pid = EventPid(r)
      BY <1>1, <1>4 DEF EventPut, ControlTypeOK, Row
    <2> HIDE DEF row
    <2>3. CASE d # dom[r]
      BY <1>1, <1>2, <2>1, <2>3 DEF UpdateRow, ControlTypeOK
    <2>4. CASE d = dom[r]
      <3>1. rows'[d] = row
        BY <1>1, <2>1, <2>4 DEF UpdateRow, ControlTypeOK
      <3>2. pc[r] = "active"
        BY <1>1, <2>1, <2>2, <3>1 DEF EventStatus, Emitted, Goto
      <3>3. rows'[d].pid = r
        BY <2>2, <3>1, <3>2 DEF EventPid
      <3>4. dom' = dom /\ pc'[r] = "wait"
        BY <1>1, <2>1, <3>2 DEF Emitted, Goto, TypeOK
      <3>5. QED
        BY <2>4, <3>3, <3>4, NoRunAssumption DEF Real, Begun, PCs
    <2>5. QED
      BY <2>3, <2>4
  <1>5. CASE StartSpawns(r) \/ StartFails(r)
    BY <1>5, SilentReal DEF StartSpawns, StartFails, Silent
  <1>6. CASE (SpawnFails(r) \/ Publish(r) \/ KillAndWait(r) \/ Arm(r) \/ SuperviseStep(r))
             /\ UNCHANGED control
    BY <1>6, SilentReal DEF Silent, control
  <1>7. QED
    BY <1>3, <1>4, <1>5, <1>6 DEF RunStep

LEMMA ControlReal ==
  ASSUME NoRestarts, ControlInv, [ControlNext]_allVars, NEW d \in ActiveDomains'
  PROVE  SameActive(d) \/ Real(d)'
  <1>1. /\ d \in Domains /\ rows'[d] # NoRow /\ rows'[d].status = "active" /\ ControlTypeOK
    BY DEF ActiveDomains, ControlInv
  <1>2. ASSUME NEW e \in Domains, NEW o \in Origins, CreateInsert(e, o) PROVE SameActive(d)
    <2>1. e # d /\ rows'[d] = rows[d] /\ UNCHANGED vars
      BY <1>1, <1>2 DEF CreateInsert, ControlTypeOK
    <2>2. QED
      BY <1>1, <2>1 DEF SameActive, ActiveDomains, Real, Begun, vars
  <1>3. ASSUME Silent, UNCHANGED rows PROVE SameActive(d)
    BY <1>3, SilentReal
  <1>4. ASSUME NEW c \in Callers, NEW e \in Domains, NEW op \in Ops,
               BeginUnlocked(c, op, e) \/ BeginLocked(c, op, e)
        PROVE  SameActive(d)
    BY <1>3, <1>4 DEF BeginUnlocked, BeginLocked, Silent
  <1>5. ASSUME NEW r \in Runs, ((Timers /\ TimerStep(r)) \/ Exit(r)) /\ UNCHANGED control
        PROVE  SameActive(d)
    BY <1>3, <1>5 DEF Silent, control
  <1>6. CASE UNCHANGED allVars
    BY <1>3, <1>6 DEF allVars, control, Silent
  <1>7. QED
    BY <1>2, <1>4, <1>5, <1>6, RequestReal, RunReal DEF ControlNext, Arrival, Work

-----------------------------------------------------------------------------
(* What Reconcile owes, step by step.                                          *)

\* A goroutine of the pool goes on, towards Start or back from it with an error.
LEMMA SpawningOn ==
  ASSUME ControlTypeOK, NEW c \in Callers, NEW q, req' = [req EXCEPT ![c] = q],
         q.op = req[c].op, q.dom = req[c].dom,
         q.at \in {"spawn", "start", "starting", "failed"},
         UNCHANGED <<todo, failed>>, NEW d \in Domains, Due(d),
         \A r \in Runs : /\ dom'[r] = dom[r] \/ pc[r] = "idle"
                         /\ pc[r] # "idle" => pc'[r] = pc[r] /\ attempt'[r] = attempt[r],
         req[c].at # "done"
  PROVE  Due(d)'
  <1>1. CASE Spawning(d)
    BY <1>1 DEF Spawning, Due, ControlTypeOK
  <1>2. CASE StartUnderWay(d) /\ \E x \in Callers : At(x, "boot", "done") /\ req[x].dom = d
    <2>1. PICK x \in Callers : At(x, "boot", "done") /\ req[x].dom = d
      BY <1>2
    <2>2. x # c /\ req'[x] = req[x]
      BY <2>1 DEF At, ControlTypeOK
    <2>3. StartUnderWay(d)'
      BY <1>2 DEF StartUnderWay
    <2>4. QED
      BY <2>1, <2>2, <2>3 DEF Due, At
  <1>3. QED
    BY <1>1, <1>2 DEF Due

\* Before the server listens the only requests are goroutines of the pool.
LEMMA RequestDue ==
  ASSUME LifeInv, Revived, phase = "boot", NEW c \in Callers, RequestStep(c),
         UNCHANGED <<todo, failed>>, NEW d \in Domains, Due(d)
  PROVE  Due(d)'
  <1>1. /\ ControlTypeOK /\ TypeOK /\ req[c] \in Requests
        /\ req[c].at # "idle" => req[c].op = "boot"
        /\ call[c].at = "idle"
    BY DEF LifeInv, ControlInv, ControlTypeOK, Reconciling, PoolOnly, Requests, Revived, Unstopped
  <1>2. CASE OpenLog(c) \/ StartRefused(c)
    <2>1. req[c].op = "boot" /\ req[c].at \in {"spawn", "start"} /\ UNCHANGED vars
      BY <1>1, <1>2 DEF OpenLog, StartRefused
    <2>2. PICK place \in {"start", "failed"} : req' = [req EXCEPT ![c].at = place]
      BY <1>2, <2>1 DEF OpenLog, StartRefused, Goto2, Spawners
    <2> DEFINE q == [req[c] EXCEPT !.at = place]
    <2>3. req' = [req EXCEPT ![c] = q] /\ q.op = req[c].op /\ q.dom = req[c].dom /\ q.at = place
      BY <1>1, <2>2 DEF Requests
    <2> HIDE DEF q
    <2>4. QED
      BY <1>1, <2>1, <2>2, <2>3, SpawningOn DEF vars
  <1>3. ASSUME NEW r \in Runs, StartClaims(c, r) PROVE Due(d)'
    <2>1. req[c].op = "boot" /\ req[c].at = "start"
      BY <1>1, <1>3 DEF StartClaims
    <2> DEFINE q == Move(req[c], "starting", r)
    <2>2. req' = [req EXCEPT ![c] = q]
      BY <1>3, <2>1 DEF StartClaims, Spawners, Move
    <2>3. q.op = req[c].op /\ q.dom = req[c].dom /\ q.at = "starting"
      <3>1. "starting" \in Places /\ r \in Runs \cup {NoRun}
        BY DEF Places
      <3>2. QED
        BY <1>1, <3>1, Moved
    <2> HIDE DEF q
    <2>4. \A s \in Runs : /\ dom'[s] = dom[s] \/ pc[s] = "idle"
                          /\ pc[s] # "idle" => pc'[s] = pc[s] /\ attempt'[s] = attempt[s]
      BY <1>1, <1>3 DEF StartClaims, Claim, Insert, Goto, TypeOK
    <2>5. QED
      BY <1>1, <2>1, <2>2, <2>3, <2>4, SpawningOn
  <1>4. CASE CreateFailed(c) \/ StopProcess(c) \/ StopPut(c) \/ RestartPut(c)
             \/ DeleteIsRunning(c) \/ DeleteStop(c) \/ DeleteRow(c) \/ DeleteLog(c)
             \/ \E o \in Origins : ReplaceRoutes(c, o)
    BY <1>1, <1>4
    DEF CreateFailed, StopProcess, StopPut, RestartPut, DeleteIsRunning, DeleteStop, DeleteRow,
        DeleteLog, ReplaceRoutes, At
  <1>5. CASE StopStep(c)
    BY <1>1, <1>5 DEF StopStep, StopMark, StopSignal
  <1>6. QED
    BY <1>2, <1>3, <1>4, <1>5 DEF RequestStep

\* A run that moves leaves the domains of the others alone.
LEMMA StartGoesOn ==
  ASSUME UNCHANGED <<dom, req, todo, failed>>, NEW d \in Domains, Due(d),
         \A r \in Runs :
           dom[r] = d /\ attempt[r] = 0 /\ pc[r] \in {"started", "arm", "active"}
           => attempt'[r] = 0 /\ pc'[r] \in {"started", "arm", "active"}
  PROVE  Due(d)'
  <1>1. StartUnderWay(d) => StartUnderWay(d)'
    BY DEF StartUnderWay
  <1>2. QED
    BY <1>1 DEF Due, Spawning, At

LEMMA RunDue ==
  ASSUME LifeInv, Revived, phase = "boot", NEW r \in Runs, RunStep(r),
         UNCHANGED <<todo, failed>>, NEW d \in ActiveDomains', Due(d)
  PROVE  Due(d)' \/ Real(d)'
  <1>1. /\ ControlTypeOK /\ TypeOK /\ req \in [Callers -> Requests]
        /\ d \in Domains /\ rows'[d] # NoRow /\ rows'[d].status = "active"
        /\ ~stop[r] /\ dom[r] \in Domains
    BY DEF LifeInv, ControlInv, ControlTypeOK, TypeOK, Requests, Revived, Unstopped, ActiveDomains
  <1>2. CASE StartSpawns(r)
    <2>1. /\ pc[r] = "claimed" /\ attempt[r] = 0 /\ UNCHANGED <<dom, attempt>>
          /\ pc' = [pc EXCEPT ![r] = "started"] /\ StartReturns(r, "done")
      BY <1>2 DEF StartSpawns, Spawn, Goto, Revived, Unattempted
    <2>2. \A x \in Callers :
            /\ req[x].run # r => req'[x] = req[x]
            /\ req[x].run = r => /\ req'[x].op = req[x].op /\ req'[x].at = "done"
                                 /\ req'[x].dom = req[x].dom /\ dom[r] = req[x].dom
                                 /\ req[x].at = "starting"
      BY <1>1, <2>1, Returning, NoRunAssumption DEF Places, LifeInv, Reconciling, Waits
    <2>3. dom[r] = d => StartUnderWay(d)'
      BY <1>1, <2>1 DEF StartUnderWay, TypeOK
    <2>4. StartUnderWay(d) => StartUnderWay(d)'
      BY <1>1, <2>1 DEF StartUnderWay, TypeOK
    <2>5. CASE Spawning(d)
      <3>1. PICK x \in Callers : /\ req[x].op = "boot" /\ req[x].dom = d
                                /\ req[x].at \in {"spawn", "start", "starting", "failed"}
        BY <2>5 DEF Spawning
      <3>2. CASE req[x].run = r
        <4>1. At(x, "boot", "done")' /\ req'[x].dom = d /\ dom[r] = d
          BY <2>2, <3>1, <3>2 DEF At
        <4>2. QED
          BY <2>3, <4>1 DEF Due
      <3>3. CASE req[x].run # r
        BY <2>2, <3>1, <3>3 DEF Due, Spawning
      <3>4. QED
        BY <3>2, <3>3
    <2>6. CASE StartUnderWay(d) /\ \E x \in Callers : At(x, "boot", "done") /\ req[x].dom = d
      BY <2>2, <2>4, <2>6 DEF Due, At
    <2>7. QED
      BY <2>5, <2>6 DEF Due
  <1>3. CASE StartFails(r)
    <2>1. /\ pc[r] = "undo" /\ UNCHANGED <<dom, attempt>>
          /\ pc' = [pc EXCEPT ![r] = "idle"] /\ StartReturns(r, "failed")
      BY <1>3 DEF StartFails, UndoClaim, Goto
    <2>2. \A x \in Callers :
            /\ req[x].run # r => req'[x] = req[x]
            /\ req[x].run = r => /\ req'[x].op = req[x].op /\ req'[x].at = "failed"
                                 /\ req'[x].dom = req[x].dom /\ req[x].at = "starting"
      BY <1>1, <2>1, Returning, NoRunAssumption DEF Places, LifeInv, Reconciling, Waits
    <2>3. StartUnderWay(d) => StartUnderWay(d)'
      BY <1>1, <2>1 DEF StartUnderWay, TypeOK
    <2>4. QED
      BY <2>2, <2>3 DEF Due, Spawning, At
  <1>4. CASE (Publish(r) \/ KillAndWait(r) \/ Arm(r) \/ SpawnFails(r) \/ SuperviseStep(r))
             /\ UNCHANGED control
    <2>1. UNCHANGED <<dom, req>>
      BY <1>4
      DEF control, Publish, KillAndWait, Arm, SpawnFails, SuperviseStep, Wait, ObserveExit,
          CountFailure, Count, Release, Respawn, RespawnFails, Adopt
    <2>2. ASSUME NEW s \in Runs, attempt[s] = 0, pc[s] \in {"started", "arm", "active"}
          PROVE  attempt'[s] = 0 /\ pc'[s] \in {"started", "arm", "active"}
      <3>1. CASE Publish(r) \/ KillAndWait(r) \/ Arm(r) \/ SpawnFails(r)
        BY <1>1, <2>2, <3>1 DEF Publish, KillAndWait, Arm, SpawnFails, Goto, TypeOK
      <3>2. CASE SuperviseStep(r)
        BY <1>1, <2>2, <3>2
        DEF SuperviseStep, Wait, ObserveExit, CountFailure, Count, Release, Respawn, RespawnFails,
            Adopt, Goto, TypeOK
      <3>3. QED
        BY <1>4, <3>1, <3>2
    <2>3. QED
      BY <1>1, <2>1, <2>2, StartGoesOn
  <1>5. CASE EventGet(r) \/ EventPut(r)
    <2>1. UNCHANGED <<dom, req, attempt>>
      BY <1>5 DEF EventGet, EventPut, Emitted, vars
    <2>2. CASE pc' = pc
      BY <1>1, <2>1, <2>2, StartGoesOn
    <2>3. CASE Emitted(r) /\ dom[r] # d
      <3>1. \A s \in Runs : dom[s] = d => pc'[s] = pc[s]
        BY <1>1, <2>3 DEF Emitted, Goto, TypeOK
      <3>2. QED
        BY <1>1, <2>1, <3>1, StartGoesOn
    <2>4. CASE EventPut(r) /\ dom[r] = d
      <3> DEFINE row == [ev[r] EXCEPT !.status = EventStatus(r), !.pid = EventPid(r)]
      <3>1. UpdateRow(d, row) /\ Emitted(r)
        BY <2>4 DEF EventPut
      <3>2. row.status = EventStatus(r) /\ row.pid = EventPid(r)
        BY <1>1, <2>4 DEF EventPut, ControlTypeOK, Row
      <3> HIDE DEF row
      <3>3. rows'[d] = row
        BY <1>1, <3>1 DEF UpdateRow, ControlTypeOK
      <3>4. pc[r] = "active"
        BY <1>1, <3>1, <3>2, <3>3 DEF EventStatus, Emitted, Goto
      <3>5. rows'[d].pid = r /\ dom'[r] = d /\ pc'[r] = "wait"
        BY <1>1, <2>1, <2>4, <3>1, <3>2, <3>3, <3>4 DEF EventPid, Emitted, Goto, TypeOK
      <3>6. QED
        BY <3>5, NoRunAssumption DEF Real, Begun, PCs
    <2>5. QED
      BY <1>1, <1>5, <2>2, <2>3, <2>4 DEF EventGet, EventPut, vars
  <1>6. QED
    BY <1>2, <1>3, <1>4, <1>5 DEF RunStep

LEMMA WorkDue ==
  ASSUME LifeInv, Revived, phase = "boot", Work, UNCHANGED life,
         NEW d \in ActiveDomains', Due(d)
  PROVE  Due(d)' \/ Real(d)'
  <1>1. UNCHANGED <<todo, failed>> /\ d \in Domains
    BY DEF life, ActiveDomains
  <1>2. CASE \E c \in Callers : RequestStep(c)
    BY <1>1, <1>2, RequestDue
  <1>3. CASE \E r \in Runs : RunStep(r)
    BY <1>1, <1>3, RunDue
  <1>4. ASSUME NEW r \in Runs, ((Timers /\ TimerStep(r)) \/ Exit(r)) /\ UNCHANGED control
        PROVE  Due(d)'
    <2>1. UNCHANGED <<pc, dom, attempt, req>>
      BY <1>4 DEF TimerStep, TimerFires, ResetCount, Exit, control
    <2>2. QED
      BY <1>1, <2>1, StartGoesOn
  <1>5. QED
    BY <1>2, <1>3, <1>4 DEF Work

-----------------------------------------------------------------------------
(* The theorem about active rows.                                              *)

\* The pool stops nothing.
LEMMA PoolStopsNothing ==
  ASSUME LifeInv, Revived, phase # "up", Work
  PROVE  /\ \A c \in Callers : call'[c].at = "idle"
         /\ \A r \in Runs : ~stop'[r]
  <1>1. /\ TypeOK /\ \A c \in Callers : call[c].at = "idle"
        /\ \A r \in Runs : ~stop[r]
        /\ \A c \in Callers : req[c].at # "idle" => req[c].op = "boot"
    BY DEF LifeInv, ControlInv, ControlTypeOK, Revived, Unstopped, Reconciling, PoolOnly
  <1>2. CASE UNCHANGED <<call, stop>>
    BY <1>1, <1>2
  <1>3. ASSUME NEW c \in Callers, RequestStep(c) PROVE UNCHANGED <<call, stop>>
               \/ \E r \in Runs : StartClaims(c, r)
    <2>1. CASE CreateFailed(c) \/ StopProcess(c) \/ StopPut(c) \/ RestartPut(c)
               \/ DeleteIsRunning(c) \/ DeleteStop(c) \/ DeleteRow(c) \/ DeleteLog(c)
               \/ \E o \in Origins : ReplaceRoutes(c, o)
      BY <1>1, <2>1
      DEF CreateFailed, StopProcess, StopPut, RestartPut, DeleteIsRunning, DeleteStop, DeleteRow,
          DeleteLog, ReplaceRoutes, At
    <2>2. CASE OpenLog(c) \/ StartRefused(c)
      BY <2>2 DEF OpenLog, StartRefused, vars
    <2>3. CASE StopStep(c)
      BY <1>1, <2>3 DEF StopStep, StopMark, StopSignal
    <2>4. QED
      BY <1>3, <2>1, <2>2, <2>3 DEF RequestStep
  <1>4. ASSUME NEW c \in Callers, NEW r \in Runs, StartClaims(c, r)
        PROVE  UNCHANGED call /\ stop' = [stop EXCEPT ![r] = FALSE]
    BY <1>4 DEF StartClaims, Claim, Insert
  <1>5. ASSUME NEW r \in Runs, RunStep(r) PROVE UNCHANGED <<call, stop>> \/ Wait(r)
    BY <1>5
    DEF RunStep, StartSpawns, Spawn, StartFails, UndoClaim, EventGet, EventPut, Emitted, SpawnFails,
        Publish, KillAndWait, Arm, SuperviseStep, ObserveExit, CountFailure, Count, Release,
        Respawn, RespawnFails, Adopt, vars
  <1>6. ASSUME NEW r \in Runs, Wait(r)
        PROVE  UNCHANGED stop /\ \A c \in Callers : call'[c] = call[c]
    BY <1>1, <1>6 DEF Wait
  <1>7. ASSUME NEW r \in Runs, (Timers /\ TimerStep(r)) \/ Exit(r) PROVE UNCHANGED <<call, stop>>
    BY <1>7 DEF TimerStep, TimerFires, ResetCount, Exit
  <1>8. CASE \E c \in Callers, r \in Runs : StartClaims(c, r)
    BY <1>1, <1>4, <1>8 DEF TypeOK
  <1>9. CASE \E r \in Runs : Wait(r)
    BY <1>1, <1>6, <1>9
  <1>10. QED
    BY <1>2, <1>3, <1>5, <1>7, <1>8, <1>9 DEF Work

LEMMA ClaimsUnattempted ==
  ASSUME TypeOK, Unattempted, [Next]_vars PROVE Unattempted'
  <1> USE DEF TypeOK, Unattempted, Goto
  <1>1. ASSUME NEW r \in Runs, NEW d \in Domains, Claim(r, d) PROVE Unattempted'
    BY <1>1 DEF Claim, Insert
  <1>2. ASSUME NEW r \in Runs, StartStep(r) PROVE Unattempted'
    BY <1>2
    DEF StartStep, Spawn, SpawnFails, UndoClaim, Publish, KillAndWait, Arm, Emitted
  <1>3. ASSUME NEW r \in Runs, SuperviseStep(r) PROVE Unattempted'
    BY <1>3
    DEF SuperviseStep, Wait, ObserveExit, CountFailure, Count, Release, Respawn, RespawnFails, Adopt
  <1>4. CASE UNCHANGED <<pc, attempt>>
    BY <1>4
  <1>5. QED
    BY <1>1, <1>2, <1>3, <1>4
    DEF Next, TimerStep, TimerFires, ResetCount, Exit, StopLookup, StopStep, StopMark, StopSignal,
        vars

LEMMA InitRevived == LifeInit => Revived
  <1> SUFFICES ASSUME LifeInit PROVE Revived
    OBVIOUS
  <1>1. phase = "off" /\ Init
    BY DEF LifeInit, ControlInit
  <1>2. QED
    BY <1>1 DEF Init, Returned, Revived, ActiveReal, Unstopped, Unattempted

\* A step of Reconcile alone takes no active row what it had.
LEMMA OutsideReal ==
  ASSUME Revived, UNCHANGED <<vars, rows>>, NEW d \in ActiveDomains', phase # "off"
  PROVE  d \in ActiveDomains /\ (Real(d)' \/ (phase = "boot" /\ Due(d)))
  BY DEF Revived, ActiveReal, ActiveDomains, Real, Begun, vars

LEMMA BootRevived == ASSUME LifeInv, Revived, BootStep PROVE Revived'
  <1>1. CASE Boot
    <2>1. UNCHANGED allVars /\ \A d \in ActiveDomains : todo'[d] # NoRow
      BY <1>1 DEF Boot, ActiveDomains
    <2>2. Unstopped' /\ Unattempted'
      BY <1>1, <2>1 DEF Boot, Revived, Unstopped, Unattempted, allVars, vars
    <2>3. ActiveReal'
      BY <1>1, <2>1 DEF Boot, ActiveReal, ActiveDomains, Due, allVars, control
    <2>4. QED
      BY <2>2, <2>3 DEF Revived
  <1>2. ASSUME NEW c \in Callers, NEW e \in Domains, Take(c, e) PROVE Revived'
    <2>1. /\ phase = "boot" /\ phase' = "boot" /\ req[c].at = "idle"
          /\ todo' = [todo EXCEPT ![e] = NoRow] /\ UNCHANGED <<vars, rows>>
          /\ todo \in [Domains -> Row \cup {NoRow}]
          /\ req \in [Callers -> Requests]
      BY <1>2 DEF Take, LifeInv, LifeTypeOK, ControlInv, ControlTypeOK, Requests
    <2>2. Unstopped' /\ Unattempted'
      BY <2>1 DEF Revived, Unstopped, Unattempted, vars
    <2>3. ASSUME NEW d \in Domains, StartUnderWay(d) PROVE StartUnderWay(d)'
      BY <2>1, <2>3 DEF StartUnderWay, vars
    <2> DEFINE q == [op |-> "boot", at |-> "spawn", dom |-> e, row |-> todo[e], run |-> NoRun]
    <2>4. q.op = "boot" /\ q.at = "spawn" /\ q.dom = e
      OBVIOUS
    <2> HIDE DEF q
    <2>5. CASE req' = [req EXCEPT ![c] = q] /\ UNCHANGED failed
      <3>1. Spawning(e)'
        BY <2>1, <2>4, <2>5 DEF Spawning
      <3>2. ASSUME NEW d \in Domains, Due(d) PROVE Due(d)'
        <4>1. Spawning(d) => Spawning(d)'
          BY <2>1, <2>5 DEF Spawning
        <4>2. \A x \in Callers : At(x, "boot", "done") => req'[x] = req[x]
          BY <2>1, <2>5 DEF At
        <4>3. QED
          BY <2>1, <2>3, <2>5, <3>1, <3>2, <4>1, <4>2 DEF Due, At
      <3>3. QED
        BY <2>1, <2>2, <3>2, OutsideReal DEF Revived, ActiveReal, ActiveDomains
    <2>6. CASE Fail(e, todo[e]) /\ UNCHANGED req
      <3>1. failed'[e] # NoRow /\ \A d \in Domains : failed[d] # NoRow => failed'[d] # NoRow
        BY <1>2, <2>1, <2>6, FailedTyped DEF Take, LifeInv, LifeTypeOK, Reconciling
      <3>2. ASSUME NEW d \in Domains, Due(d) PROVE Due(d)'
        BY <2>1, <2>3, <2>6, <3>1, <3>2 DEF Due, Spawning, At
      <3>3. QED
        BY <2>1, <2>2, <3>2, OutsideReal DEF Revived, ActiveReal, ActiveDomains
    <2>7. QED
      BY <1>2, <2>5, <2>6 DEF Take, q
  <1>3. ASSUME NEW c \in Callers, Collect(c) PROVE Revived'
    <2>1. /\ phase' = phase /\ UNCHANGED <<vars, rows, todo>>
          /\ req' = [req EXCEPT ![c] = Idle(req[c].dom)]
          /\ req[c].op = "boot" /\ req[c].row \in Row /\ req[c].dom \in Domains
          /\ req \in [Callers -> Requests]
      BY <1>3 DEF Collect, Return, At, LifeInv, ControlInv, ControlTypeOK, RowRead, Requests
    <2>2. phase = "boot" \/ phase = "up" \/ phase = "off"
      BY DEF LifeInv, LifeTypeOK
    <2>3. Unstopped' /\ Unattempted'
      BY <2>1 DEF Revived, Unstopped, Unattempted, vars
    <2>4. /\ \A d \in Domains : failed[d] # NoRow => failed'[d] # NoRow
          /\ req[c].at = "failed" => failed'[req[c].dom] # NoRow
          /\ req[c].at \in {"done", "failed"}
          /\ req[c].at = "done" => ~StartUnderWay(req[c].dom)
      <3>1. CASE Fail(req[c].dom, req[c].row) /\ At(c, "boot", "failed")
        BY <2>1, <3>1, FailedTyped DEF At, LifeInv, LifeTypeOK, Reconciling
      <3>2. CASE At(c, "boot", "done") /\ ~StartUnderWay(req[c].dom) /\ UNCHANGED failed
        BY <3>2 DEF At
      <3>3. QED
        BY <1>3, <3>1, <3>2 DEF Collect
    <2>5. ASSUME NEW d \in Domains, Due(d) PROVE Due(d)'
      <3>1. CASE Spawning(d)
        <4>1. PICK x \in Callers : /\ req[x].op = "boot" /\ req[x].dom = d
                                  /\ req[x].at \in {"spawn", "start", "starting", "failed"}
          BY <3>1 DEF Spawning
        <4>2. CASE x = c
          BY <2>4, <4>1, <4>2 DEF Due
        <4>3. CASE x # c
          BY <2>1, <4>1, <4>3 DEF Due, Spawning
        <4>4. QED
          BY <4>2, <4>3
      <3>2. CASE StartUnderWay(d) /\ \E x \in Callers : At(x, "boot", "done") /\ req[x].dom = d
        <4>1. PICK x \in Callers : At(x, "boot", "done") /\ req[x].dom = d
          BY <3>2
        <4>2. x # c
          BY <2>4, <3>2, <4>1 DEF At
        <4>3. StartUnderWay(d)'
          BY <2>1, <3>2 DEF StartUnderWay, vars
        <4>4. QED
          BY <2>1, <4>1, <4>2, <4>3 DEF Due, At
      <3>3. QED
        BY <2>1, <2>4, <2>5, <3>1, <3>2 DEF Due
    <2>6. QED
      BY <2>1, <2>3, <2>5, OutsideReal DEF Revived, ActiveReal, ActiveDomains
  <1>4. CASE Save
    <2>1. /\ phase = "boot" /\ phase' = "up" /\ todo = Nothing /\ UNCHANGED <<vars, req>>
          /\ \A c \in Callers : req[c].op # "boot"
      BY <1>4 DEF Save
    <2>2. Unstopped' /\ Unattempted'
      BY <2>1 DEF Revived, Unstopped, Unattempted, vars
    <2>3. ASSUME NEW d \in ActiveDomains' PROVE Real(d)'
      <3>1. d \in Domains /\ rows'[d] # NoRow /\ rows'[d].status = "active"
        BY <2>3 DEF ActiveDomains
      <3>2. rows[d] # NoRow /\ (failed[d] = NoRow => rows'[d] = rows[d])
            /\ (failed[d] # NoRow => rows'[d] = failed[d])
        BY <1>4, <3>1 DEF Save
      <3>3. failed[d] = NoRow
        BY <3>1, <3>2 DEF LifeInv, Reconciling, FailedRows
      <3>4. d \in ActiveDomains /\ rows'[d] = rows[d] /\ todo[d] = NoRow
        BY <2>1, <3>1, <3>2, <3>3 DEF ActiveDomains, Nothing
      <3>5. ~Due(d)
        BY <2>1, <3>3, <3>4 DEF Due, Spawning, At
      <3>6. Real(d)
        BY <2>1, <3>4, <3>5 DEF Revived, ActiveReal
      <3>7. QED
        BY <2>1, <3>4, <3>6 DEF Real, Begun, vars
    <2>4. QED
      BY <2>2, <2>3 DEF Revived, ActiveReal
  <1>5. QED
    BY <1>1, <1>2, <1>3, <1>4 DEF BootStep

LEMMA ControlRevived ==
  ASSUME NoRestarts, LifeInv, Revived, UNCHANGED life, Work \/ (phase = "up" /\ Arrival)
  PROVE  Revived'
  <1>1. ControlNext /\ phase' = phase
    BY DEF ControlNext, life
  <1>2. Unattempted'
    BY <1>1, ControlStep, ClaimsUnattempted DEF LifeInv, ControlInv, ControlTypeOK, Revived
  <1>3. Unstopped'
    BY <1>1, PoolStopsNothing DEF Unstopped
  <1>4. ASSUME phase # "off", NEW d \in ActiveDomains'
        PROVE  Real(d)' \/ (phase = "boot" /\ Due(d)')
    <2>1. SameActive(d) \/ Real(d)'
      BY <1>1, <1>4, ControlReal DEF LifeInv
    <2>2. CASE SameActive(d)
      <3>1. Real(d) \/ (phase = "boot" /\ Due(d))
        BY <1>4, <2>2 DEF SameActive, Revived, ActiveReal
      <3>2. CASE phase = "boot" /\ Due(d)
        BY <1>4, <3>2, WorkDue
      <3>3. QED
        BY <2>2, <3>1, <3>2 DEF SameActive
    <2>3. QED
      BY <2>1, <2>2
  <1>5. QED
    BY <1>1, <1>2, <1>3, <1>4 DEF Revived, ActiveReal

LEMMA RevivedStep ==
  ASSUME NoRestarts, LifeInv, Revived, [LifeNext]_lifeVars PROVE Revived'
  <1>1. CASE BootStep
    BY <1>1, BootRevived
  <1>2. CASE Crash
    BY <1>2 DEF Crash, Forget, Returned, Revived, ActiveReal, Unstopped, Unattempted
  <1>3. CASE UNCHANGED <<allVars, phase, todo, failed>>
    <2>1. Unstopped' /\ Unattempted'
      BY <1>3 DEF Revived, Unstopped, Unattempted, allVars, vars
    <2>2. \A d \in Domains : Due(d) => Due(d)'
      BY <1>3 DEF Due, Spawning, StartUnderWay, At, allVars, vars, control
    <2>3. QED
      BY <1>3, <2>1, <2>2, OutsideReal DEF Revived, ActiveReal, ActiveDomains, allVars, control
  <1>4. CASE (Work \/ (phase = "up" /\ Arrival)) /\ UNCHANGED life
    BY <1>4, ControlRevived
  <1>5. QED
    BY <1>1, <1>2, <1>3, <1>4 DEF LifeNext, StrayExits, lifeVars, life

\* Whatever rows an earlier life left when it crashed, once the server listens an active
\* row at rest carries the pid of the process that is supervised for it in this life
\* (service.go:206-260, service.go:263-276, stop.go:10-20); as in DomainControl, without
\* restart requests.
THEOREM ActiveTrackedInAnyLife == NoRestarts /\ LifeSpec => [](phase = "up" => ActiveIsTracked)
  <1>1. LifeInv /\ Revived => (phase = "up" => ActiveIsTracked)
    <2> SUFFICES ASSUME LifeInv, Revived, phase = "up", NEW d \in Domains,
                        Quiet(d), Present(d), rows[d].status = "active"
                 PROVE  procs[d] # NoRun /\ rows[d].pid = procs[d]
      BY DEF ActiveIsTracked
    <2>1. d \in ActiveDomains
      BY DEF ActiveDomains, Present
    <2>2. Real(d)
      BY <2>1 DEF Revived, ActiveReal
    <2>3. rows[d].pid \in Runs
      BY <2>2 DEF LifeInv, ControlInv, ControlTypeOK, Row, Present, Real
    <2>4. pc[rows[d].pid] \in Owning /\ dom[rows[d].pid] = d
      BY <2>2, <2>3 DEF Real, Begun, Owning, Quiet
    <2>5. QED
      BY <2>2, <2>3, <2>4 DEF LifeInv, ControlInv, Inv, Entries, Real
  <1>2. CASE NoRestarts
    <2>1. LifeInit => Revived
      BY InitRevived
    <2>2. LifeInv /\ Revived /\ [LifeNext]_lifeVars => Revived'
      BY <1>2, RevivedStep
    <2>3. QED
      BY <1>1, <2>1, <2>2, LifeInvariance, PTL DEF LifeSpec
  <1>3. QED
    BY <1>2

=============================================================================
