-------------------------------- MODULE Streams --------------------------------
(***************************************************************************)
(* The two event streams of the API.  The list stream (notify.go,          *)
(* stream.go) sends the domains after every mutation, the detail stream    *)
(* (detail_stream.go, logbuf.go) the log of one domain after every line.   *)
(* Both are woken through a channel of capacity one that says only "look   *)
(* again"; nothing waits for a slow client.                                *)
(*                                                                         *)
(* The detail stream is modelled for one domain, with its log buffer, the  *)
(* output of its process and its deletion.                                 *)
(***************************************************************************)
EXTENDS Integers, SequencesExt

CONSTANTS
  Writers,     \* requests and events that change the domains table
  Deleter,     \* the writer that deletes the domain
  Viewers,     \* clients of the list stream
  Readers,     \* clients of the detail stream
  Buffers,     \* pool of logbuf.Buffer records
  NoBuffer,
  Capacity,    \* lines kept in a buffer
  MaxVersion,  \* bound: mutations
  MaxPieces    \* bound: pieces of output

ASSUME DeleterAssumption  == Deleter \in Writers
ASSUME ClientsAssumption  == Viewers \cap Readers = {}
ASSUME CapacityAssumption == Capacity \in Nat \ {0}
ASSUME NoBufferAssumption == NoBuffer \notin Buffers
ASSUME BoundsAssumption   == {MaxVersion, MaxPieces} \subseteq Nat

VARIABLES
  version,   \* the domains table: how many mutations were committed
  writer,    \* a writer: idle, or about to publish; the deleter has more to do
  subs,      \* subscribers: viewers of the service, readers of their buffer
  signal,    \* clients whose channel holds a signal
  view,      \* a viewer: where it is, the version of the rows and of the routes it read
  exists,    \* the domain's row is there
  logs,      \* domainService.logs[id]
  buf,       \* the buffers
  dropped,   \* the buffer that the deletion has taken from the map and will close
  proc,      \* the buffer that the process writes to
  written,   \* pieces of output so far
  reader     \* a reader: where it is, its buffer, the one it reads, the lines it has sent

vars == <<version, writer, subs, signal, view, exists, logs, dropped, buf, proc, written, reader>>
listVars == <<version, writer, view>>
logState == <<exists, logs, dropped, buf, proc, written>>
logVars  == <<logState, reader>>

Fresh == [state |-> "free", lines |-> <<>>, partial |-> <<>>]
Off    == [at |-> "off", rows |-> 0, routes |-> 0]
LogOff == [at |-> "off", buffer |-> NoBuffer, source |-> NoBuffer, shown |-> <<>>]

TypeOK ==
  /\ version \in 0 .. MaxVersion
  /\ writer \in [Writers -> {"idle", "publish", "drop", "close"}]
  /\ subs \subseteq Viewers \cup Readers
  /\ signal \subseteq subs
  /\ view \in [Viewers -> [at : {"off", "list", "routes", "wait"},
                         rows : 0 .. MaxVersion, routes : 0 .. MaxVersion]]
  /\ exists \in BOOLEAN
  /\ {logs, dropped} \subseteq Buffers \cup {NoBuffer}
  /\ buf \in [Buffers -> [state : {"free", "open", "closed"},
                          lines : Seq(Seq(Nat)), partial : Seq(Nat)]]
  /\ \A b \in Buffers : Len(buf[b].lines) <= Capacity
  /\ proc \in Buffers \cup {NoBuffer}
  /\ written \in 0 .. MaxPieces
  /\ reader \in [Readers -> [at : {"off", "open", "attach", "send", "wait", "get", "lookup", "lines"},
                             buffer : Buffers \cup {NoBuffer}, source : Buffers \cup {NoBuffer},
                             shown : Seq(Seq(Nat))]]

Init ==
  /\ version = 0 /\ subs = {} /\ signal = {}
  /\ writer = [w \in Writers |-> "idle"]
  /\ view = [v \in Viewers |-> Off]
  /\ exists = TRUE /\ logs = NoBuffer /\ dropped = NoBuffer /\ proc = NoBuffer /\ written = 0
  /\ buf = [b \in Buffers |-> Fresh]
  /\ reader = [r \in Readers |-> LogOff]

(***************************************************************************)
(* Mutations: repo.Create, Update, UpdateBulk, ReplaceRoutes, then publish *)
(***************************************************************************)
Commit(w) ==
  /\ w # Deleter /\ writer[w] = "idle" /\ version < MaxVersion
  /\ version' = version + 1
  /\ writer' = [writer EXCEPT ![w] = "publish"]
  /\ UNCHANGED <<subs, signal, view, logVars>>

\* Mutant: channels without capacity; only a client in select gets the signal.
PublishUnbuffered(w) ==
  /\ writer[w] = "publish"
  /\ signal' = signal \cup {v \in subs \cap Viewers : view[v].at = "wait"}
  /\ writer' = [writer EXCEPT ![w] = IF w = Deleter THEN "drop" ELSE "idle"]
  /\ UNCHANGED <<version, subs, view, logVars>>

\* Under subscriberMu; a full channel is passed over.
Publish(w) ==
  /\ writer[w] = "publish"
  /\ signal' = signal \cup (subs \cap Viewers)
  /\ writer' = [writer EXCEPT ![w] = IF w = Deleter THEN "drop" ELSE "idle"]
  /\ UNCHANGED <<version, subs, view, logVars>>

(***************************************************************************)
(* streamDomains                                                           *)
(***************************************************************************)

\* Before the first query.
Subscribe(v) ==
  /\ view[v].at = "off"
  /\ view' = [view EXCEPT ![v].at = "list"]
  /\ subs' = subs \cup {v}
  /\ UNCHANGED <<version, writer, signal, logVars>>

\* ListDomains: one query for the rows,
List(v) ==
  /\ view[v].at = "list"
  /\ view' = [view EXCEPT ![v].at = "routes", ![v].rows = version]
  /\ UNCHANGED <<version, writer, subs, signal, logVars>>

\* one for their routes, and the event.
ListRoutes(v) ==
  /\ view[v].at = "routes"
  /\ view' = [view EXCEPT ![v].at = "wait", ![v].routes = version]
  /\ UNCHANGED <<version, writer, subs, signal, logVars>>

Take(v) ==
  /\ view[v].at = "wait" /\ v \in signal
  /\ view' = [view EXCEPT ![v].at = "list"]
  /\ signal' = signal \ {v}
  /\ UNCHANGED <<version, writer, subs, logVars>>

\* The deferred cancel().
Cancel(c) == subs' = subs \ {c} /\ signal' = signal \ {c}

\* The client goes away, or a query fails; the handler returns.
Disconnect(v) ==
  /\ view[v].at # "off"
  /\ view' = [view EXCEPT ![v] = Off]
  /\ Cancel(v)
  /\ UNCHANGED <<version, writer, logVars>>

(***************************************************************************)
(* The log buffer                                                          *)
(***************************************************************************)

\* logBuffer: the one in the map, or a new one.
GetBuffer(b) ==
  IF logs # NoBuffer THEN b = logs /\ UNCHANGED <<logs, buf>>
  ELSE /\ buf[b].state = "free"
       /\ logs' = b
       /\ buf' = [buf EXCEPT ![b].state = "open"]

\* spawn connects the output of the process to the buffer; CreateDomain does so
\* without the lock, so the row may be gone.  One process of the domain is modelled.
Spawn(b) ==
  /\ proc = NoBuffer /\ written = 0
  /\ GetBuffer(b)
  /\ proc' = b
  /\ UNCHANGED <<listVars, subs, signal, exists, dropped, written, reader>>

\* Mutants: the buffer keeps its first lines, or one line too many.
FirstLines(lines) == SubSeq(lines, 1, Min({Len(lines), Capacity}))
OneLineMore(lines) == SubSeq(lines, Max({1, Len(lines) - Capacity}), Len(lines))

LastLines(lines) == SubSeq(lines, Max({1, Len(lines) - Capacity + 1}), Len(lines))

\* Mutant: without capacity, a client that is not in its select misses the signal.
AttachedWaiting(b) == {r \in subs \cap Readers : reader[r].buffer = b /\ reader[r].at = "wait"}

Attached(b) == {r \in subs \cap Readers : reader[r].buffer = b}

\* A write of n pieces with newlines between them, and one at the end if ended.
\* The first piece continues the partial line.
Pieces(n)     == [i \in 1 .. n |-> <<written + i>>]
Joined(b, n)  == [Pieces(n) EXCEPT ![1] = buf[b].partial \o @]

\* After Close the file refuses the flush, and the copying of the output ends.
Write(n, ended) ==
  LET b     == proc
      all   == Joined(b, n)
      full  == IF ended THEN all ELSE Front(all)
  IN
  /\ b # NoBuffer /\ written + n <= MaxPieces
  /\ written' = written + n
  /\ \/ /\ buf[b].state = "open"
        /\ buf' = [buf EXCEPT ![b].lines = LastLines(@ \o full),
                              ![b].partial = IF ended THEN <<>> ELSE Last(all)]
        /\ signal' = IF full = <<>> THEN signal ELSE signal \cup Attached(b)
        /\ UNCHANGED proc
     \/ buf[b].state = "closed" /\ proc' = NoBuffer /\ UNCHANGED <<buf, signal>>
  /\ UNCHANGED <<listVars, subs, exists, logs, dropped, reader>>

(***************************************************************************)
(* streamDomainDetail                                                      *)
(***************************************************************************)
Go(r, at) == reader' = [reader EXCEPT ![r].at = at]

\* SubscribeLogs: repo.Get finds the row,
SubscribeGet(r) ==
  /\ reader[r].at = "off" /\ exists
  /\ Go(r, "open")
  /\ UNCHANGED <<listVars, subs, signal, logState>>

\* logBuffer gives the buffer, or a new one,
OpenBuffer(r, b) ==
  /\ reader[r].at = "open"
  /\ GetBuffer(b)
  /\ reader' = [reader EXCEPT ![r].at = "attach", ![r].buffer = b]
  /\ UNCHANGED <<listVars, subs, signal, exists, dropped, proc, written>>

\* and SnapshotAndSubscribe does both under b.mu.
Attach(r) ==
  /\ reader[r].at = "attach"
  /\ subs' = subs \cup {r}
  /\ reader' = [reader EXCEPT ![r].at = "send", ![r].shown = buf[reader[r].buffer].lines]
  /\ UNCHANGED <<listVars, signal, logState>>

\* The event with the lines read is written, and the handler selects again.
Send(r) ==
  /\ reader[r].at = "send"
  /\ Go(r, "wait")
  /\ UNCHANGED <<listVars, subs, signal, logState>>

TakeLog(r) ==
  /\ reader[r].at = "wait" /\ r \in signal
  /\ signal' = signal \ {r}
  /\ Go(r, "get")
  /\ UNCHANGED <<listVars, subs, logState>>

\* Logs: the row, then the map under s.mu, then Lines under b.mu.
LogsGet(r) ==
  /\ reader[r].at = "get"
  /\ \/ exists /\ Go(r, "lookup") /\ UNCHANGED <<subs, signal>>
     \/ ~exists /\ reader' = [reader EXCEPT ![r] = LogOff] /\ Cancel(r)
  /\ UNCHANGED <<listVars, logState>>

LogsLookup(r) ==
  /\ reader[r].at = "lookup"
  /\ reader' = [reader EXCEPT ![r].at = IF logs = NoBuffer THEN "send" ELSE "lines",
                              ![r].shown = IF logs = NoBuffer THEN <<>> ELSE @,
                              ![r].source = logs]
  /\ UNCHANGED <<listVars, subs, signal, logState>>

LogsRead(r) ==
  /\ reader[r].at = "lines"
  /\ reader' = [reader EXCEPT ![r].at = "send", ![r].shown = buf[reader[r].source].lines,
                              ![r].source = NoBuffer]
  /\ UNCHANGED <<listVars, subs, signal, logState>>

DisconnectLog(r) ==
  /\ reader[r].at \in {"open", "send", "wait", "get"}
  /\ reader' = [reader EXCEPT ![r] = LogOff]
  /\ Cancel(r)
  /\ UNCHANGED <<listVars, logState>>

(***************************************************************************)
(* DeleteDomain, from the deletion of the row on                           *)
(***************************************************************************)
DeleteRow ==
  /\ writer[Deleter] = "idle" /\ exists /\ version < MaxVersion
  /\ exists' = FALSE
  /\ version' = version + 1
  /\ writer' = [writer EXCEPT ![Deleter] = "publish"]
  /\ UNCHANGED <<subs, signal, view, logs, dropped, buf, proc, written, reader>>

\* Publish is followed by the removal of the buffer from the map,
DropBuffer ==
  /\ writer[Deleter] = "drop"
  /\ logs' = NoBuffer
  /\ dropped' = logs
  /\ writer' = [writer EXCEPT ![Deleter] = "close"]
  /\ UNCHANGED <<version, subs, signal, view, exists, buf, proc, written, reader>>

\* and its Close.
CloseBuffer ==
  /\ writer[Deleter] = "close"
  /\ buf' = [b \in Buffers |-> IF b = dropped THEN [buf[b] EXCEPT !.state = "closed"] ELSE buf[b]]
  /\ dropped' = NoBuffer
  /\ writer' = [writer EXCEPT ![Deleter] = "idle"]
  /\ UNCHANGED <<version, subs, signal, view, exists, logs, proc, written, reader>>
Next ==
  \/ \E w \in Writers : Commit(w) \/ Publish(w)
  \/ \E v \in Viewers : Subscribe(v) \/ List(v) \/ ListRoutes(v) \/ Take(v) \/ Disconnect(v)
  \/ \E b \in Buffers : Spawn(b)
  \/ \E n \in 1 .. 2, ended \in BOOLEAN : Write(n, ended)
  \/ \E r \in Readers : \/ SubscribeGet(r) \/ Attach(r) \/ Send(r) \/ TakeLog(r) \/ LogsGet(r)
                        \/ LogsLookup(r) \/ LogsRead(r) \/ DisconnectLog(r)
                        \/ \E b \in Buffers : OpenBuffer(r, b)
  \/ DeleteRow \/ DropBuffer \/ CloseBuffer

Spec == Init /\ [][Next]_vars

\* Go runs every handler that can run, and a select takes a signal that stays there;
\* clients, mutations and output owe nothing.
FairSpec ==
  /\ Spec
  /\ \A w \in Writers : WF_vars(Publish(w))
  /\ \A v \in Viewers : WF_vars(List(v) \/ ListRoutes(v) \/ Take(v))
  /\ \A r \in Readers : WF_vars(\/ Attach(r) \/ Send(r) \/ TakeLog(r)
                                   \/ LogsGet(r) \/ LogsLookup(r) \/ LogsRead(r))

(***************************************************************************)
(* Properties                                                              *)
(***************************************************************************)

\* A client of the list stream that waits with an old snapshot, or one whose rows and
\* routes are of different versions, has a signal, or will get one from a mutation that
\* is committed and not yet published.
NoChangeMissed ==
  \A v \in Viewers :
    view[v].at = "wait" /\ (view[v].rows # version \/ view[v].routes # version)
      => v \in signal \/ \E w \in Writers : writer[w] = "publish"

\* A client of the detail stream that waits with other lines than its buffer holds has
\* a signal, as long as the buffer is the domain's.
NoLineMissed ==
  \A r \in Readers :
    reader[r].at = "wait" /\ reader[r].buffer = logs /\ reader[r].shown # buf[logs].lines
      => r \in signal

\* The lines of the buffer and its partial line are the last pieces of the output, in
\* order, none of them lost or doubled; and all of it if the buffer is not full.
Output(b) == FlattenSeq(buf[b].lines) \o buf[b].partial
LogIsTail ==
  proc # NoBuffer /\ buf[proc].state = "open" =>
    LET out == Output(proc) IN
    /\ \A i \in DOMAIN out : out[i] = written - Len(out) + i
    /\ Len(buf[proc].lines) < Capacity => Len(out) = written

\* Every mutation reaches every connected client of the list stream.
ViewersConverge ==
  \A v \in Viewers : \A n \in 1 .. MaxVersion :
    view[v].at # "off" /\ version >= n
      ~> view[v].at = "off" \/ (view[v].rows >= n /\ view[v].routes >= n)

\* Every complete line of the domain's buffer, or a later one, reaches every client of
\* the detail stream.
Newest(lines) == IF lines = <<>> THEN 0 ELSE Last(Last(lines))
ReadersConverge ==
  \A r \in Readers : \A n \in 1 .. MaxPieces :
    reader[r].at = "wait" /\ reader[r].buffer = logs /\ Newest(buf[logs].lines) >= n
      ~> reader[r].at = "off" \/ reader[r].buffer # logs \/ Newest(reader[r].shown) >= n

=============================================================================
