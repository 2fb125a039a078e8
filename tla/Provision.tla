------------------------------- MODULE Provision -------------------------------
(***************************************************************************)
(* internal/services/domain/create.go: CreateDomain reserves a tunnel and  *)
(* a DNS record at Cloudflare, a snapshot in the local proxy and a metrics *)
(* port, inserts the row last, and undoes what it did when a step fails.   *)
(* No lock covers it: several creations and deletions run side by side.    *)
(* What follows the insert (spawn, events) is in DomainControl.            *)
(***************************************************************************)
EXTENDS Integers, SequencesExt

CONSTANTS
  Ids,          \* domain ids; each is one call of CreateDomain
  Hosts,        \* hostnames, normalised
  FirstPort, LastPort,   \* the range of the port allocator
  NoRow,
  FaultSets     \* what may go wrong in a behaviour: sets of AllFaults

AllFaults == {"call",    \* a call to Cloudflare fails
              "token",   \* the tunnel is created, reading its token fails
              "undo",    \* a compensating call fails (e.g. a cancelled context)
              "db",      \* a statement fails
              "gone",    \* clients disconnect, which cancels the context of their request
              "crash"}   \* the backend stops and starts again

ASSUME PortsAssumption  == FirstPort \in Nat /\ LastPort \in Nat
ASSUME FaultsAssumption == FaultSets \subseteq SUBSET AllFaults

Ports == FirstPort .. LastPort
ASSUME NoRowAssumption   == NoRow \notin [host : Hosts, port : Ports]

VARIABLES
  pc,         \* where the request working on an id is
  host,       \* the hostname asked for
  port,       \* the port allocated, 0 before
  reverts,    \* revertFuncs
  tunnels,    \* at Cloudflare: ids whose tunnel exists
  records,    \* at Cloudflare: ids whose DNS record exists
  snapshots,  \* ids with an entry in the local proxy
  rows,       \* domains table: id -> [host, port] or NoRow
  gone,       \* ids whose request has lost its client
  faults      \* what may go wrong in this behaviour; never changes

vars == <<pc, host, port, reverts, tunnels, records, snapshots, rows, gone, faults>>

TypeOK ==
  /\ pc \in [Ids -> {"new", "tunnel", "token", "snapshot", "ingress", "dns", "port",
                     "insert", "live", "undo", "failed", "deldns",
                     "deltunnel", "delsnapshot", "delrow", "deleted", "kept"}]
  /\ host \in [Ids -> Hosts]
  /\ port \in [Ids -> Ports \cup {0}]
  /\ reverts \in [Ids -> {<<>>, <<"tunnel">>, <<"tunnel", "snapshot">>,
                          <<"tunnel", "snapshot", "dns">>}]
  /\ tunnels \subseteq Ids /\ records \subseteq Ids /\ snapshots \subseteq Ids
  /\ gone \subseteq Ids
  /\ rows \in [Ids -> [host : Hosts, port : Ports] \cup {NoRow}]
  /\ faults \in FaultSets

Init ==
  /\ pc = [d \in Ids |-> "new"]
  /\ host \in [Ids -> Hosts]
  /\ port = [d \in Ids |-> 0]
  /\ reverts = [d \in Ids |-> <<>>]
  /\ tunnels = {} /\ records = {} /\ snapshots = {}
  /\ rows = [d \in Ids |-> NoRow]
  /\ gone = {}
  /\ faults \in FaultSets

Goto(d, from, to) ==
  /\ pc[d] = from
  /\ pc' = [pc EXCEPT ![d] = to]

Push(d, f) == reverts' = [reverts EXCEPT ![d] = Append(@, f)]

Live      == {d \in Ids : rows[d] # NoRow}
HostTaken(h) == \E d \in Live : rows[d].host = h

\* Every call to Cloudflare and every statement gets the context of the request.
Fails(d, fault) == fault \in faults \/ d \in gone

(***************************************************************************)
(* CreateDomain                                                            *)
(***************************************************************************)

\* ListZones, validateZoneHostname and normalizeRoutes, which stand around CheckHost: the
\* call fails, the hostname is in no active zone of the account, or the routes are refused.
Refuse(d) ==
  /\ Goto(d, "new", "failed")
  /\ UNCHANGED <<host, port, reverts, tunnels, records, snapshots, rows>>

\* GetByHostname; its errors are ignored, so a failing query finds nothing.
CheckHost(d) ==
  /\ \/ Goto(d, "new", "failed") /\ HostTaken(host[d])
     \/ Goto(d, "new", "tunnel") /\ (~HostTaken(host[d]) \/ Fails(d, "db"))
  /\ UNCHANGED <<host, port, reverts, tunnels, records, snapshots, rows>>

\* CreateTunnel makes two calls; it is reverted only when both succeed.
NewTunnel(d) ==
  /\ d \notin gone
  /\ Goto(d, "tunnel", "token")
  /\ tunnels' = tunnels \cup {d}
  /\ UNCHANGED <<host, port, reverts, records, snapshots, rows>>

GetToken(d) ==
  /\ d \notin gone
  /\ Goto(d, "token", "snapshot")
  /\ Push(d, "tunnel")
  /\ UNCHANGED <<host, port, tunnels, records, snapshots, rows>>

GetTokenFails(d) ==
  /\ Fails(d, "token")
  /\ Goto(d, "token", "undo")
  /\ UNCHANGED <<host, port, reverts, tunnels, records, snapshots, rows>>

\* Mutant: the snapshot is installed and no revert is registered for it.
SnapshotForgotten(d) ==
  /\ Goto(d, "snapshot", "ingress")
  /\ snapshots' = snapshots \cup {d}
  /\ UNCHANGED <<host, port, reverts, tunnels, records, rows>>

\* proxy.CommitDomain
Snapshot(d) ==
  /\ Goto(d, "snapshot", "ingress")
  /\ snapshots' = snapshots \cup {d}
  /\ Push(d, "snapshot")
  /\ UNCHANGED <<host, port, tunnels, records, rows>>

\* ... rejects an origin that is the proxy itself.
SnapshotFails(d) ==
  /\ Goto(d, "snapshot", "undo")
  /\ UNCHANGED <<host, port, reverts, tunnels, records, snapshots, rows>>

PutIngress(d) ==
  /\ d \notin gone
  /\ Goto(d, "ingress", "dns")
  /\ UNCHANGED <<host, port, reverts, tunnels, records, snapshots, rows>>

NewRecord(d) ==
  /\ d \notin gone
  /\ Goto(d, "dns", "port")
  /\ records' = records \cup {d}
  /\ Push(d, "dns")
  /\ UNCHANGED <<host, port, tunnels, snapshots, rows>>

\* Mutant: an error of CreateDNSRecord is ignored.
CallIgnored(d) ==
  /\ Fails(d, "call")
  /\ \/ Goto(d, "tunnel", "undo") \/ Goto(d, "ingress", "undo") \/ Goto(d, "dns", "port")
  /\ UNCHANGED <<host, port, reverts, tunnels, records, snapshots, rows>>

CallFails(d) ==
  /\ Fails(d, "call")
  /\ \/ Goto(d, "tunnel", "undo") \/ Goto(d, "ingress", "undo") \/ Goto(d, "dns", "undo")
  /\ UNCHANGED <<host, port, reverts, tunnels, records, snapshots, rows>>

\* The client leaves while Cloudflare works: the record is made and the call fails.
\* (The same at CreateTunnel is GetTokenFails.)
NewRecordCut(d) ==
  /\ d \in gone
  /\ Goto(d, "dns", "undo")
  /\ records' = records \cup {d}
  /\ UNCHANGED <<host, port, reverts, tunnels, snapshots, rows>>

\* ListTakenPorts and Allocate: the first port no row has.
FreePorts == Ports \ {rows[d].port : d \in Live}

AllocatePort(d) ==
  /\ d \notin gone
  /\ Goto(d, "port", "insert")
  /\ \E p \in FreePorts :
       (\A q \in FreePorts : p <= q) /\ port' = [port EXCEPT ![d] = p]
  /\ UNCHANGED <<host, reverts, tunnels, records, snapshots, rows>>

PortFails(d) ==
  /\ FreePorts = {} \/ Fails(d, "db")
  /\ Goto(d, "port", "undo")
  /\ UNCHANGED <<host, port, reverts, tunnels, records, snapshots, rows>>

\* The row and its routes in one transaction; hostname is UNIQUE, the port is not.
Insert(d) ==
  /\ ~HostTaken(host[d]) /\ d \notin gone
  /\ Goto(d, "insert", "live")
  /\ rows' = [rows EXCEPT ![d] = [host |-> host[d], port |-> port[d]]]
  /\ reverts' = [reverts EXCEPT ![d] = <<>>]
  /\ UNCHANGED <<host, port, tunnels, records, snapshots>>

InsertFails(d) ==
  /\ HostTaken(host[d]) \/ Fails(d, "db")
  /\ Goto(d, "insert", "undo")
  /\ UNCHANGED <<host, port, reverts, tunnels, records, snapshots, rows>>

\* The deferred reverts, last registered first; their errors are ignored, and those of
\* a request without client all fail, except for the proxy's.
RevertStep(d, f, done) ==
  /\ tunnels'   = IF f = "tunnel" /\ done THEN tunnels \ {d} ELSE tunnels
  /\ records'   = IF f = "dns" /\ done THEN records \ {d} ELSE records
  /\ snapshots' = IF f = "snapshot" THEN snapshots \ {d} ELSE snapshots

\* Mutant: first registered, first reverted.
RevertInOrder(d) ==
  /\ pc[d] = "undo" /\ reverts[d] # <<>>
  /\ RevertStep(d, Head(reverts[d]), TRUE)
  /\ reverts' = [reverts EXCEPT ![d] = Tail(@)]
  /\ UNCHANGED <<pc, host, port, rows>>

Revert(d) ==
  /\ pc[d] = "undo" /\ reverts[d] # <<>>
  /\ \/ d \notin gone /\ RevertStep(d, Last(reverts[d]), TRUE)
     \/ Fails(d, "undo") /\ RevertStep(d, Last(reverts[d]), FALSE)
  /\ reverts' = [reverts EXCEPT ![d] = Front(@)]
  /\ UNCHANGED <<pc, host, port, rows>>

Reverted(d) ==
  /\ reverts[d] = <<>>
  /\ Goto(d, "undo", "failed")
  /\ UNCHANGED <<host, port, reverts, tunnels, records, snapshots, rows>>

(***************************************************************************)
(* DeleteDomain: best effort at Cloudflare, then the proxy, then the row   *)
(***************************************************************************)
BeginDelete(d) ==
  /\ Goto(d, "live", "deldns") \/ Goto(d, "kept", "deldns")
  /\ gone' = gone \ {d}
  /\ UNCHANGED <<host, port, reverts, tunnels, records, snapshots, rows>>

DeleteRecord(d) ==
  /\ Goto(d, "deldns", "deltunnel")
  /\ \/ d \notin gone /\ records' = records \ {d}
     \/ Fails(d, "call") /\ UNCHANGED records
  /\ UNCHANGED <<host, port, reverts, tunnels, snapshots, rows>>

DeleteTunnel(d) ==
  /\ Goto(d, "deltunnel", "delsnapshot")
  /\ \/ d \notin gone /\ tunnels' = tunnels \ {d}
     \/ Fails(d, "call") /\ UNCHANGED tunnels
  /\ UNCHANGED <<host, port, reverts, records, snapshots, rows>>

RemoveSnapshot(d) ==
  /\ Goto(d, "delsnapshot", "delrow")
  /\ snapshots' = snapshots \ {d}
  /\ UNCHANGED <<host, port, reverts, tunnels, records, rows>>

\* The row stays when the statement fails, with its snapshot restored.
DeleteRow(d) ==
  \/ /\ d \notin gone
     /\ Goto(d, "delrow", "deleted")
     /\ rows' = [rows EXCEPT ![d] = NoRow]
     /\ UNCHANGED <<host, port, reverts, tunnels, records, snapshots>>
  \/ /\ Fails(d, "db")
     /\ Goto(d, "delrow", "kept")
     /\ snapshots' = snapshots \cup {d}
     /\ UNCHANGED <<host, port, reverts, tunnels, records, rows>>

(***************************************************************************)
(* A crash: requests are gone, the proxy is hydrated from the rows.        *)
(***************************************************************************)
Crash ==
  /\ "crash" \in faults
  /\ pc' = [d \in Ids |-> IF pc[d] \in {"new", "live", "deleted"} THEN pc[d]
                          ELSE IF rows[d] # NoRow THEN "kept" ELSE "failed"]
  /\ reverts'   = [d \in Ids |-> <<>>]
  /\ snapshots' = Live
  /\ UNCHANGED <<host, port, tunnels, records, rows>>

\* A client closes its connection; nothing detaches the request from it.
ClientGone(d) ==
  /\ "gone" \in faults
  /\ pc[d] \notin {"new", "live", "failed", "deleted", "kept"}
  /\ gone' = gone \cup {d}
  /\ UNCHANGED <<pc, host, port, reverts, tunnels, records, snapshots, rows>>

-----------------------------------------------------------------------------
CreateStep(d) ==
  /\ \/ NewTunnel(d) \/ GetToken(d) \/ GetTokenFails(d)
     \/ Snapshot(d) \/ SnapshotFails(d) \/ PutIngress(d) \/ NewRecord(d) \/ NewRecordCut(d) \/ CallFails(d)
     \/ AllocatePort(d) \/ PortFails(d) \/ Insert(d) \/ InsertFails(d)
     \/ Revert(d) \/ Reverted(d)
  /\ UNCHANGED <<gone, faults>>

DeleteStep(d) ==
  /\ DeleteRecord(d) \/ DeleteTunnel(d) \/ RemoveSnapshot(d) \/ DeleteRow(d)
  /\ UNCHANGED <<gone, faults>>

Next ==
  \/ \E d \in Ids : CreateStep(d) \/ DeleteStep(d)
  \/ \E d \in Ids : (CheckHost(d) \/ Refuse(d)) /\ UNCHANGED <<gone, faults>>
  \/ \E d \in Ids : (BeginDelete(d) \/ ClientGone(d)) /\ UNCHANGED faults
  \/ Crash /\ UNCHANGED <<gone, faults>>

Spec == Init /\ [][Next]_vars

-----------------------------------------------------------------------------
(***************************************************************************)
(* Properties                                                              *)
(***************************************************************************)

\* A domain of the table that nobody deletes has its tunnel, its DNS record and its
\* snapshot, whatever failed in its creation or in that of another domain; and one that
\* could not be deleted is still routed (create.go:16-23, delete.go:34-37).
RowIsComplete ==
  \A d \in Live :
    /\ pc[d] = "live" => d \in tunnels \cap records
    /\ pc[d] \in {"live", "kept"} => d \in snapshots

\* A creation that failed leaves nothing behind, whatever other creations and
\* deletions of the same hostname do meanwhile (create.go:16-23, 50-69): never a
\* snapshot, under any failure, and nothing at Cloudflare unless a compensation or the
\* token failed, the backend crashed or the client left.
FailedLeavesNothing ==
  \A d \in Ids :
    /\ pc[d] \in {"failed", "deleted"} => d \notin snapshots
    /\ pc[d] = "failed" /\ faults \subseteq {"call", "db", "gone"} /\ d \notin gone
       => d \notin tunnels \cup records

NothingLeft ==
  \A d \in Ids : pc[d] = "failed" => d \notin tunnels \cup records \cup snapshots

\* Design document: "if any of steps 2-4 fails, undo whatever Cloudflare-side state
\* was already created".  Step 2 is two calls, and the second failing is not undone; and the
\* compensations of a request whose client left use its cancelled context.
RollbackUndoesAll == NothingLeft

\* Design document: "per-domain metrics/logs are separated from the start".  Two
\* creations list the taken ports before either row is inserted.
PortsAreDistinct ==
  \A d1, d2 \in Live : rows[d1].port = rows[d2].port => d1 = d2

\* Design document: "deleting or misconfiguring one domain cannot break another".
\* A second creation for the hostname of a live domain, destined to fail, puts its
\* own routes under that hostname in the proxy.
HostServedByOwner ==
  \A d \in Live : \A e \in snapshots : host[e] = rows[d].host => e = d

=============================================================================
