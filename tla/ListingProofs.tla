----------------------------- MODULE ListingProofs -----------------------------
(* Theorems about Provision, for any ids, hostnames, ports and faults, and     *)
(* about Listing, which extends it, for any table, page size, cursor, filter.  *)
EXTENDS Listing, SequenceTheorems, FiniteSetTheorems, TLAPS

-----------------------------------------------------------------------------
(* Provision.                                                                  *)

\* The reverts registered, one after the other.
None     == <<>>
Tunnel   == <<"tunnel">>
Snap     == <<"tunnel", "snapshot">>
Complete == <<"tunnel", "snapshot", "dns">>

Registered(d) ==
  /\ pc[d] = "snapshot" => reverts[d] = Tunnel
  /\ pc[d] \in {"ingress", "dns"} => reverts[d] = Snap
  /\ pc[d] \in {"port", "insert"} => reverts[d] = Complete
  /\ pc[d] \notin {"snapshot", "ingress", "dns", "port", "insert", "undo"} => reverts[d] = None

\* What a request that is past a step has.
Deleting == {"deldns", "deltunnel", "delsnapshot", "delrow"}

Has(d) ==
  /\ pc[d] \in {"token", "snapshot", "ingress", "dns", "port", "insert", "live"} => d \in tunnels
  /\ pc[d] \in {"ingress", "dns", "port", "insert", "live", "kept"} => d \in snapshots
  /\ pc[d] \in {"port", "insert", "live"} => d \in records
  /\ rows[d] # NoRow <=> pc[d] \in {"live", "kept"} \cup Deleting

\* What it has not; at Cloudflare only when every failure is compensated.
Lacks(d) ==
  /\ pc[d] \in {"new", "tunnel", "token", "snapshot", "failed", "delrow", "deleted"}
       => d \notin snapshots
  /\ pc[d] = "undo" /\ reverts[d] \in {None, Tunnel} => d \notin snapshots

Compensated(d) == faults \subseteq {"call", "db", "gone"} /\ d \notin gone

LacksRemote(d) ==
  Compensated(d) =>
    /\ pc[d] \in {"new", "tunnel", "failed"} => d \notin tunnels
    /\ pc[d] = "undo" /\ reverts[d] = None => d \notin tunnels
    /\ pc[d] \in {"new", "tunnel", "token", "snapshot", "ingress", "dns", "failed"}
         => d \notin records
    /\ pc[d] = "undo" /\ reverts[d] # Complete => d \notin records

PortKnown(d) == pc[d] = "insert" => port[d] \in Ports

Saga(d) == Registered(d) /\ Has(d) /\ Lacks(d) /\ LacksRemote(d) /\ PortKnown(d)

Inv == TypeOK /\ \A d \in Ids : Saga(d)

-----------------------------------------------------------------------------

Stacks == {None, Tunnel, Snap, Complete}

Kinds == {"tunnel", "snapshot", "dns"}

LEMMA Sequences == None \in Seq(Kinds) /\ Tunnel \in Seq(Kinds) /\ Snap \in Seq(Kinds)
                     /\ Complete \in Seq(Kinds)
  BY DEF None, Tunnel, Snap, Complete, Kinds

LEMMA Pushed ==
  /\ Append(None, "tunnel") = Tunnel
  /\ Append(Tunnel, "snapshot") = Snap
  /\ Append(Snap, "dns") = Complete
  <1>1. ASSUME NEW s \in Seq(Kinds), NEW e \in Kinds, NEW t \in Seq(Kinds),
               Len(t) = Len(s) + 1, \A i \in 1 .. Len(s) : t[i] = s[i], t[Len(s) + 1] = e
        PROVE  Append(s, e) = t
    <2>1. /\ Append(s, e) \in Seq(Kinds) /\ Len(Append(s, e)) = Len(s) + 1
          /\ \A i \in 1 .. Len(s) : Append(s, e)[i] = s[i]
          /\ Append(s, e)[Len(s) + 1] = e
      BY AppendProperties
    <2>2. Len(s) \in Nat
      BY LenProperties
    <2>3. \A i \in 1 .. Len(Append(s, e)) : Append(s, e)[i] = t[i]
      BY <1>1, <2>1, <2>2
    <2>4. QED
      BY <1>1, <2>1, <2>3, SeqEqual
  <1>2. Append(None, "tunnel") = Tunnel
    <2>1. Len(Tunnel) = Len(None) + 1 /\ (\A i \in 1 .. Len(None) : Tunnel[i] = None[i])
          /\ Tunnel[Len(None) + 1] = "tunnel"
      BY DEF None, Tunnel
    <2>2. QED
      BY <1>1, <2>1, Sequences DEF Kinds
  <1>3. Append(Tunnel, "snapshot") = Snap
    <2>1. Len(Snap) = Len(Tunnel) + 1 /\ (\A i \in 1 .. Len(Tunnel) : Snap[i] = Tunnel[i])
          /\ Snap[Len(Tunnel) + 1] = "snapshot"
      BY DEF Snap, Tunnel
    <2>2. QED
      BY <1>1, <2>1, Sequences DEF Kinds
  <1>4. Append(Snap, "dns") = Complete
    <2>1. Len(Complete) = Len(Snap) + 1 /\ (\A i \in 1 .. Len(Snap) : Complete[i] = Snap[i])
          /\ Complete[Len(Snap) + 1] = "dns"
      BY DEF Snap, Complete
    <2>2. QED
      BY <1>1, <2>1, Sequences DEF Kinds
  <1>5. QED
    BY <1>2, <1>3, <1>4

LEMMA Popped ==
  ASSUME NEW s \in Seq(Kinds), NEW e \in Kinds
  PROVE  Front(Append(s, e)) = s /\ Last(Append(s, e)) = e
  <1> DEFINE t == Append(s, e)
  <1>1. /\ t \in Seq(Kinds) /\ Len(t) = Len(s) + 1
        /\ \A i \in 1 .. Len(s) : t[i] = s[i]
        /\ t[Len(s) + 1] = e
    BY AppendProperties
  <1>2. Len(s) \in Nat
    BY LenProperties
  <1> HIDE DEF t
  <1>3. \A i \in 1 .. Len(s) : t[i] \in Kinds
    BY <1>1, ElementOfSeq
  <1>4. /\ SubSeq(t, 1, Len(s)) \in Seq(Kinds)
        /\ Len(SubSeq(t, 1, Len(s))) = Len(s)
        /\ \A i \in 1 .. Len(s) : SubSeq(t, 1, Len(s))[i] = t[i]
    BY <1>2, <1>3, SubSeqProperties
  <1>5. SubSeq(t, 1, Len(s)) = s
    BY <1>1, <1>4, SeqEqual
  <1>6. Front(t) = s /\ Last(t) = e
    BY <1>1, <1>2, <1>5 DEF Front, Last
  <1>7. QED
    BY <1>6 DEF t

LEMMA Distinct ==
  /\ None # Tunnel /\ None # Snap /\ None # Complete
  /\ Tunnel # Snap /\ Tunnel # Complete /\ Snap # Complete
  /\ <<>> = None
  <1>1. Len(None) = 0 /\ Len(Tunnel) = 1 /\ Len(Snap) = 2 /\ Len(Complete) = 3
    BY DEF None, Tunnel, Snap, Complete
  <1>2. QED
    BY <1>1 DEF None

\* What a step of the saga reads of the stack of reverts, and how it changes it.
LEMMA Stack ==
  /\ Append(None, "tunnel") = Tunnel /\ Append(Tunnel, "snapshot") = Snap
  /\ Append(Snap, "dns") = Complete
  /\ Front(Tunnel) = None /\ Last(Tunnel) = "tunnel"
  /\ Front(Snap) = Tunnel /\ Last(Snap) = "snapshot"
  /\ Front(Complete) = Snap /\ Last(Complete) = "dns"
  BY Pushed, Popped, Sequences DEF Kinds

-----------------------------------------------------------------------------
(* The types, with the stacks by name.                                         *)

Typed ==
  /\ pc \in [Ids -> {"new", "tunnel", "token", "snapshot", "ingress", "dns", "port",
                     "insert", "live", "undo", "failed", "deldns",
                     "deltunnel", "delsnapshot", "delrow", "deleted", "kept"}]
  /\ host \in [Ids -> Hosts]
  /\ port \in [Ids -> Ports \cup {0}]
  /\ reverts \in [Ids -> Stacks]
  /\ tunnels \subseteq Ids /\ records \subseteq Ids /\ snapshots \subseteq Ids
  /\ gone \subseteq Ids
  /\ rows \in [Ids -> [host : Hosts, port : Ports] \cup {NoRow}]
  /\ faults \in FaultSets

LEMMA TypedIs == Typed <=> TypeOK
  BY DEF Typed, TypeOK, Stacks, None, Tunnel, Snap, Complete

LEMMA TypedNext == Typed' <=> TypeOK'
  BY DEF Typed, TypeOK, Stacks, None, Tunnel, Snap, Complete

LEMMA InitInv == Init => Inv
  <1> SUFFICES ASSUME Init PROVE Inv
    OBVIOUS
  <1>1. Typed
    BY Distinct DEF Init, Typed, Stacks
  <1>2. \A d \in Ids : Saga(d)
    BY Distinct
    DEF Init, Saga, Registered, Has, Lacks, LacksRemote, PortKnown, Deleting
  <1>3. QED
    BY <1>1, <1>2, TypedIs DEF Inv

\* A step of one request leaves the others alone.
LEMMA OneRequest ==
  ASSUME Typed, NEW d \in Ids, NEW e \in Ids \ {d}, Saga(e),
         UNCHANGED faults,
         pc'[e] = pc[e], reverts'[e] = reverts[e], port'[e] = port[e], rows'[e] = rows[e],
         e \in tunnels' <=> e \in tunnels, e \in records' <=> e \in records,
         e \in snapshots' <=> e \in snapshots, e \in gone' <=> e \in gone
  PROVE  Saga(e)'
  BY DEF Saga, Registered, Has, Lacks, LacksRemote, Compensated, PortKnown

Untouched(d) ==
  \A e \in Ids \ {d} :
    /\ pc'[e] = pc[e] /\ reverts'[e] = reverts[e] /\ port'[e] = port[e] /\ rows'[e] = rows[e]
    /\ e \in tunnels' <=> e \in tunnels
    /\ e \in records' <=> e \in records
    /\ e \in snapshots' <=> e \in snapshots
    /\ e \in gone' <=> e \in gone

LEMMA CreateKept ==
  ASSUME Typed, NEW d \in Ids, Saga(d), CreateStep(d)
  PROVE  Typed' /\ Saga(d)' /\ Untouched(d) /\ faults' = faults
  <1> USE Distinct
      DEF Typed, Stacks, Saga, Registered, Has, Lacks, LacksRemote, Compensated, PortKnown,
          Deleting, Untouched, Goto, Push, Fails
  <1>0. UNCHANGED <<gone, faults>>
    BY DEF CreateStep
  <1>1. CASE NewTunnel(d)
    BY <1>0, <1>1 DEF NewTunnel
  <1>2. CASE GetToken(d)
    <2>1. reverts[d] = None /\ reverts' = [reverts EXCEPT ![d] = Append(None, "tunnel")]
      BY <1>2 DEF GetToken
    <2>2. reverts' = [reverts EXCEPT ![d] = Tunnel]
      BY <2>1, Stack
    <2>3. /\ d \notin gone /\ pc[d] = "token" /\ pc' = [pc EXCEPT ![d] = "snapshot"]
          /\ UNCHANGED <<host, port, tunnels, records, snapshots, rows>>
      BY <1>2 DEF GetToken
    <2>4. QED
      BY <1>0, <2>1, <2>2, <2>3
  <1>3. CASE GetTokenFails(d)
    BY <1>0, <1>3 DEF GetTokenFails
  <1>4. CASE Snapshot(d)
    <2>1. reverts[d] = Tunnel /\ reverts' = [reverts EXCEPT ![d] = Append(Tunnel, "snapshot")]
      BY <1>4 DEF Snapshot
    <2>2. reverts' = [reverts EXCEPT ![d] = Snap]
      BY <2>1, Stack
    <2>3. /\ pc[d] = "snapshot" /\ pc' = [pc EXCEPT ![d] = "ingress"]
          /\ snapshots' = snapshots \cup {d}
          /\ UNCHANGED <<host, port, tunnels, records, rows>>
      BY <1>4 DEF Snapshot
    <2>4. Typed' /\ Untouched(d)
      BY <1>0, <2>2, <2>3
    <2>5. /\ pc'[d] = "ingress" /\ reverts'[d] = Snap
          /\ d \in tunnels' /\ d \in snapshots' /\ rows'[d] = NoRow
          /\ Compensated(d) => d \notin records'
      BY <2>2, <2>3
    <2>6. Saga(d)'
      BY <1>0, <2>3, <2>5
    <2>7. QED
      BY <1>0, <2>4, <2>6
  <1>5. CASE SnapshotFails(d)
    BY <1>0, <1>5 DEF SnapshotFails
  <1>6. CASE PutIngress(d)
    BY <1>0, <1>6 DEF PutIngress
  <1>7. CASE NewRecord(d)
    <2>1. reverts[d] = Snap /\ reverts' = [reverts EXCEPT ![d] = Append(Snap, "dns")]
      BY <1>7 DEF NewRecord
    <2>2. reverts' = [reverts EXCEPT ![d] = Complete]
      BY <2>1, Stack
    <2>3. /\ d \notin gone /\ pc[d] = "dns" /\ pc' = [pc EXCEPT ![d] = "port"]
          /\ records' = records \cup {d}
          /\ UNCHANGED <<host, port, tunnels, snapshots, rows>>
      BY <1>7 DEF NewRecord
    <2>4. QED
      BY <1>0, <2>1, <2>2, <2>3
  <1>8. CASE NewRecordCut(d)
    BY <1>0, <1>8 DEF NewRecordCut
  <1>9. CASE CallFails(d)
    BY <1>0, <1>9 DEF CallFails
  <1>10. CASE AllocatePort(d)
    BY <1>0, <1>10 DEF AllocatePort, FreePorts
  <1>11. CASE PortFails(d)
    BY <1>0, <1>11 DEF PortFails
  <1>12. CASE Insert(d)
    <2>1. [host |-> host[d], port |-> port[d]] \in [host : Hosts, port : Ports]
      BY <1>12 DEF Insert
    <2>2. [host |-> host[d], port |-> port[d]] # NoRow
      BY <2>1, NoRowAssumption
    <2>3. QED
      BY <1>0, <1>12, <2>1, <2>2 DEF Insert
  <1>13. CASE InsertFails(d)
    BY <1>0, <1>13 DEF InsertFails
  <1>14. CASE Revert(d)
    <2>1. /\ pc[d] = "undo" /\ reverts[d] \in {Tunnel, Snap, Complete}
          /\ reverts' = [reverts EXCEPT ![d] = Front(reverts[d])]
          /\ \/ d \notin gone /\ RevertStep(d, Last(reverts[d]), TRUE)
             \/ Fails(d, "undo") /\ RevertStep(d, Last(reverts[d]), FALSE)
      BY <1>14 DEF Revert
    <2>2. UNCHANGED <<pc, host, port, rows, gone, faults>>
      BY <1>0, <1>14 DEF Revert
    <2>3. CASE reverts[d] = Tunnel
      <3>1. /\ reverts' = [reverts EXCEPT ![d] = None]
            /\ \/ d \notin gone /\ RevertStep(d, "tunnel", TRUE)
               \/ Fails(d, "undo") /\ RevertStep(d, "tunnel", FALSE)
        BY <2>1, <2>3, Stack
      <3>2. pc[d] = "undo"
        BY <2>1
      <3>3. QED
        BY <2>2, <2>3, <3>1, <3>2 DEF RevertStep
    <2>4. CASE reverts[d] = Snap
      <3>1. /\ reverts' = [reverts EXCEPT ![d] = Tunnel]
            /\ \/ d \notin gone /\ RevertStep(d, "snapshot", TRUE)
               \/ Fails(d, "undo") /\ RevertStep(d, "snapshot", FALSE)
        BY <2>1, <2>4, Stack
      <3>2. pc[d] = "undo"
        BY <2>1
      <3>3. QED
        BY <2>2, <2>4, <3>1, <3>2 DEF RevertStep
    <2>5. CASE reverts[d] = Complete
      <3>1. /\ reverts' = [reverts EXCEPT ![d] = Snap]
            /\ \/ d \notin gone /\ RevertStep(d, "dns", TRUE)
               \/ Fails(d, "undo") /\ RevertStep(d, "dns", FALSE)
        BY <2>1, <2>5, Stack
      <3>2. pc[d] = "undo"
        BY <2>1
      <3>3. QED
        BY <2>2, <2>5, <3>1, <3>2 DEF RevertStep
    <2>6. QED
      BY <2>1, <2>3, <2>4, <2>5
  <1>15. CASE Reverted(d)
    BY <1>0, <1>15 DEF Reverted
  <1>16. QED
    BY <1>1, <1>2, <1>3, <1>4, <1>5, <1>6, <1>7, <1>8, <1>9, <1>10, <1>11, <1>12, <1>13,
       <1>14, <1>15 DEF CreateStep

LEMMA OtherKept ==
  ASSUME Typed, NEW d \in Ids, Saga(d),
         \/ (DeleteStep(d) \/ CheckHost(d) \/ Refuse(d)) /\ UNCHANGED <<gone, faults>>
         \/ (BeginDelete(d) \/ ClientGone(d)) /\ UNCHANGED faults
  PROVE  Typed' /\ Saga(d)' /\ Untouched(d) /\ faults' = faults
  <1> USE Distinct
      DEF Typed, Stacks, Saga, Registered, Has, Lacks, LacksRemote, Compensated, PortKnown,
          Deleting, Untouched, Goto, Fails
  <1>1. CASE (CheckHost(d) \/ Refuse(d)) /\ UNCHANGED <<gone, faults>>
    BY <1>1 DEF CheckHost, Refuse
  <1>2. CASE BeginDelete(d) /\ UNCHANGED faults
    BY <1>2 DEF BeginDelete
  <1>3. CASE ClientGone(d) /\ UNCHANGED faults
    BY <1>3 DEF ClientGone
  <1>4. CASE DeleteStep(d) /\ UNCHANGED <<gone, faults>>
    <2>1. CASE DeleteRecord(d)
      BY <1>4, <2>1 DEF DeleteRecord
    <2>2. CASE DeleteTunnel(d)
      BY <1>4, <2>2 DEF DeleteTunnel
    <2>3. CASE RemoveSnapshot(d)
      BY <1>4, <2>3 DEF RemoveSnapshot
    <2>4. CASE DeleteRow(d)
      BY <1>4, <2>4 DEF DeleteRow
    <2>5. QED
      BY <1>4, <2>1, <2>2, <2>3, <2>4 DEF DeleteStep
  <1>5. QED
    BY <1>1, <1>2, <1>3, <1>4

LEMMA CrashKept == Typed /\ (\A d \in Ids : Saga(d)) /\ Crash /\ UNCHANGED <<gone, faults>>
                   => Typed' /\ \A d \in Ids : Saga(d)'
  <1> SUFFICES ASSUME Typed, \A d \in Ids : Saga(d), Crash, UNCHANGED <<gone, faults>>
               PROVE  Typed' /\ \A d \in Ids : Saga(d)'
    OBVIOUS
  <1>1. Typed'
    BY Distinct DEF Typed, Crash, Stacks, Live
  <1>2. ASSUME NEW d \in Ids PROVE Saga(d)'
    <2>1. Saga(d)
      OBVIOUS
    <2>2. ~Compensated(d)'
      BY DEF Crash, Compensated
    <2>3. d \in snapshots' <=> rows[d] # NoRow
      BY DEF Crash, Live
    <2>4. /\ reverts'[d] = None /\ rows'[d] = rows[d]
          /\ UNCHANGED <<port, tunnels, records>>
      BY Distinct DEF Crash
    <2>5. pc'[d] = IF pc[d] \in {"new", "live", "deleted"} THEN pc[d]
                   ELSE IF rows[d] # NoRow THEN "kept" ELSE "failed"
      BY DEF Crash
    <2>6. QED
      BY <2>1, <2>2, <2>3, <2>4, <2>5, Distinct
      DEF Saga, Registered, Has, Lacks, LacksRemote, PortKnown, Deleting
  <1>3. QED
    BY <1>1, <1>2

LEMMA StepInv == Inv /\ [Next]_vars => Inv'
  <1> SUFFICES ASSUME Typed, \A d \in Ids : Saga(d), [Next]_vars
               PROVE  Typed' /\ \A d \in Ids : Saga(d)'
    BY TypedIs, TypedNext DEF Inv
  <1>1. ASSUME NEW d \in Ids, Typed', Saga(d)', Untouched(d), faults' = faults
        PROVE  Typed' /\ \A e \in Ids : Saga(e)'
    <2>1. ASSUME NEW e \in Ids \ {d} PROVE Saga(e)'
      BY <1>1, OneRequest DEF Untouched
    <2>2. QED
      BY <1>1, <2>1
  <1>2. CASE \E d \in Ids : CreateStep(d)
    BY <1>1, <1>2, CreateKept
  <1>3. CASE \E d \in Ids : DeleteStep(d)
                           \/ ((CheckHost(d) \/ Refuse(d)) /\ UNCHANGED <<gone, faults>>)
                           \/ ((BeginDelete(d) \/ ClientGone(d)) /\ UNCHANGED faults)
    <2>1. PICK d \in Ids : DeleteStep(d)
                           \/ ((CheckHost(d) \/ Refuse(d)) /\ UNCHANGED <<gone, faults>>)
                           \/ ((BeginDelete(d) \/ ClientGone(d)) /\ UNCHANGED faults)
      BY <1>3
    <2>2. \/ (DeleteStep(d) \/ CheckHost(d) \/ Refuse(d)) /\ UNCHANGED <<gone, faults>>
          \/ (BeginDelete(d) \/ ClientGone(d)) /\ UNCHANGED faults
      BY <2>1 DEF DeleteStep
    <2>3. Typed' /\ Saga(d)' /\ Untouched(d) /\ faults' = faults
      BY <2>2, OtherKept
    <2>4. QED
      BY <1>1, <2>3
  <1>4. CASE Crash /\ UNCHANGED <<gone, faults>>
    BY <1>4, CrashKept
  <1>5. CASE UNCHANGED vars
    BY <1>5
    DEF vars, Typed, Saga, Registered, Has, Lacks, LacksRemote, Compensated, PortKnown
  <1>6. QED
    BY <1>2, <1>3, <1>4, <1>5 DEF Next

-----------------------------------------------------------------------------

THEOREM Invariance == Spec => []Inv
  <1>1. Init => Inv
    BY InitInv
  <1>2. Inv /\ [Next]_vars => Inv'
    BY StepInv
  <1>3. QED
    BY <1>1, <1>2, PTL DEF Spec

\* Reverts are registered in the order of the steps and undone in reverse.
THEOREM TypeCorrect == Spec => []TypeOK
  <1>1. Inv => TypeOK
    BY DEF Inv
  <1>2. QED
    BY <1>1, Invariance, PTL

LEMMA CompleteRows == Inv => RowIsComplete
  BY DEF Inv, Saga, Has, Live, RowIsComplete

\* Every row that nobody deletes has what it needs, with any number of creations and
\* deletions side by side, failing anywhere, and crashes between them.
THEOREM RowsComplete == Spec => []RowIsComplete
  BY CompleteRows, Invariance, PTL

LEMMA NothingKept == Inv => FailedLeavesNothing
  BY DEF Inv, Saga, Lacks, LacksRemote, Compensated, FailedLeavesNothing

\* No failure leaves a snapshot, and those that are compensated leave nothing.
THEOREM NothingLeftBehind == Spec => []FailedLeavesNothing
  BY NothingKept, Invariance, PTL

-----------------------------------------------------------------------------
(* Creations side by side: what the missing lock leaves to chance, and nothing *)
(* else does.                                                                  *)

\* Between the check of its hostname and the insert of its row, or the last revert.
CreatingPlaces == {"tunnel", "token", "snapshot", "ingress", "dns", "port", "insert", "undo"}
Creating(d)    == pc[d] \in CreatingPlaces

\* Steps that write no row, allocate no port and check no hostname.
LEMMA OtherSteps ==
  ASSUME Inv, Next,
         \A d \in Ids : ~Insert(d) /\ ~AllocatePort(d) /\ ~CheckHost(d)
  PROVE  /\ UNCHANGED <<host, port, faults>>
         /\ \A d \in Ids : rows'[d] # NoRow => rows'[d] = rows[d]
         /\ \A d \in Ids : pc'[d] = "insert" => pc[d] = "insert"
         /\ \A d \in Ids : Creating(d)' => Creating(d)
         /\ \A d \in Ids : pc'[d] = "new" => pc[d] = "new" /\ (d \in gone' => d \in gone)
  <1> USE TypedIs DEF Inv, Typed, Creating, CreatingPlaces, Goto
  <1>1. ASSUME NEW d \in Ids, CreateStep(d) PROVE UNCHANGED <<host, port, gone, faults>>
    BY <1>1 DEF CreateStep, NewTunnel, GetToken, GetTokenFails, Snapshot, SnapshotFails,
                PutIngress, NewRecord, NewRecordCut, CallFails, PortFails, InsertFails,
                Revert, Reverted
  <1>2. ASSUME NEW d \in Ids, CreateStep(d) PROVE UNCHANGED rows
    BY <1>2 DEF CreateStep, NewTunnel, GetToken, GetTokenFails, Snapshot, SnapshotFails,
                PutIngress, NewRecord, NewRecordCut, CallFails, PortFails, InsertFails,
                Revert, Reverted
  <1>3. ASSUME NEW d \in Ids, CreateStep(d)
        PROVE  \E to \in CreatingPlaces \cup {"failed"} :
                 to # "insert" /\ Creating(d) /\ (pc' = pc \/ pc' = [pc EXCEPT ![d] = to])
    BY <1>3 DEF CreateStep, NewTunnel, GetToken, GetTokenFails, Snapshot, SnapshotFails,
                PutIngress, NewRecord, NewRecordCut, CallFails, PortFails, InsertFails,
                Revert, Reverted
  <1>4. CASE \E d \in Ids : CreateStep(d)
    BY <1>1, <1>2, <1>3, <1>4
  <1>5. CASE \E d \in Ids : DeleteStep(d)
    BY <1>5 DEF DeleteStep, DeleteRecord, DeleteTunnel, RemoveSnapshot, DeleteRow
  <1>6. CASE \E d \in Ids : Refuse(d) /\ UNCHANGED <<gone, faults>>
    BY <1>6 DEF Refuse
  <1>7. CASE \E d \in Ids : (BeginDelete(d) \/ ClientGone(d)) /\ UNCHANGED faults
    BY <1>7 DEF BeginDelete, ClientGone
  <1>8. CASE Crash /\ UNCHANGED <<gone, faults>>
    BY <1>8 DEF Crash
  <1>9. QED
    BY <1>4, <1>5, <1>6, <1>7, <1>8 DEF Next

\* No two creations are between the list of the taken ports and the insert.
OneAllocation ==
  \A d, e \in Ids : pc[d] = "insert" /\ pc[e] = "insert" => d = e

\* A port that is allocated and not yet in the table is in no row.
PortsKept ==
  /\ PortsAreDistinct
  /\ \A d \in Ids, e \in Live : pc[d] = "insert" => rows[e].port # port[d]

LEMMA PortsStep ==
  ASSUME Inv, PortsKept, OneAllocation, [Next]_vars
  PROVE  PortsKept'
  <1> USE TypedIs DEF Inv, Typed, PortsKept, PortsAreDistinct, Live
  <1>1. ASSUME NEW d \in Ids, Insert(d) PROVE PortsKept'
    <2> DEFINE row == [host |-> host[d], port |-> port[d]]
    <2>1. /\ pc[d] = "insert" /\ pc' = [pc EXCEPT ![d] = "live"]
          /\ rows' = [rows EXCEPT ![d] = row] /\ UNCHANGED port
      BY <1>1 DEF Insert, Goto
    <2>2. row.port = port[d]
      OBVIOUS
    <2> HIDE DEF row
    <2>3. \A e \in Ids : pc'[e] # "insert"
      BY <2>1 DEF OneAllocation
    <2>4. QED
      BY <2>1, <2>2, <2>3
  <1>2. ASSUME NEW d \in Ids, AllocatePort(d) PROVE PortsKept'
    <2>1. PICK p \in FreePorts : port' = [port EXCEPT ![d] = p]
      BY <1>2 DEF AllocatePort
    <2>2. \A e \in Ids : rows[e] # NoRow => rows[e].port # p
      BY DEF FreePorts
    <2>3. pc' = [pc EXCEPT ![d] = "insert"] /\ UNCHANGED rows
      BY <1>2 DEF AllocatePort, Goto
    <2>4. QED
      BY <2>1, <2>2, <2>3
  <1>3. ASSUME NEW d \in Ids, CheckHost(d) PROVE PortsKept'
    BY <1>3 DEF CheckHost, Goto
  <1>4. CASE UNCHANGED vars
    BY <1>4 DEF vars
  <1>5. CASE Next /\ \A d \in Ids : ~Insert(d) /\ ~AllocatePort(d) /\ ~CheckHost(d)
    BY <1>5, OtherSteps
  <1>6. QED
    BY <1>1, <1>2, <1>3, <1>4, <1>5

\* Two rows get one metrics port only when two creations overlap between ListTakenPorts
\* and the insert (create.go:76-101): failures, deletions and crashes add no other way.
THEOREM PortsDistinctOneByOne == Spec /\ []OneAllocation => []PortsAreDistinct
  <1>1. Init => PortsKept
    BY DEF Init, PortsKept, PortsAreDistinct, Live
  <1>2. Inv /\ PortsKept /\ OneAllocation /\ [Next]_vars => PortsKept'
    BY PortsStep
  <1>3. PortsKept => PortsAreDistinct
    BY DEF PortsKept
  <1>4. QED
    BY <1>1, <1>2, <1>3, Invariance, PTL DEF Spec

\* The UNIQUE hostname: a row keeps the hostname it was asked for, and no other has it.
HostnamesUnique ==
  \A d \in Live : rows[d].host = host[d] /\ \A e \in Live : rows[e].host = host[d] => e = d

LEMMA HostnamesStep == Inv /\ HostnamesUnique /\ [Next]_vars => HostnamesUnique'
  <1> SUFFICES ASSUME Inv, HostnamesUnique, [Next]_vars PROVE HostnamesUnique'
    OBVIOUS
  <1> USE TypedIs DEF Inv, Typed, HostnamesUnique, Live
  <1>1. ASSUME NEW d \in Ids, Insert(d) PROVE HostnamesUnique'
    <2> DEFINE row == [host |-> host[d], port |-> port[d]]
    <2>1. ~HostTaken(host[d]) /\ rows' = [rows EXCEPT ![d] = row] /\ UNCHANGED host
      BY <1>1 DEF Insert
    <2>2. row.host = host[d]
      OBVIOUS
    <2> HIDE DEF row
    <2>3. \A e \in Ids : rows[e] # NoRow => rows[e].host # host[d]
      BY <2>1 DEF HostTaken
    <2>4. QED
      BY <2>1, <2>2, <2>3
  <1>2. ASSUME NEW d \in Ids, AllocatePort(d) \/ CheckHost(d) PROVE HostnamesUnique'
    BY <1>2 DEF AllocatePort, CheckHost
  <1>3. CASE UNCHANGED vars
    BY <1>3 DEF vars
  <1>4. CASE Next /\ \A d \in Ids : ~Insert(d) /\ ~AllocatePort(d) /\ ~CheckHost(d)
    BY <1>4, OtherSteps
  <1>5. QED
    BY <1>1, <1>2, <1>3, <1>4

\* However many creations of one hostname overlap, one of them gets its row: the check at
\* the beginning may let both pass, the insert does not (create.go:34-36, 101-103).
THEOREM OneRowPerHost == Spec => []HostnamesUnique
  <1>1. Init => HostnamesUnique
    BY DEF Init, HostnamesUnique, Live
  <1>2. Inv /\ HostnamesUnique /\ [Next]_vars => HostnamesUnique'
    BY HostnamesStep
  <1>3. QED
    BY <1>1, <1>2, Invariance, PTL DEF Spec

\* No two creations of one hostname overlap, and the query for the hostname works (its
\* error is ignored).
OneOfEachHost ==
  /\ "db" \notin faults
  /\ \A d, e \in Ids : host[d] = host[e] /\ Creating(d) /\ Creating(e) => d = e

\* A creation under way has a hostname no row has.
HostFree ==
  /\ \A d \in Ids, e \in Live : Creating(d) => host[e] # host[d]
  /\ \A d \in Ids : pc[d] = "new" => d \notin gone

LEMMA HostFreeStep ==
  ASSUME Inv, HostnamesUnique, HostFree, OneOfEachHost, [Next]_vars
  PROVE  HostFree'
  <1> USE TypedIs DEF Inv, Typed, HostFree, Live, Creating, CreatingPlaces
  <1>1. ASSUME NEW d \in Ids, Insert(d), UNCHANGED gone PROVE HostFree'
    <2>1. /\ pc[d] = "insert" /\ pc' = [pc EXCEPT ![d] = "live"]
          /\ UNCHANGED host /\ \A e \in Ids \ {d} : rows'[e] = rows[e]
      BY <1>1 DEF Insert, Goto
    <2>2. \A e \in Ids : e # d /\ Creating(e) => host[e] # host[d]
      BY <2>1 DEF OneOfEachHost
    <2>3. QED
      BY <1>1, <2>1, <2>2
  <1>2. ASSUME NEW d \in Ids, CheckHost(d), UNCHANGED gone PROVE HostFree'
    <2>1. /\ pc[d] = "new" /\ UNCHANGED <<rows, host>>
          /\ \/ pc' = [pc EXCEPT ![d] = "failed"]
             \/ pc' = [pc EXCEPT ![d] = "tunnel"] /\ ~HostTaken(host[d])
      BY <1>2 DEF CheckHost, Goto, Fails, OneOfEachHost
    <2>2. ASSUME ~HostTaken(host[d]) PROVE \A e \in Ids : rows[e] # NoRow => host[e] # host[d]
      BY <2>2 DEF HostTaken, HostnamesUnique
    <2>3. QED
      BY <1>2, <2>1, <2>2
  <1>3. ASSUME NEW d \in Ids, AllocatePort(d), UNCHANGED gone PROVE HostFree'
    BY <1>3 DEF AllocatePort, Goto
  <1>4. CASE UNCHANGED vars
    BY <1>4 DEF vars
  <1>5. CASE Next /\ \A d \in Ids : ~Insert(d) /\ ~AllocatePort(d) /\ ~CheckHost(d)
    BY <1>5, OtherSteps
  <1>6. ASSUME NEW d \in Ids, Next, Insert(d) \/ CheckHost(d) \/ AllocatePort(d)
        PROVE  UNCHANGED gone
    <2>1. pc[d] \in {"insert", "new", "port"} /\ pc'[d] # pc[d]
      BY <1>6 DEF Insert, CheckHost, AllocatePort, Goto
    <2>2. \A e \in Ids : CreateStep(e) \/ DeleteStep(e) => UNCHANGED gone
      BY DEF CreateStep, DeleteStep
    <2>3. \A e \in Ids : ~BeginDelete(e) /\ ~ClientGone(e)
      BY <2>1 DEF BeginDelete, ClientGone, Goto
    <2>4. QED
      BY <1>6, <2>2, <2>3 DEF Next
  <1>7. QED
    BY <1>1, <1>2, <1>3, <1>4, <1>5, <1>6

\* The routes in the proxy under the hostname of a row are those of its domain, except
\* while another creation of that hostname is under way (create.go:34-36, 54-57): no
\* revert, deletion or crash leaves the routes of one domain to another.
THEOREM OwnerServesOneByOne == Spec /\ []OneOfEachHost => []HostServedByOwner
  <1>1. Init => HostFree
    BY DEF Init, HostFree, Live
  <1>2. Inv /\ HostnamesUnique /\ HostFree /\ OneOfEachHost /\ [Next]_vars => HostFree'
    BY HostFreeStep
  <1>3. Inv /\ HostnamesUnique /\ HostFree => HostServedByOwner
    <2> SUFFICES ASSUME Inv, HostnamesUnique, HostFree, NEW d \in Live, NEW e \in snapshots,
                        host[e] = rows[d].host
                 PROVE  e = d
      BY DEF HostServedByOwner
    <2>1. e \in Ids /\ Lacks(e) /\ Has(e) /\ host[d] = rows[d].host
      BY TypedIs DEF Inv, Saga, Typed, HostnamesUnique
    <2>2. Creating(e) \/ e \in Live
      BY <2>1, TypedIs DEF Inv, Typed, Lacks, Has, Creating, CreatingPlaces, Live, Deleting
    <2>3. QED
      BY <2>1, <2>2 DEF HostFree, HostnamesUnique, Live
  <1>4. QED
    BY <1>1, <1>2, <1>3, Invariance, OneRowPerHost, PTL DEF Spec

-----------------------------------------------------------------------------
(* The order of the rows, and its first n.                                     *)

Ordered == created \in [Ids -> Times]

LEMMA TotalOrder ==
  ASSUME Ordered, NEW d \in Ids, NEW e \in Ids, NEW f \in Ids
  PROVE  /\ ~Before(d, d)
         /\ d = e \/ Before(d, e) \/ Before(e, d)
         /\ Before(d, e) /\ Before(e, f) => Before(d, f)
  <1>1. /\ d \in Nat /\ e \in Nat /\ f \in Nat
        /\ created[d] \in Nat /\ created[e] \in Nat /\ created[f] \in Nat
    BY IdsAssumption, TimesAssumption DEF Ordered
  <1>2. QED
    BY <1>1 DEF Before

Rank(S, d) == Cardinality({e \in S : Before(e, d)})

LEMMA RankGrows ==
  ASSUME Ordered, NEW S \in SUBSET Ids, NEW d \in S, NEW e \in S, Before(d, e)
  PROVE  Rank(S, d) \in Nat /\ Rank(S, e) \in Nat /\ Rank(S, d) < Rank(S, e)
  <1> DEFINE D == {x \in S : Before(x, d)}
             E == {x \in S : Before(x, e)}
  <1>1. IsFiniteSet(S)
    BY IdsAssumption, FS_Subset
  <1>2. D \in SUBSET E
    BY TotalOrder
  <1>3. d \in E /\ d \notin D
    BY TotalOrder
  <1>4. IsFiniteSet(E)
    BY <1>1, FS_Subset
  <1> HIDE DEF D, E
  <1>5. IsFiniteSet(D) /\ Cardinality(D) <= Cardinality(E) /\ Cardinality(E) # Cardinality(D)
    BY <1>2, <1>3, <1>4, FS_Subset
  <1>6. Cardinality(D) \in Nat /\ Cardinality(E) \in Nat
    BY <1>4, <1>5, FS_CardinalityType
  <1>7. Cardinality(D) < Cardinality(E)
    BY <1>5, <1>6
  <1>8. QED
    BY <1>6, <1>7 DEF D, E, Rank

\* The ranks of the rows are the numbers below their number.
LEMMA Ranks ==
  ASSUME Ordered, NEW S \in SUBSET Ids
  PROVE  /\ IsFiniteSet(S) /\ Cardinality(S) \in Nat
         /\ [d \in S |-> Rank(S, d)] \in Bijection(S, 0 .. Cardinality(S) - 1)
  <1> DEFINE rank == [d \in S |-> Rank(S, d)]
             N    == Cardinality(S)
             R    == 0 .. N - 1
  <1>1. IsFiniteSet(S) /\ N \in Nat
    BY IdsAssumption, FS_Subset, FS_CardinalityType
  <1>2. ASSUME NEW d \in S PROVE Rank(S, d) \in R
    <2> DEFINE D == {x \in S : Before(x, d)}
    <2>1. D \in SUBSET S /\ d \notin D
      BY TotalOrder
    <2> HIDE DEF D
    <2>2. IsFiniteSet(D) /\ Cardinality(D) <= N /\ N # Cardinality(D)
      BY <1>1, <2>1, FS_Subset
    <2>3. Cardinality(D) \in Nat
      BY <2>2, FS_CardinalityType
    <2>4. Cardinality(D) \in R
      BY <1>1, <2>2, <2>3
    <2>5. QED
      BY <2>4 DEF D, Rank
  <1>3. rank \in Injection(S, R)
    <2>1. ASSUME NEW d \in S, NEW e \in S, d # e PROVE Rank(S, d) # Rank(S, e)
      <3>1. CASE Before(d, e)
        BY <3>1, RankGrows
      <3>2. CASE Before(e, d)
        BY <3>2, RankGrows
      <3>3. QED
        BY <2>1, <3>1, <3>2, TotalOrder
    <2>2. rank \in [S -> R]
      BY <1>2
    <2>3. IsInjective(rank)
      BY <2>1 DEF IsInjective
    <2>4. QED
      BY <2>2, <2>3 DEF Injection
  <1>4. IsFiniteSet(R) /\ Cardinality(R) = N
    BY <1>1, FS_Interval
  <1> HIDE DEF rank, R
  <1>5. rank \in Surjection(S, R)
    BY <1>3, <1>4, FS_Injection
  <1>6. QED
    BY <1>1, <1>3, <1>5 DEF rank, R, Bijection

\* LIMIT n: what is left out comes later, and then the page is full.
LEMMA Limit ==
  ASSUME Ordered, NEW S \in SUBSET Ids, NEW n \in Nat, NEW d \in S, d \notin FirstOf(S, n)
  PROVE  /\ Cardinality(FirstOf(S, n)) = n
         /\ \A e \in FirstOf(S, n) : Before(e, d)
  <1> DEFINE P    == FirstOf(S, n)
             rank == [e \in S |-> Rank(S, e)]
             N    == Cardinality(S)
  <1>1. /\ N \in Nat
        /\ \A e \in S : Rank(S, e) \in 0 .. N - 1
        /\ \A x, y \in S : Rank(S, x) = Rank(S, y) => x = y
        /\ \A r \in 0 .. N - 1 : \E x \in S : Rank(S, x) = r
    <2>1. N \in Nat /\ rank \in Bijection(S, 0 .. N - 1)
      BY Ranks
    <2>2. \A e \in S : rank[e] = Rank(S, e)
      OBVIOUS
    <2> HIDE DEF rank, N
    <2>3. QED
      BY <2>1, <2>2 DEF Bijection, Injection, Surjection, IsInjective
  <1>2. P = {e \in S : Rank(S, e) < n}
    BY DEF FirstOf, Rank
  <1> HIDE DEF P, N
  <1>3. Rank(S, d) >= n /\ Rank(S, d) \in 0 .. N - 1
    BY <1>1, <1>2 DEF P
  <1>4. ASSUME NEW e \in P PROVE Before(e, d)
    <2>1. e \in S /\ Rank(S, e) < n /\ Rank(S, e) \in Nat
      BY <1>1, <1>2, <1>4
    <2>2. Rank(S, d) >= n /\ Rank(S, d) \in Nat
      BY <1>1, <1>3
    <2>3. e # d
      BY <1>4 DEF P
    <2>4. CASE Before(d, e)
      <3>1. Rank(S, d) < Rank(S, e)
        BY <2>1, <2>4, RankGrows
      <3>2. QED
        BY <2>1, <2>2, <3>1
    <2>5. QED
      BY <2>1, <2>3, <2>4, TotalOrder
  <1> DEFINE f == [e \in P |-> Rank(S, e)]
             R == 0 .. n - 1
  <1>5. f \in [P -> R]
    BY <1>1, <1>2
  <1>6. \A x, y \in P : f[x] = f[y] => x = y
    BY <1>1, <1>2
  <1>7. \A r \in R : \E x \in P : f[x] = r
    <2>1. ASSUME NEW r \in R PROVE \E x \in P : f[x] = r
      <3>1. r \in 0 .. N - 1 /\ r < n
        BY <1>1, <1>3
      <3>2. PICK x \in S : Rank(S, x) = r
        BY <1>1, <3>1
      <3>3. QED
        BY <1>2, <3>1, <3>2
    <2>2. QED
      BY <2>1
  <1>8. f \in Injection(P, R) /\ f \in Surjection(P, R)
    BY <1>5, <1>6, <1>7 DEF Injection, Surjection, IsInjective
  <1>9. IsFiniteSet(R) /\ Cardinality(R) = n
    <2>1. 0 \in Int /\ n - 1 \in Int
      OBVIOUS
    <2>2. IsFiniteSet(R) /\ Cardinality(R) = IF 0 > n - 1 THEN 0 ELSE n - 1 - 0 + 1
      BY <2>1, FS_Interval
    <2>3. QED
      BY <2>2
  <1> HIDE DEF f, R, P
  <1>10. Cardinality(P) = n
    <2>1. Cardinality(P) = Cardinality(R)
      BY <1>8, <1>9, FS_Injection
    <2>2. QED
      BY <1>9, <2>1
  <1>11. QED
    BY <1>4, <1>10 DEF P

-----------------------------------------------------------------------------
(* The iteration.                                                              *)

\* Rows keep their hostname as long as they are there.
RowsKept == \A d \in Live \cap Live' : rows'[d] = rows[d]

LEMMA KeptRows == Inv /\ Next => RowsKept
  <1> SUFFICES ASSUME Inv, Next PROVE RowsKept
    OBVIOUS
  <1>1. CASE UNCHANGED rows
    BY <1>1 DEF RowsKept
  <1>2. CASE \E d \in Ids : Insert(d)
    <2>1. PICK d \in Ids : Insert(d)
      BY <1>2
    <2>2. d \notin Live
      BY <2>1 DEF Inv, Saga, Has, Deleting, Live, Insert, Goto
    <2>3. \A e \in Ids \ {d} : rows'[e] = rows[e]
      BY <2>1 DEF Insert, Inv, TypeOK
    <2>4. QED
      BY <2>2, <2>3 DEF RowsKept, Live
  <1>3. CASE \E d \in Ids : DeleteRow(d)
    BY <1>3 DEF DeleteRow, RowsKept, Live, Inv, TypeOK
  <1>4. QED
    <2>1. CASE \E d \in Ids : CreateStep(d)
      BY <2>1, <1>1, <1>2
      DEF CreateStep, NewTunnel, GetToken, GetTokenFails, Snapshot, SnapshotFails,
          PutIngress, NewRecord, NewRecordCut, CallFails, AllocatePort, PortFails,
          InsertFails, Revert, Reverted
    <2>2. CASE \E d \in Ids : DeleteStep(d)
      BY <2>2, <1>1, <1>3 DEF DeleteStep, DeleteRecord, DeleteTunnel, RemoveSnapshot
    <2>3. QED
      BY <1>1, <2>1, <2>2 DEF Next, CheckHost, Refuse, BeginDelete, ClientGone, Crash

\* Begun with a first page, or going on behind the cursor.
Begun ==
  /\ query.cursor \in Ids \/ next # NoCursor => query.size > 0
  /\ at = "idle" => query.cursor \notin Ids
  /\ at \in {"idle", "rows"} => page = {} /\ next = NoCursor

\* The rows that stay still match the filter.
Staying == \A d \in stayed : d \in Live /\ rows[d].host \in query.match

\* What the cursor of the request divides ...
Divided ==
  /\ \A d \in listed : /\ query.cursor \in Ids
                       /\ d = query.cursor \/ Before(d, query.cursor)
  /\ \A d \in stayed \ listed : query.cursor \in Ids => Before(query.cursor, d)

\* ... and that of the answer.
Answered ==
  at \in {"routes", "answer"} =>
    /\ \A d \in listed, e \in page : Before(d, e)
    /\ next = NoCursor => stayed \subseteq listed \cup page
    /\ next # NoCursor =>
         /\ next \in page
         /\ \A e \in page : e = next \/ Before(e, next)
         /\ \A d \in stayed \ (listed \cup page) : Before(next, d)

Iterating == Begun /\ (query.no = 0 => Staying /\ Divided /\ Answered)

ListingInv == Inv /\ ListingTypeOK /\ Iterating

LEMMA ListingInitInv == ListingInit => ListingInv
  <1> SUFFICES ASSUME ListingInit PROVE ListingInv
    OBVIOUS
  <1>1. Inv
    BY InitInv DEF ListingInit
  <1>2. ListingTypeOK
    BY <1>1, SizesAssumption, PagesAssumption, FiltersAssumption, CursorAssumption
    DEF ListingInit, ListingTypeOK, Inv, First, Query
  <1>3. query.cursor \notin Ids
    BY CursorAssumption DEF ListingInit, First
  <1>4. Iterating
    BY <1>3 DEF ListingInit, Iterating, Begun, Staying, Divided, Answered
  <1>5. QED
    BY <1>1, <1>2, <1>4 DEF ListingInv

\* The page: nothing that is behind the cursor is left out but what comes later.
LEMMA PageOf ==
  ASSUME ListingInv, query.no = 0, NEW S \in SUBSET Ids
  PROVE  /\ Paginate(S) \subseteq S
         /\ query.cursor \in Ids => \A e \in Paginate(S) : Before(query.cursor, e)
         /\ \A d \in S \ Paginate(S) :
              \/ query.cursor \in Ids /\ ~Before(query.cursor, d)
              \/ /\ query.size > 0 /\ Cardinality(Paginate(S)) = query.size
                 /\ \A e \in Paginate(S) : Before(e, d)
  <1> DEFINE F == FromCursor(S)
             P == Paginate(S)
  <1>1. query \in Query /\ query.size \in Int /\ Ordered
    BY SizesAssumption DEF ListingInv, ListingTypeOK, Query, Ordered
  <1>2. query.cursor \in Ids => query.size > 0 /\ query.cursor # BadCursor
    BY CursorAssumption DEF ListingInv, Iterating, Begun
  <1>3. F \in SUBSET S
    BY DEF FromCursor
  <1>4. query.cursor \in Ids => F = {d \in S : Before(query.cursor, d)}
    BY DEF FromCursor
  <1>5. query.cursor \notin Ids => F = S
    BY DEF FromCursor
  <1>6. CASE query.size < 0 \/ query.cursor = BadCursor
    <2>1. P = S /\ query.cursor \notin Ids
      BY <1>1, <1>2, <1>6 DEF Paginate
    <2>2. QED
      BY <2>1
  <1>7. CASE ~(query.size < 0 \/ query.cursor = BadCursor) /\ ~(query.size > 0)
    <2>1. P = F
      BY <1>1, <1>7 DEF Paginate
    <2>2. QED
      BY <1>2, <1>5, <1>7, <2>1
  <1>8. CASE ~(query.size < 0 \/ query.cursor = BadCursor) /\ query.size > 0
    <2>1. P = FirstOf(F, query.size)
      BY <1>1, <1>8 DEF Paginate
    <2>2. P \subseteq F
      BY <2>1 DEF FirstOf
    <2>3. query.size \in Nat
      BY <1>1, <1>8
    <2>4. ASSUME NEW d \in F \ P
          PROVE  Cardinality(P) = query.size /\ \A e \in P : Before(e, d)
      BY <1>1, <1>3, <2>1, <2>3, <2>4, Limit
    <2>5. ASSUME NEW d \in S \ F PROVE query.cursor \in Ids /\ ~Before(query.cursor, d)
      BY <1>4, <1>5, <2>5
    <2> HIDE DEF P, F
    <2>6. QED
      BY <1>3, <1>4, <1>8, <2>2, <2>4, <2>5 DEF P
  <1>9. QED
    BY <1>6, <1>7, <1>8

LEMMA BeginKept == ListingInv /\ Begin => ListingInv'
  <1> SUFFICES ASSUME ListingInv, Begin PROVE ListingInv'
    OBVIOUS
  <1>1. Inv'
    BY DEF ListingInv, Begin, Inv, vars, TypeOK, Saga, Registered, Has, Lacks, LacksRemote,
           Compensated, PortKnown
  <1>2. ListingTypeOK'
    BY <1>1 DEF ListingInv, ListingTypeOK, Begin, Inv, Matching, Live, vars
  <1>3. Iterating'
    BY DEF ListingInv, Iterating, Begin, Begun, Staying, Divided, Answered, Matching, Live,
           vars, Before
  <1>4. QED
    BY <1>1, <1>2, <1>3 DEF ListingInv

\* The steps of the reader leave the table alone.
LEMMA TableKept == ListingInv /\ UNCHANGED vars => Inv' /\ TypeOK'
  BY DEF ListingInv, Inv, vars, TypeOK, Saga, Registered, Has, Lacks, LacksRemote, Compensated,
         PortKnown

LEMMA FailKept ==
  ASSUME ListingInv, at \in {"rows", "routes"}, ListFails,
         UNCHANGED <<vars, created, query, listed, stayed>>
  PROVE  ListingInv'
  <1>1. Inv' /\ TypeOK'
    BY TableKept
  <1>2. ListingTypeOK'
    BY <1>1 DEF ListingInv, ListingTypeOK, ListFails
  <1>3. Iterating'
    BY DEF ListingInv, Iterating, ListFails, Begun, Staying, Divided, Answered, Live, vars,
           Before
  <1>4. QED
    BY <1>1, <1>2, <1>3 DEF ListingInv

LEMMA RowsStepKept == ListingInv /\ ListRows => ListingInv'
  <1> SUFFICES ASSUME ListingInv, at = "rows", UNCHANGED <<vars, created, query, listed, stayed>>,
                      page' = Paginate(Matching),
                      at' = IF page' = {} THEN "answer" ELSE "routes",
                      IF query.size > 0 /\ Cardinality(page') = query.size
                      THEN next' \in {d \in page' : \A e \in page' : e = d \/ Before(e, d)}
                      ELSE next' = NoCursor
               PROVE  ListingInv'
    BY FailKept DEF ListRows
  <1>1. Inv' /\ TypeOK'
    BY TableKept
  <1>2. Matching \in SUBSET Ids
    BY DEF Matching, Live
  <1>3. page' \subseteq Ids
    <2>1. \A S \in SUBSET Ids : Paginate(S) \subseteq Ids
      BY DEF Paginate, FirstOf, FromCursor
    <2>2. QED
      BY <1>2, <2>1
  <1>4. ListingTypeOK'
    BY <1>1, <1>3 DEF ListingInv, ListingTypeOK
  <1>5. Begun' /\ (query.no = 0 => Staying' /\ Divided')
    BY DEF ListingInv, Iterating, Begun, Staying, Divided, Live, vars, Before
  <1>6. ASSUME query.no = 0 PROVE Answered'
    <2>1. /\ page' \subseteq Matching
          /\ query.cursor \in Ids => \A e \in page' : Before(query.cursor, e)
          /\ \A d \in Matching \ page' :
               \/ query.cursor \in Ids /\ ~Before(query.cursor, d)
               \/ /\ query.size > 0 /\ Cardinality(page') = query.size
                  /\ \A e \in page' : Before(e, d)
      BY <1>2, <1>6, PageOf
    <2>2. stayed \subseteq Matching /\ Divided
      BY <1>6 DEF ListingInv, Iterating, Staying, Matching
    <2>3. ASSUME NEW d \in listed, NEW e \in page' PROVE Before(d, e)
      <3>1. query.cursor \in Ids /\ Before(query.cursor, e)
            /\ (d = query.cursor \/ Before(d, query.cursor))
        BY <2>1, <2>2, <2>3 DEF Divided
      <3>2. d \in Ids /\ e \in Ids /\ Ordered
        BY <1>3 DEF ListingInv, ListingTypeOK, Ordered
      <3>3. QED
        BY <3>1, <3>2, TotalOrder
    <2>4. ASSUME NEW d \in stayed \ (listed \cup page')
          PROVE  /\ query.size > 0 /\ Cardinality(page') = query.size
                 /\ \A e \in page' : Before(e, d)
      BY <2>1, <2>2, <2>4 DEF Divided
    <2>5. CASE query.size > 0 /\ Cardinality(page') = query.size
      <3>1. /\ next' \in page' /\ \A e \in page' : e = next' \/ Before(e, next')
            /\ next' # NoCursor
        BY <1>3, <2>5, CursorAssumption
      <3>2. QED
        BY <2>3, <2>4, <2>5, <3>1 DEF Answered, Before
    <2>6. CASE ~(query.size > 0 /\ Cardinality(page') = query.size)
      <3>1. next' = NoCursor /\ stayed \subseteq listed \cup page'
        BY <2>4, <2>6
      <3>2. QED
        BY <2>3, <3>1 DEF Answered, Before
    <2>7. QED
      BY <2>5, <2>6
  <1>7. QED
    BY <1>1, <1>4, <1>5, <1>6 DEF ListingInv, Iterating

LEMMA RoutesStepKept == ListingInv /\ ListRoutes => ListingInv'
  <1> SUFFICES ASSUME ListingInv, at = "routes", at' = "answer",
                      UNCHANGED <<page, next, vars, created, query, listed, stayed>>
               PROVE  ListingInv'
    BY FailKept DEF ListRoutes
  <1>1. Inv' /\ TypeOK'
    BY TableKept
  <1>2. ListingTypeOK'
    BY <1>1 DEF ListingInv, ListingTypeOK
  <1>3. Iterating'
    BY DEF ListingInv, Iterating, Begun, Staying, Divided, Answered, Live, vars, Before
  <1>4. QED
    BY <1>1, <1>2, <1>3 DEF ListingInv

LEMMA FollowKept == ListingInv /\ Follow => ListingInv'
  <1> SUFFICES ASSUME ListingInv, Follow PROVE ListingInv'
    OBVIOUS
  <1>1. Inv' /\ TypeOK'
    BY TableKept DEF Follow
  <1>2. /\ at = "answer" /\ at' = "rows" /\ next \in Ids /\ query \in Query
        /\ page' = {} /\ next' = NoCursor /\ listed' = listed \cup page
        /\ UNCHANGED <<vars, created, stayed>>
    BY DEF Follow, ListingInv, ListingTypeOK
  <1>3. query' \in Query
    BY <1>2 DEF Follow, Query
  <1>4. ListingTypeOK'
    BY <1>1, <1>2, <1>3 DEF ListingInv, ListingTypeOK
  <1>5. CASE query.no > 0 /\ query.cursor = NoCursor
    <2>1. query' = [query EXCEPT !.no = @ + 1]
      BY <1>5 DEF Follow
    <2>2. query'.no # 0 /\ query'.cursor = NoCursor
      BY <1>2, <1>5, <2>1 DEF Query
    <2>3. Iterating'
      BY <1>2, <2>2, CursorAssumption DEF Iterating, Begun
    <2>4. QED
      BY <1>1, <1>4, <2>3 DEF ListingInv
  <1>6. CASE ~(query.no > 0 /\ query.cursor = NoCursor)
    <2>1. query' = [query EXCEPT !.cursor = next]
      BY <1>6 DEF Follow
    <2>2. /\ query'.no = query.no /\ query'.size = query.size
          /\ query'.match = query.match /\ query'.cursor = next
      BY <1>2, <2>1 DEF Query
    <2>3. next # NoCursor /\ query.size > 0
      BY DEF Follow, ListingInv, Iterating, Begun
    <2>4. Begun'
      BY <1>2, <2>2, <2>3 DEF Begun
    <2>5. ASSUME query.no = 0 PROVE Staying' /\ Divided' /\ Answered'
      <3>1. Staying /\ Answered
        BY <2>5 DEF ListingInv, Iterating
      <3>2. Staying'
        BY <1>2, <2>2, <3>1 DEF Staying, vars, Live
      <3>3. /\ \A d \in listed \cup page : d = next \/ Before(d, next)
            /\ \A d \in stayed \ (listed \cup page) : Before(next, d)
        BY <1>2, <2>3, <3>1 DEF Answered
      <3>4. Divided'
        BY <1>2, <2>2, <3>3 DEF Divided, Before
      <3>5. Answered'
        BY <1>2 DEF Answered
      <3>6. QED
        BY <3>2, <3>4, <3>5
    <2>6. QED
      BY <1>1, <1>4, <2>2, <2>4, <2>5 DEF ListingInv, Iterating
  <1>7. QED
    BY <1>5, <1>6

LEMMA LeaveKept == ListingInv /\ Leave => ListingInv'
  <1> SUFFICES ASSUME ListingInv, Leave PROVE ListingInv'
    OBVIOUS
  <1>1. Inv' /\ TypeOK'
    BY TableKept DEF Leave
  <1>2. query'.cursor \notin Ids /\ query' \in Query
    BY PagesAssumption, CursorAssumption DEF Leave, First, Query
  <1>3. ListingTypeOK'
    BY <1>1, <1>2 DEF ListingInv, ListingTypeOK, Leave
  <1>4. Iterating'
    BY <1>2 DEF Leave, Iterating, Begun, Staying, Divided, Answered
  <1>5. QED
    BY <1>1, <1>3, <1>4 DEF ListingInv

LEMMA TableStepKept == ListingInv /\ TableStep => ListingInv'
  <1> SUFFICES ASSUME ListingInv, TableStep PROVE ListingInv'
    OBVIOUS
  <1>1. Inv'
    BY StepInv DEF ListingInv, TableStep
  <1>2. ListingTypeOK'
    BY <1>1 DEF ListingInv, ListingTypeOK, TableStep, Inv
  <1>3. RowsKept
    BY KeptRows DEF ListingInv, TableStep
  <1>4. ASSUME query.no = 0, Staying PROVE Staying'
    BY <1>3, <1>4 DEF Staying, RowsKept, TableStep
  <1>5. ASSUME Divided PROVE Divided'
    BY <1>5 DEF Divided, TableStep, Before
  <1>6. ASSUME Answered PROVE Answered'
    BY <1>6 DEF Answered, TableStep, Before
  <1>7. Iterating'
    BY <1>4, <1>5, <1>6 DEF ListingInv, Iterating, Begun, TableStep
  <1>8. QED
    BY <1>1, <1>2, <1>7 DEF ListingInv

LEMMA IdleKept == ListingInv /\ UNCHANGED listVars => ListingInv'
  <1> SUFFICES ASSUME ListingInv, UNCHANGED listVars PROVE ListingInv'
    OBVIOUS
  <1>1. Inv' /\ TypeOK'
    BY TableKept DEF listVars
  <1>2. ListingTypeOK'
    BY <1>1 DEF ListingInv, ListingTypeOK, listVars, iteration
  <1>3. Iterating'
    BY DEF ListingInv, Iterating, Begun, Staying, Divided, Answered, Live, vars, Before,
           listVars, iteration
  <1>4. QED
    BY <1>1, <1>2, <1>3 DEF ListingInv

-----------------------------------------------------------------------------

THEOREM ListingInvariance == ListingSpec => []ListingInv
  <1>1. ListingInit => ListingInv
    BY ListingInitInv
  <1>2. ListingInv /\ [ListingNext]_listVars => ListingInv'
    BY BeginKept, RowsStepKept, RoutesStepKept, FollowKept, LeaveKept, TableStepKept, IdleKept
    DEF ListingNext
  <1>3. QED
    BY <1>1, <1>2, PTL DEF ListingSpec

\* The cursor that goes out is the row of a domain, and what comes back in it a request.
THEOREM ListingTypeCorrect == ListingSpec => []ListingTypeOK
  <1>1. ListingInv => ListingTypeOK
    BY DEF ListingInv
  <1>2. QED
    BY <1>1, ListingInvariance, PTL

\* Following the cursor to the end lists every domain that was there all the time, each
\* domain once, however many were created and deleted meanwhile, and whatever their order.
THEOREM EveryoneListed == ListingSpec => []ListsEveryone
  <1>1. ListingInv => ListsEveryone
    BY DEF ListingInv, Iterating, Answered, ListsEveryone
  <1>2. QED
    BY <1>1, ListingInvariance, PTL

\* The table that is listed keeps what was proved of it alone.
THEOREM ListedRowsComplete == ListingSpec => []RowIsComplete
  <1>1. ListingInv => RowIsComplete
    BY CompleteRows DEF ListingInv
  <1>2. QED
    BY <1>1, ListingInvariance, PTL

\* Neither does a reader bring back what a failed creation had.
THEOREM NothingListedLeft == ListingSpec => []FailedLeavesNothing
  <1>1. ListingInv => FailedLeavesNothing
    BY NothingKept DEF ListingInv
  <1>2. QED
    BY <1>1, ListingInvariance, PTL

=============================================================================
