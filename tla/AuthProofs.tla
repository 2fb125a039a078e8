------------------------------- MODULE AuthProofs -------------------------------
(* Theorems about Auth, for any clients, passwords and number of versions.     *)
(* What tokens are worth needs changes that do not overlap: no two of them are *)
(* between reading the row and writing it (change_password.go:34-62).          *)
EXTENDS Auth, TLAPS

\* What each place of a request says of the row it read.
Place(c) ==
  /\ req[c].at # "idle" => up
  /\ req[c].at \in {"get", "put", "issue"} => c \in Changers
  /\ req[c].at \in {"login", "put"} => req[c].read \in Row
  /\ req[c].at = "put" => req[c].read.version < MaxVersion /\ req[c].new \in Passwords
  /\ req[c].at = "issue" => Changed(c) \in Row

Inv ==
  /\ TypeOK
  /\ up => row # NoRow
  /\ \A c \in Clients : Place(c)

\* What somebody was once told: no version is ahead of the row, and the current
\* one has the current password.
Told(x) ==
  /\ x \in Row /\ row \in Row
  /\ x.version <= row.version
  /\ x.version = row.version => x.password = row.password

Heard(c) ==
  /\ req[c].at = "login" => Told(req[c].read)
  /\ req[c].at = "put" => req[c].read = row
  /\ req[c].at = "issue" => Told(Changed(c))

Known ==
  /\ \A t \in tokens : Told(t)
  /\ \A c \in Clients : Heard(c)

NoOverlap == \A c, d \in Clients : req[c].at = "put" /\ req[d].at = "put" => c = d

OneChanger == \A c, d \in Changers : c = d

-----------------------------------------------------------------------------
(* What holds whatever overlaps.                                               *)

LEMMA InitInv == Init => Inv /\ Known
  <1> SUFFICES ASSUME Init PROVE Inv /\ Known
    OBVIOUS
  <1>1. TypeOK
    BY DEF Init, TypeOK, Idle
  <1>2. \A c \in Clients : req[c].at = "idle"
    BY DEF Init, Idle
  <1>3. \A c \in Clients : Place(c) /\ Heard(c)
    BY <1>2 DEF Place, Heard
  <1>4. QED
    BY <1>1, <1>3 DEF Init, Inv, Known

\* A request that moves alone, with the row left as it is.
LEMMA OneMoves ==
  ASSUME Inv, NEW c \in Clients, UNCHANGED <<row, up>>,
         req' \in [Clients -> [at : {"idle", "login", "get", "put", "issue"},
                               read : Row \cup {NoRow}, new : Passwords \cup {NoRow}]],
         \A d \in Clients : d # c => req'[d] = req[d],
         Place(c)', tokens' \subseteq Token
  PROVE  Inv'
  <1>1. TypeOK'
    BY DEF Inv, TypeOK
  <1>2. \A d \in Clients : Place(d)'
    BY DEF Inv, Place, Changed
  <1>3. QED
    BY <1>1, <1>2 DEF Inv

LEMMA RequestInv ==
  ASSUME Inv, NEW c \in Clients,
         LoginGet(c) \/ LoginIssue(c) \/ Authenticate(c) \/ ChangeGet(c) \/ ChangePutFails(c)
         \/ ChangeIssue(c)
  PROVE  Inv' /\ row' = row /\ (\A d \in Clients : d # c => req'[d] = req[d])
  <1>1. /\ TypeOK /\ Place(c) /\ (up => row \in Row)
        /\ req \in [Clients -> [at : {"idle", "login", "get", "put", "issue"},
                                read : Row \cup {NoRow}, new : Passwords \cup {NoRow}]]
    BY DEF Inv, TypeOK
  <1>2. ASSUME req' = [req EXCEPT ![c] = Idle], UNCHANGED <<row, up>>, tokens' \subseteq Token
        PROVE  Inv' /\ row' = row /\ (\A d \in Clients : d # c => req'[d] = req[d])
    <2>1. req'[c].at = "idle" /\ \A d \in Clients : d # c => req'[d] = req[d]
      BY <1>1, <1>2 DEF Idle
    <2>2. Place(c)'
      BY <2>1 DEF Place
    <2>3. QED
      BY <1>1, <1>2, <2>1, <2>2, OneMoves DEF Idle
  <1>3. CASE LoginGet(c)
    <2>1. /\ up /\ UNCHANGED <<row, tokens, up>>
          /\ req' = [req EXCEPT ![c] = [at |-> "login", read |-> row, new |-> NoRow]]
      BY <1>3 DEF LoginGet
    <2>2. /\ req'[c].at = "login" /\ req'[c].read = row
          /\ \A d \in Clients : d # c => req'[d] = req[d]
      BY <1>1, <2>1
    <2>3. Place(c)'
      BY <1>1, <2>1, <2>2 DEF Place
    <2>4. QED
      BY <1>1, <2>1, <2>2, <2>3, OneMoves DEF TypeOK
  <1>4. CASE LoginIssue(c)
    <2>1. tokens' = tokens \cup {req[c].read} /\ req[c].read \in Row
      BY <1>1, <1>4 DEF LoginIssue, Place
    <2>2. QED
      BY <1>1, <1>2, <1>4, <2>1 DEF LoginIssue, TypeOK, Token
  <1>5. CASE Authenticate(c)
    <2>1. /\ c \in Changers /\ up /\ UNCHANGED <<row, tokens, up>>
          /\ req' = [req EXCEPT ![c].at = "get"]
      BY <1>5 DEF Authenticate
    <2>2. req'[c].at = "get" /\ \A d \in Clients : d # c => req'[d] = req[d]
      BY <1>1, <2>1
    <2>3. Place(c)'
      BY <2>1, <2>2 DEF Place
    <2>4. QED
      BY <1>1, <2>1, <2>2, <2>3, OneMoves DEF TypeOK
  <1>6. CASE ChangeGet(c)
    <2>1. /\ req[c].at = "get" /\ UNCHANGED <<row, tokens, up>>
          /\ c \in Changers /\ row \in Row /\ up
      BY <1>1, <1>6 DEF ChangeGet, Place
    <2>2. ASSUME NEW p \in Passwords, row.version < MaxVersion,
                 req' = [req EXCEPT ![c] = [at |-> "put", read |-> row, new |-> p]]
          PROVE  Inv' /\ row' = row /\ (\A d \in Clients : d # c => req'[d] = req[d])
      <3>1. /\ req'[c].at = "put" /\ req'[c].read = row /\ req'[c].new = p
            /\ \A d \in Clients : d # c => req'[d] = req[d]
        BY <1>1, <2>2
      <3>2. Place(c)'
        BY <2>1, <2>2, <3>1 DEF Place
      <3>3. QED
        BY <1>1, <2>1, <2>2, <3>1, <3>2, OneMoves DEF TypeOK
    <2>3. QED
      BY <1>1, <1>2, <1>6, <2>1, <2>2 DEF ChangeGet, TypeOK
  <1>7. CASE ChangePutFails(c)
    BY <1>1, <1>2, <1>7 DEF ChangePutFails, TypeOK
  <1>8. CASE ChangeIssue(c)
    <2>1. tokens' = tokens \cup {Changed(c)} /\ Changed(c) \in Row
      BY <1>1, <1>8 DEF ChangeIssue, Place
    <2>2. QED
      BY <1>1, <1>2, <1>8, <2>1 DEF ChangeIssue, TypeOK, Token
  <1>9. QED
    BY <1>3, <1>4, <1>5, <1>6, <1>7, <1>8

LEMMA BootstrapInv ==
  ASSUME Inv, Bootstrap
  PROVE  /\ Inv' /\ tokens' = tokens /\ row' \in Row /\ (row = NoRow \/ row' = row)
         /\ \A c \in Clients : req'[c].at = "idle"
  <1>1. /\ ~up /\ up' = TRUE /\ UNCHANGED <<tokens, req>>
        /\ row' = IF row = NoRow THEN [password |-> AdminPassword, version |-> 1] ELSE row
    BY DEF Bootstrap
  <1>2. [password |-> AdminPassword, version |-> 1] \in Row
    BY MaxVersionAssumption, AdminAssumption DEF Row
  <1>3. row' \in Row /\ (row = NoRow \/ row' = row)
    BY <1>1, <1>2 DEF Inv, TypeOK
  <1>4. TypeOK'
    BY <1>1, <1>3 DEF Inv, TypeOK
  <1>5. \A c \in Clients : req'[c].at = "idle"
    BY <1>1 DEF Inv, Place
  <1>6. \A c \in Clients : Place(c)'
    BY <1>5 DEF Place
  <1>7. QED
    BY <1>1, <1>3, <1>4, <1>5, <1>6, NoRowAssumption DEF Inv

LEMMA ChangePutInv ==
  ASSUME Inv, NEW c \in Clients, ChangePut(c)
  PROVE  /\ Inv' /\ tokens' = tokens /\ row' = Changed(c) /\ row' \in Row
         /\ Changed(c)' = Changed(c) /\ req'[c].at = "issue" /\ req[c].at = "put"
         /\ \A d \in Clients : d # c => req'[d] = req[d]
         /\ req[c].read \in Row /\ row'.version = req[c].read.version + 1
  <1>1. /\ req[c].at = "put" /\ row' = Changed(c) /\ UNCHANGED <<tokens, up>>
        /\ req' = [req EXCEPT ![c].at = "issue"]
    BY DEF ChangePut
  <1>2. /\ c \in Changers /\ req[c].read \in Row /\ req[c].read.version < MaxVersion
        /\ req[c].new \in Passwords /\ up
    BY <1>1 DEF Inv, Place
  <1>3. /\ req'[c].at = "issue" /\ req'[c].read = req[c].read /\ req'[c].new = req[c].new
        /\ \A d \in Clients : d # c => req'[d] = req[d]
    BY <1>1 DEF Inv, TypeOK
  <1>4. Changed(c)' = Changed(c) /\ Changed(c).version = req[c].read.version + 1
    BY <1>3 DEF Changed
  <1>5. Changed(c) \in Row
    <2>1. req[c].read.version + 1 \in 1 .. MaxVersion
      BY <1>2, MaxVersionAssumption DEF Row
    <2>2. QED
      BY <1>2, <2>1 DEF Changed, Row
  <1>6. TypeOK'
    BY <1>1, <1>5 DEF Inv, TypeOK
  <1>7. Place(c)'
    BY <1>1, <1>2, <1>3, <1>4, <1>5 DEF Place
  <1>8. \A d \in Clients : d # c => Place(d)'
    BY <1>1, <1>3 DEF Inv, Place, Changed
  <1>9. Inv'
    BY <1>1, <1>5, <1>6, <1>7, <1>8, NoRowAssumption DEF Inv
  <1>10. QED
    BY <1>1, <1>2, <1>3, <1>4, <1>5, <1>9

LEMMA StepInv ==
  ASSUME Inv, [Next]_vars
  PROVE  Inv'
  <1>1. CASE Crash
    <2>1. up' = FALSE /\ req' = [c \in Clients |-> Idle] /\ UNCHANGED <<row, tokens>>
      BY <1>1 DEF Crash
    <2>2. TypeOK' /\ \A c \in Clients : Place(c)'
      BY <2>1 DEF Inv, TypeOK, Place, Idle
    <2>3. QED
      BY <2>1, <2>2 DEF Inv
  <1>2. CASE Expire \/ UNCHANGED vars
    <2>1. UNCHANGED <<row, req, up>> /\ tokens' \subseteq tokens
      BY <1>2 DEF Expire, vars
    <2>2. QED
      BY <2>1 DEF Inv, TypeOK, Place, Changed
  <1>3. QED
    BY <1>1, <1>2, BootstrapInv, ChangePutInv, RequestInv DEF Next

-----------------------------------------------------------------------------
(* What needs changes that do not overlap.                                     *)

\* The row changes, and everything told stays told.
Ahead == \/ row = NoRow \/ row' = row
         \/ row \in Row /\ row' \in Row /\ row'.version > row.version

LEMMA ToldStays ==
  ASSUME NEW x, Told(x), Ahead
  PROVE  Told(x)'
  <1>1. CASE row' = row
    BY <1>1 DEF Told
  <1>2. CASE row \in Row /\ row' \in Row /\ row'.version > row.version
    <2>1. x.version \in Nat /\ row.version \in Nat /\ row'.version \in Nat
      BY <1>2, MaxVersionAssumption DEF Told, Row
    <2>2. x.version < row'.version
      BY <1>2, <2>1 DEF Told
    <2>3. QED
      BY <1>2, <2>1, <2>2 DEF Told
  <1>3. QED
    BY <1>1, <1>2, NoRowAssumption DEF Ahead, Told

LEMMA RowTold == row \in Row => Told(row)
  BY MaxVersionAssumption DEF Told, Row

\* A request that does not move was told no less.
LEMMA StillHeard ==
  ASSUME Inv, NEW d \in Clients, Heard(d), req'[d] = req[d], Ahead,
         req[d].at = "put" => row' = row
  PROVE  Heard(d)'
  <1>1. ASSUME NEW x, Told(x) PROVE Told(x)'
    BY <1>1, ToldStays
  <1>2. Told(req[d].read) => Told(req[d].read)'
    <2>1. PICK x : x = req[d].read
      OBVIOUS
    <2>2. Told(x) => Told(x)'
      BY <1>1
    <2>3. QED
      BY <2>1, <2>2 DEF Told
  <1>3. Told(Changed(d)) => Told(Changed(d))'
    <2>1. PICK x : x = Changed(d)
      OBVIOUS
    <2>2. Told(x) => Told(x)'
      BY <1>1
    <2>3. x = Changed(d)'
      BY <2>1 DEF Changed
    <2>4. QED
      BY <2>1, <2>2, <2>3 DEF Told
  <1>4. QED
    BY <1>2, <1>3 DEF Heard

LEMMA RequestKnown ==
  ASSUME Inv, Known, NEW c \in Clients,
         LoginGet(c) \/ LoginIssue(c) \/ Authenticate(c) \/ ChangeGet(c) \/ ChangePutFails(c)
         \/ ChangeIssue(c)
  PROVE  Known' /\ Ahead
  <1>1. row' = row /\ Ahead /\ \A d \in Clients : d # c => req'[d] = req[d]
    BY RequestInv DEF Ahead
  <1>2. \A d \in Clients : d # c => Heard(d)'
    BY <1>1, StillHeard DEF Known
  <1>3. \A t \in tokens : Told(t)'
    BY <1>1, ToldStays DEF Known
  <1>4. req \in [Clients -> [at : {"idle", "login", "get", "put", "issue"},
                             read : Row \cup {NoRow}, new : Passwords \cup {NoRow}]]
    BY DEF Inv, TypeOK
  <1>5. /\ Place(c) /\ Heard(c) /\ (up => row \in Row)
    BY DEF Inv, Known, TypeOK
  <1>6. Heard(c)'
    <2>1. CASE LoginGet(c)
      <3>1. req'[c].at = "login" /\ req'[c].read = row /\ row \in Row
        BY <1>4, <1>5, <2>1 DEF LoginGet
      <3>2. Told(req[c].read)'
        BY <1>1, <3>1, RowTold DEF Told
      <3>3. QED
        BY <3>1, <3>2 DEF Heard
    <2>2. CASE req' = [req EXCEPT ![c] = Idle]
      <3>1. req'[c].at = "idle"
        BY <1>4, <2>2 DEF Idle
      <3>2. QED
        BY <3>1 DEF Heard
    <2>3. CASE Authenticate(c)
      <3>1. req'[c].at = "get"
        BY <1>4, <2>3 DEF Authenticate
      <3>2. QED
        BY <3>1 DEF Heard
    <2>4. CASE \E p \in Passwords :
                 req' = [req EXCEPT ![c] = [at |-> "put", read |-> row, new |-> p]]
      <3>1. req'[c].at = "put" /\ req'[c].read = row
        BY <1>4, <2>4
      <3>2. QED
        BY <1>1, <3>1 DEF Heard
    <2>5. QED
      BY <2>1, <2>2, <2>3, <2>4 DEF LoginIssue, ChangeGet, ChangePutFails, ChangeIssue
  <1>7. \A t \in tokens' : t \in tokens \/ Told(t)
    BY <1>5
    DEF Heard, LoginGet, LoginIssue, Authenticate, ChangeGet, ChangePutFails, ChangeIssue
  <1>8. \A t \in tokens' : Told(t)'
    BY <1>1, <1>3, <1>7, ToldStays
  <1>9. QED
    BY <1>1, <1>2, <1>6, <1>8 DEF Known

LEMMA StepKnown ==
  ASSUME Inv, Known, NoOverlap, [Next]_vars
  PROVE  Known' /\ Ahead
  <1>1. CASE Bootstrap
    <2>1. /\ tokens' = tokens /\ Ahead /\ \A c \in Clients : req'[c].at = "idle"
      BY <1>1, BootstrapInv DEF Ahead
    <2>2. \A t \in tokens' : Told(t)'
      BY <2>1, ToldStays DEF Known
    <2>3. QED
      BY <2>1, <2>2 DEF Known, Heard
  <1>2. ASSUME NEW c \in Clients, ChangePut(c) PROVE Known' /\ Ahead
    <2>1. /\ tokens' = tokens /\ row' = Changed(c) /\ row' \in Row /\ Changed(c)' = Changed(c)
          /\ req'[c].at = "issue" /\ req[c].at = "put" /\ req[c].read \in Row
          /\ \A d \in Clients : d # c => req'[d] = req[d]
          /\ row'.version = req[c].read.version + 1
      BY <1>2, ChangePutInv
    <2>2. req[c].read = row
      BY <2>1 DEF Known, Heard
    <2>3. Ahead
      <3>1. row.version \in Nat
        BY <2>1, <2>2, MaxVersionAssumption DEF Row
      <3>2. row'.version > row.version
        BY <2>1, <2>2, <3>1
      <3>3. QED
        BY <2>1, <2>2, <3>2 DEF Ahead
    <2>4. Heard(c)'
      <3>1. Told(Changed(c))'
        BY <2>1, MaxVersionAssumption DEF Told, Row
      <3>2. QED
        BY <2>1, <3>1 DEF Heard
    <2>5. \A d \in Clients : d # c => Heard(d)'
      <3>1. \A d \in Clients : d # c => req[d].at # "put"
        BY <2>1 DEF NoOverlap
      <3>2. QED
        BY <2>1, <2>3, <3>1, StillHeard DEF Known
    <2>6. \A t \in tokens' : Told(t)'
      BY <2>1, <2>3, ToldStays DEF Known
    <2>7. QED
      BY <2>3, <2>4, <2>5, <2>6 DEF Known
  <1>3. CASE Crash
    <2>1. Ahead /\ tokens' = tokens /\ \A c \in Clients : req'[c].at = "idle"
      BY <1>3 DEF Crash, Ahead, Idle
    <2>2. QED
      BY <2>1, ToldStays DEF Known, Heard
  <1>4. CASE Expire \/ UNCHANGED vars
    <2>1. Ahead /\ row' = row /\ req' = req /\ tokens' \subseteq tokens
      BY <1>4 DEF Expire, vars, Ahead
    <2>2. \A c \in Clients : Heard(c)'
      BY <2>1, StillHeard DEF Known
    <2>3. QED
      BY <2>1, <2>2, ToldStays DEF Known
  <1>5. QED
    BY <1>1, <1>2, <1>3, <1>4, RequestKnown DEF Next

LEMMA OneNeverOverlaps == OneChanger /\ Inv => NoOverlap
  BY DEF OneChanger, NoOverlap, Inv, Place

LEMMA StepRefused ==
  ASSUME Inv, Known, NoOverlap, [Next]_vars
  PROVE  [RefusedStays]_vars
  <1>1. \A t \in tokens : Told(t)
    BY DEF Known
  <1>2. Ahead
    BY StepKnown
  <1>3. ASSUME NEW t \in tokens, row # NoRow, t.version # row.version
        PROVE  t.version # row'.version
    <2>1. t.version \in Nat /\ row.version \in Nat /\ t.version < row.version
      BY <1>1, <1>3, MaxVersionAssumption DEF Told, Row
    <2>2. row' = row \/ (row' \in Row /\ row'.version > row.version)
      BY <1>2, <1>3 DEF Ahead
    <2>3. CASE row' \in Row /\ row'.version > row.version
      <3>1. row'.version \in Nat
        BY <2>3, MaxVersionAssumption DEF Row
      <3>2. QED
        BY <2>1, <2>3, <3>1
    <2>4. QED
      BY <1>3, <2>2, <2>3
  <1>4. QED
    BY <1>3 DEF RefusedStays

-----------------------------------------------------------------------------

\* Requests act only while the backend is up, and what they read was a row.
THEOREM Invariance == Spec => []Inv
  <1>1. Inv /\ [Next]_vars => Inv'
    BY StepInv
  <1>2. QED
    BY InitInv, <1>1, PTL DEF Spec

\* The type invariant, however requests overlap; versions never pass the bound that
\* guards the change.
THEOREM TypeCorrect == Spec => []TypeOK
  <1>1. Inv => TypeOK
    BY DEF Inv
  <1>2. QED
    BY Invariance, <1>1, PTL

\* While changes do not overlap, nobody was told a version ahead of the row, nor the
\* current one with another password.
THEOREM SerialKnown == Spec /\ []NoOverlap => []Known
  <1>1. Inv /\ Known /\ NoOverlap /\ [Next]_vars => Known'
    BY StepKnown
  <1>2. QED
    BY InitInv, <1>1, Invariance, PTL DEF Spec

\* Any number of clients may change the password, if no two of them are between reading
\* the row and writing it: then whoever holds an accepted token knows the password.
THEOREM SerialHolderKnows == Spec /\ []NoOverlap => []TokenKnowsPassword
  <1>1. Known => TokenKnowsPassword
    BY DEF Known, Told, TokenKnowsPassword, Valid
  <1>2. QED
    BY SerialKnown, <1>1, PTL

\* Under the same condition a refused token stays refused: overlapping reads and writes
\* of the row are the only way to what the run auth_overlap shows.
THEOREM SerialStaysRefused == Spec /\ []NoOverlap => RefusedStaysRefused
  <1>1. Inv /\ Known /\ NoOverlap /\ [Next]_vars => [RefusedStays]_vars
    BY StepRefused
  <1>2. QED
    BY Invariance, SerialKnown, <1>1, PTL DEF Spec, RefusedStaysRefused

\* One client that changes the password cannot overlap with itself.
THEOREM OneIsSerial == OneChanger /\ Spec => []NoOverlap
  <1>1. CASE OneChanger
    <2>1. Inv => NoOverlap
      BY <1>1, OneNeverOverlaps
    <2>2. QED
      BY <2>1, Invariance, PTL
  <1>2. QED
    BY <1>1

\* Whoever holds an accepted token knows the current password, whatever logins overlap
\* the changes (login.go:50, change_password.go:34-62).
THEOREM HolderKnows == OneChanger /\ Spec => []TokenKnowsPassword
  BY OneIsSerial, SerialHolderKnows, PTL

\* A refused token stays refused, across restarts too (bootstrap.go:20).
THEOREM StaysRefused == OneChanger /\ Spec => RefusedStaysRefused
  BY OneIsSerial, SerialStaysRefused, PTL

=============================================================================
