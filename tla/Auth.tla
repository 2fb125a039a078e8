--------------------------------- MODULE Auth ---------------------------------
(***************************************************************************)
(* internal/services/auth: one administrator, whose row holds a password   *)
(* and a token version.  A token is accepted while its version is the      *)
(* row's, so a change of the password, which increments the version, is    *)
(* meant to invalidate every token issued before.  Login, authentication   *)
(* and change are requests that read the row and act on it later.          *)
(***************************************************************************)
EXTENDS Integers

CONSTANTS
  Clients,      \* request handlers
  Changers,     \* those that may change the password
  Passwords,
  AdminPassword,    \* ADMIN_PASSWORD
  MaxVersion,   \* bound: changes stop at this version
  NoRow

ASSUME ChangersAssumption == Changers \subseteq Clients
ASSUME AdminAssumption    == AdminPassword \in Passwords
ASSUME MaxVersionAssumption == MaxVersion \in Nat \ {0}

VARIABLES
  row,      \* auth table: [password, version] or NoRow
  tokens,   \* unexpired tokens, wherever they are: their version, and (history)
            \* the password that was known to whom it was issued
  req,      \* the requests: where they are, the row they read, the new password
  up        \* the backend is started

vars == <<row, tokens, req, up>>

Row   == [password : Passwords, version : 1 .. MaxVersion]
Token == Row
ASSUME NoRowAssumption == NoRow \notin Row
Idle  == [at |-> "idle", read |-> NoRow, new |-> NoRow]

TypeOK ==
  /\ row \in Row \cup {NoRow}
  /\ tokens \subseteq Token
  /\ req \in [Clients -> [at : {"idle", "login", "get", "put", "issue"},
                          read : Row \cup {NoRow}, new : Passwords \cup {NoRow}]]
  /\ up \in BOOLEAN

Init ==
  /\ row = NoRow /\ tokens = {} /\ up = FALSE
  /\ req = [c \in Clients |-> Idle]

\* Mutants: the administrator is set up again at every start; versions start at 0.
BootstrapAlways ==
  /\ ~up /\ up' = TRUE
  /\ row' = [password |-> AdminPassword, version |-> 1]
  /\ UNCHANGED <<tokens, req>>

BootstrapZero ==
  /\ ~up /\ up' = TRUE
  /\ row' = IF row = NoRow THEN [password |-> AdminPassword, version |-> 0] ELSE row
  /\ UNCHANGED <<tokens, req>>

\* Before the server listens: the row is created unless it is there.
Bootstrap ==
  /\ ~up /\ up' = TRUE
  /\ row' = IF row = NoRow THEN [password |-> AdminPassword, version |-> 1] ELSE row
  /\ UNCHANGED <<tokens, req>>

\* The backend stops; tokens are with the clients and the row is in SQLite.
Crash ==
  /\ up /\ up' = FALSE
  /\ req' = [c \in Clients |-> Idle]
  /\ UNCHANGED <<row, tokens>>

\* GetByUsername and the comparison of the password.
LoginGet(c) ==
  /\ up /\ req[c].at = "idle"
  /\ req' = [req EXCEPT ![c] = [at |-> "login", read |-> row, new |-> NoRow]]
  /\ UNCHANGED <<row, tokens, up>>

\* Mutant: the version of the token is read anew.
LoginIssueAnew(c) ==
  /\ req[c].at = "login"
  /\ tokens' = tokens \cup {[req[c].read EXCEPT !.version = row.version]}
  /\ req' = [req EXCEPT ![c] = Idle]
  /\ UNCHANGED <<row, up>>

LoginIssue(c) ==
  /\ req[c].at = "login"
  /\ tokens' = tokens \cup {req[c].read}
  /\ req' = [req EXCEPT ![c] = Idle]
  /\ UNCHANGED <<row, up>>

\* Authenticate, in the middleware: an older version is refused.
Valid(t) == row # NoRow /\ t.version = row.version

Authenticate(c) ==
  /\ c \in Changers /\ up /\ req[c].at = "idle"
  /\ \E t \in tokens : Valid(t)
  /\ req' = [req EXCEPT ![c].at = "get"]
  /\ UNCHANGED <<row, tokens, up>>

\* ChangePassword reads the row again; the current password must be right (the
\* client may know any) and the new one another.
ChangeGet(c) ==
  /\ req[c].at = "get"
  /\ \/ \E p \in Passwords \ {row.password} :
          /\ row.version < MaxVersion
          /\ req' = [req EXCEPT ![c] = [at |-> "put", read |-> row, new |-> p]]
     \/ req' = [req EXCEPT ![c] = Idle]
  /\ UNCHANGED <<row, tokens, up>>

Changed(c) == [password |-> req[c].new, version |-> req[c].read.version + 1]

\* Mutant: the version is not incremented.
ChangePutOnly(c) ==
  /\ req[c].at = "put"
  /\ row' = [password |-> req[c].new, version |-> req[c].read.version]
  /\ req' = [req EXCEPT ![c].at = "issue"]
  /\ UNCHANGED <<tokens, up>>

\* repo.Update writes the columns computed from the row that was read.
ChangePut(c) ==
  /\ req[c].at = "put"
  /\ row' = Changed(c)
  /\ req' = [req EXCEPT ![c].at = "issue"]
  /\ UNCHANGED <<tokens, up>>

ChangePutFails(c) ==
  /\ req[c].at = "put"
  /\ req' = [req EXCEPT ![c] = Idle]
  /\ UNCHANGED <<row, tokens, up>>

ChangeIssue(c) ==
  /\ req[c].at = "issue"
  /\ tokens' = tokens \cup {Changed(c)}
  /\ req' = [req EXCEPT ![c] = Idle]
  /\ UNCHANGED <<row, up>>

\* The expiry time of a token has come.
Expire ==
  /\ \E t \in tokens : tokens' = tokens \ {t}
  /\ UNCHANGED <<row, req, up>>

Next ==
  \/ Bootstrap \/ Crash \/ Expire
  \/ \E c \in Clients :
       \/ LoginGet(c) \/ LoginIssue(c) \/ Authenticate(c)
       \/ ChangeGet(c) \/ ChangePut(c) \/ ChangePutFails(c) \/ ChangeIssue(c)

Spec == Init /\ [][Next]_vars

-----------------------------------------------------------------------------
\* Whoever holds a token that is accepted knows the current password: a login that
\* read the row before a change and issues its token after it gets a dead one.
\* This needs changes that do not overlap (login.go:50, change_password.go:34-62).
TokenKnowsPassword == \A t \in tokens : Valid(t) => t.password = row.password

RefusedStays ==
  \A t \in tokens \cap tokens' :
    row # NoRow /\ t.version # row.version => t.version # row'.version

\* A token that was refused once stays refused, across restarts too.
RefusedStaysRefused == [][RefusedStays]_vars

\* README: a password change "returns a replacement token and invalidates every
\* older token immediately".  Of two changes that overlap the later write may carry
\* the lower version, and tokens that were refused are accepted again.
OldTokensStayDead == [][RefusedStays]_vars

=============================================================================
