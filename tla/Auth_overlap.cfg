\* Two clients change the password at the same time.
SPECIFICATION Spec
CONSTANTS
  Clients = {c1, c2}
  Changers = {c1, c2}
  Passwords = {p1, p2}
  AdminPassword = p1
  MaxVersion = 3
  NoRow = NoRow
PROPERTY OldTokensStayDead
