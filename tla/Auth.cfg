\* One client changes the password while the others log in.
SPECIFICATION Spec
CONSTANTS
  Clients = {c1, c2, c3}
  Changers = {c1}
  Passwords = {p1, p2, p3}
  AdminPassword = p1
  MaxVersion = 3
  NoRow = NoRow
INVARIANTS TypeOK TokenKnowsPassword
PROPERTY RefusedStaysRefused
