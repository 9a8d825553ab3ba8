\* Two requests at a time, two codes, a session and a socket.
SPECIFICATION Spec
CONSTANTS
  Passwords = {p1, p2}
  Sessions = {s1}
  Sockets = {k1}
  Handlers = {h1, h2}
  None = None
  MaxMails = 2
  MaxVersion = 2
SYMMETRY Symmetry
CHECK_DEADLOCK FALSE
INVARIANTS OnlyCurrentStay
PROPERTIES CodesUsedOnce ConfirmsOwnRegistration
