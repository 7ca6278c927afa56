SPECIFICATION Spec
CONSTANTS
  Clients = {b1, b2}
  Tokens = {t1, t2, t3}
  IdleChoices = {1, 2}
  SessionLife = 3
  MaxAttempts = 1
  Passwords = 2
SYMMETRY Symmetric
PROPERTIES
  ChangedPasswordStays
