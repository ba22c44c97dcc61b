CONSTANTS
  a1 = a1
  a2 = a2
  l1 = l1
  l2 = l2
  Accounts = {a1, a2}
  FirstLogin <- Two
  Codes = {c1, c2}
  Tries = {t1, t2}
  Issues = {}
  Patches = {}
  Logins = {l1, l2, l3}
  Names = {}
  Avatars = {}
  None = None
  TooNew = {a2}
  Ops = {"profile"}
SPECIFICATION Spec
SYMMETRY Alike
INVARIANT TypeOK
INVARIANT TokensAreEarned
