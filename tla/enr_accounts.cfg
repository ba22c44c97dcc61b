CONSTANTS
  a1 = a1
  a2 = a2
  l1 = l1
  l2 = l2
  Accounts = {a1}
  FirstLogin <- Alone
  Codes = {c1}
  Tries = {t1, t2}
  Issues = {i1}
  Patches = {e1}
  Logins = {l1}
  Names = {n1}
  Avatars = {}
  None = None
  TooNew = {}
  Ops = {"block", "profile"}
SPECIFICATION FairSpec
PROPERTY SignInEnds
PROPERTY BlockHolds
INVARIANT NamesAreChosen
INVARIANT IssuedTogether
