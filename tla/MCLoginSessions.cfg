SPECIFICATION LoginSpec
CONSTANTS
  Calls = {c1, c2, c3, c4}
  Accounts = {a1, a2}
  NoCall = NoCall
  NoAccount = NoAccount
SYMMETRY Symmetry
CHECK_DEADLOCK FALSE
INVARIANT OnlyLiveTokens
INVARIANT LogoutEndsAll
