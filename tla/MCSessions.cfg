CONSTANTS
  alice = alice
  bob = bob
  b1 = b1
  c1 = c1
  c2 = c2
  k1 = k1
  k2 = k2
  Nobody = Nobody
  Users <- TwoUsers
  Tokens <- TwoTokens
  Browsers <- OneBrowser
  Calls <- TwoCalls
  Failures = {"crash"}
SPECIFICATION WebSpec
SYMMETRY Symmetry
INVARIANTS
  WebTypeOK
  IdentityProved
  CookiesStayGood
  LogoutRevokes
  ShownProved
