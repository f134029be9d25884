SPECIFICATION Spec
CONSTANTS
  tab1 = tab1
  tab2 = tab2
  c1 = c1
  c2 = c2
  f1 = f1
  f2 = f2
  l1 = l1
  None = None
  Tab <- MCTab
  Call <- MCCall
  Flight <- MCFlight
  Login <- MCLogin
  MaxTokens = 2
INVARIANTS TypeOK OneRefresh SilentRefresh
PROPERTIES CallsSettle SignedOutStays
