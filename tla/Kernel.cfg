SPECIFICATION Spec
CONSTANTS
  p1 = p1
  p2 = p2
  pegasus = pegasus
  other = other
  d1 = d1
  d2 = d2
  bm1 = bm1
  bf1 = bf1
  Keys = {p1, p2}
  Docs = {d1, d2}
  BetmaticAccounts = {bm1}
  BetfairAccounts = {bf1}
  NoAccount = NoAccount
  NoDoc = NoDoc
  Apps = {pegasus, other}
  BetmaticOf <- MCBetmaticOf
  BetfairOf <- MCBetfairOf
  AppOf <- MCAppOf
INVARIANTS
  SessionsExact
  SettingsCurrent
  StateHasSettings
  IntentKept
PROPERTIES
  SoleHolderRedials
