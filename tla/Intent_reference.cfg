CONSTANTS
  a1 = a1
  a2 = a2
  aBad = aBad
  cFlow = cFlow
  cAlias = cAlias
  cBad = cBad
  junk = junk
  Err = Err
  Accounts <- MCAccounts
  ValidAccounts <- MCValidAccounts
  Currencies <- MCCurrencies
  Canonical <- MCCanonical
  Digits <- MCDigits
  Types <- MCTypes
  Upper <- MCUpper
  Transfer = "TRANSFER"
SPECIFICATION Spec
INVARIANT DistinctAccountsMatchReference
