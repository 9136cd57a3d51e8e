SPECIFICATION Spec
CONSTANTS
  a1 = a1
  a2 = a2
  None = None
  Accounts = {a1, a2}
  Scopes <- OneOrAll
  Currencies = {"USD", "EUR", "SGD"}
  Worth <- SomeWorth
  Base <- SomeBases
  Markets <- Foreign
  Silent = {a1}
  NetLiq <- SomeLiqs
  Display = "USD"
  Months = {1}
  MaxChains <- FewChains
  MaxWithdrawal <- Withdrawals
INVARIANTS
  TypeOK
  YieldInOneCurrency
  HouseholdInOneCurrency
