SPECIFICATION Spec
CONSTANTS
  f1 = f1
  f2 = f2
  g1 = g1
  g2 = g2
  cpf = cpf
  endowus = endowus
  None = None
  Files = {f1, f2, g1, g2}
  Externals = {cpf, endowus}
  AccountOf <- SomeAccounts
  CurrencyOf <- SomeCurrencies
  Reports <- SomeReports
  Currencies = {"SGD", "USD"}
  Categories = {"OA", "home", "travel"}
  Uploaders = {w1, w2}
  w1 = w1
  w2 = w2
  ReadOrder <- InOrder
  Months = {1, 2, 3}
  Decembers = {2}
  RateOf <- SomeRates
  Target = "USD"
  Dollar = "USD"
  BrokerBase = "SGD"
  NetLiqs = {20}
INVARIANTS
  TypeOK
  StatementsWhole
  MonthsAreCarried
  HeadlineOnChart
  CombinedIsWhole
