SPECIFICATION Spec
CONSTANTS
  Contracts <- Listed
  Feeds = {"poll", "flex"}
  CHAIN_CONTINUATION_DAYS = 1
  SharePrice = 1
  Histories = {}
  MaxDay = 3
  MaxLots = 2
  MaxTrades = 4
INVARIANTS
  TypeOK
  ShortsMatch
  CashMatches
  ChainsSettle
  IncomeIsBanked
  PositionsFindTheirChain
CHECK_DEADLOCK FALSE
