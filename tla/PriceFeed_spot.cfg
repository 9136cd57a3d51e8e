SPECIFICATION PriceFairSpec
CONSTANTS
  u1 = u1
  u2 = u2
  a1 = a1
  a2 = a2
  NoPrice = NoPrice
  Catalogue <- InOrderOfName
  Watched <- WatchFirst
  Accounts = {a1, a2}
  Holds <- HoldSecond
  MaxMoves = 1
INVARIANTS
  PriceTypeOK
PROPERTIES
  SpotNeverLost
  SpotRecovers
